-------------------------- MODULE NgxPhasesProofs ---------------------------
(***************************************************************************)
(* The phases of a request: for every number of handlers, every set of     *)
(* locations and every chain of rewrites, redirects, error pages, named    *)
(* locations and post actions, the content of a location is produced only  *)
(* after its access rules let the request through, and cycles are cut.     *)
(*                                                                         *)
(* First the shape of the engine: indices up to FirstAccess belong to the  *)
(* checkers before the access rules, and no jump from there leads behind   *)
(* them.  Then each way a request changes its location leads back before   *)
(* the access rules with no verdict kept, and each checker keeps Valid.    *)
(***************************************************************************)
EXTENDS NgxPhases, TLAPS

-----------------------------------------------------------------------------
(* The engine that ngx_http_init_phase_handlers() builds. *)

FrontCheckers == {"generic", "rewrite", "find_config", "post_rewrite"}
Names == FrontCheckers \cup
         {"post_read", "server_rewrite", "preaccess", "access", "post_access", "try_files", "content"}
Entries == [checker : Names, phase : Names, next : Nat]
(* a part of the engine before the access rules: every jump stays within it or leads to its end *)
FrontOK(e) ==
    /\ e.ph \in Seq(Entries) /\ e.n = Len(e.ph)
    /\ e.find \in 0..Len(e.ph) /\ e.server \in 0..Len(e.ph) /\ e.location \in 0..Len(e.ph)
    /\ \A i \in 1..Len(e.ph) : e.ph[i].checker \in FrontCheckers /\ e.ph[i].next \in 0..Len(e.ph)

(* Appending one checker (AddChecker) keeps the ones before it. *)
LEMMA CheckerFacts ==
    ASSUME NEW s \in Seq(Entries), NEW x \in Entries
    PROVE  /\ Append(s, x) \in Seq(Entries) /\ Len(Append(s, x)) = Len(s) + 1
           /\ \A i \in 1..Len(s) : Append(s, x)[i] = s[i]
           /\ Append(s, x)[Len(s) + 1] = x
  OBVIOUS

(* Appending the handlers of a phase (AddHandlers) keeps the checkers before them, and adds the same
   checker for each handler. *)
LEMMA HandlersFacts ==
    ASSUME NEW s \in Seq(Entries), NEW x \in Entries, NEW k \in Nat
    PROVE  LET t == s \o [j \in 1..k |-> x] IN
           /\ t \in Seq(Entries) /\ Len(t) = Len(s) + k
           /\ \A i \in 1..Len(s) : t[i] = s[i]
           /\ \A i \in (Len(s) + 1)..(Len(s) + k) : t[i] = x
<1> DEFINE f == [j \in 1..k |-> x]
<1>1. f \in Seq(Entries) /\ Len(f) = k
  OBVIOUS
<1>2. \A j \in 1..k : f[j] = x
  OBVIOUS
<1> HIDE DEF f
<1>3. s \o f \in Seq(Entries) /\ Len(s \o f) = Len(s) + k
  BY <1>1
<1>4. \A i \in 1..Len(s) : (s \o f)[i] = s[i]
  BY <1>1
<1>5. ASSUME NEW i \in (Len(s) + 1)..(Len(s) + k) PROVE (s \o f)[i] = x
  <2>1. (s \o f)[i] = f[i - Len(s)]
    BY <1>1
  <2>2. i - Len(s) \in 1..k
    OBVIOUS
  <2> QED BY <2>1, <2>2, <1>2
<1> QED BY <1>3, <1>4, <1>5 DEF f

(* The find_config and post_rewrite checkers jump only within the part that is built. *)
LEMMA FrontChecker ==
    ASSUME NEW e, FrontOK(e), NEW p \in {"find_config", "post_rewrite"}, NEW next \in 0..Len(e.ph),
           NEW find \in 0..Len(e.ph)
    PROVE  FrontOK(AddChecker(e, p, next)) /\ FrontOK([AddChecker(e, p, next) EXCEPT !.find = find])
<1> DEFINE x == Entry(p, p, next)
<1>0. next \in Nat
  BY DEF FrontOK
<1>1. x \in Entries /\ x.checker \in FrontCheckers /\ x.next = next
  <2>1. p \in Names /\ p \in FrontCheckers
    BY DEF FrontCheckers, Names
  <2>2. x = [checker |-> p, phase |-> p, next |-> next]
    BY DEF Entry
  <2> HIDE DEF x
  <2>3. x \in Entries
    BY <2>1, <2>2, <1>0 DEF Entries
  <2> QED BY <2>1, <2>2, <2>3
<1> DEFINE q == Append(e.ph, x)
<1>2. /\ q \in Seq(Entries) /\ Len(q) = Len(e.ph) + 1
      /\ \A i \in 1..Len(e.ph) : q[i] = e.ph[i]
      /\ q[Len(e.ph) + 1] = x
  BY <1>1, CheckerFacts DEF FrontOK
<1>3. AddChecker(e, p, next) = [ph |-> q, n |-> e.n + 1, find |-> e.find, server |-> e.server,
                                location |-> e.location]
  BY DEF AddChecker
<1> HIDE DEF x, q
<1>4. Len(e.ph) \in Nat
  BY DEF FrontOK
<1>5. ASSUME NEW i \in 1..Len(q) PROVE q[i].checker \in FrontCheckers /\ q[i].next \in 0..Len(q)
  <2>1. CASE i \in 1..Len(e.ph)
    BY <2>1, <1>2, <1>4 DEF FrontOK
  <2>2. CASE i = Len(e.ph) + 1
    BY <2>2, <1>1, <1>2, <1>4
  <2> QED BY <2>1, <2>2, <1>2, <1>4
<1>6. \A a \in 0..Len(e.ph) : a \in 0..Len(q)
  BY <1>2, <1>4
<1>7. FrontOK([ph |-> q, n |-> e.n + 1, find |-> e.find, server |-> e.server, location |-> e.location])
  BY <1>2, <1>5, <1>6 DEF FrontOK
<1>8. FrontOK([ph |-> q, n |-> e.n + 1, find |-> find, server |-> e.server, location |-> e.location])
  BY <1>2, <1>5, <1>6 DEF FrontOK
<1>9. [AddChecker(e, p, next) EXCEPT !.find = find] =
        [ph |-> q, n |-> e.n + 1, find |-> find, server |-> e.server, location |-> e.location]
  BY <1>3
<1> QED BY <1>3, <1>7, <1>8, <1>9

(* The handlers of a phase before the access rules jump at most to the next phase. *)
LEMMA FrontHandlers ==
    ASSUME NEW e, FrontOK(e), NEW p \in {"post_read", "server_rewrite", "rewrite", "preaccess"}
    PROVE  FrontOK(AddHandlers(e, p, e.n + Handlers[p]))
<1> DEFINE k == Handlers[p]
           x == Entry(CheckerOf(p), p, e.n + k)
           q == e.ph \o [j \in 1..k |-> x]
           t == AddHandlers(e, p, e.n + k)
<1>1. k \in Nat /\ e.ph \in Seq(Entries) /\ e.n = Len(e.ph) /\ Len(e.ph) \in Nat
  BY PhasesAssumption DEF FrontOK
<1>2. x \in Entries /\ x.checker \in FrontCheckers /\ x.next = Len(e.ph) + k
  <2>1. p \in Names /\ CheckerOf(p) \in Names /\ CheckerOf(p) \in FrontCheckers
    BY DEF CheckerOf, FrontCheckers, Names
  <2>2. x = [checker |-> CheckerOf(p), phase |-> p, next |-> Len(e.ph) + k]
    BY <1>1 DEF Entry
  <2>3. Len(e.ph) + k \in Nat
    BY <1>1
  <2> HIDE DEF x, k
  <2>4. x \in Entries
    BY <2>1, <2>2, <2>3 DEF Entries
  <2> QED BY <2>1, <2>2, <2>4
<1>3. t.ph = q /\ t.n = e.n + k /\ t.find = e.find /\ t.server \in {e.n, e.server} /\ t.location \in {e.n, e.location}
  BY DEF AddHandlers
<1> HIDE DEF x, t, k
<1>4. /\ q \in Seq(Entries) /\ Len(q) = Len(e.ph) + k
      /\ \A i \in 1..Len(e.ph) : q[i] = e.ph[i]
      /\ \A i \in (Len(e.ph) + 1)..(Len(e.ph) + k) : q[i] = x
  BY <1>1, <1>2, HandlersFacts
<1> HIDE DEF q
<1>5. ASSUME NEW i \in 1..Len(q) PROVE q[i].checker \in FrontCheckers /\ q[i].next \in 0..Len(q)
  <2>1. CASE i \in 1..Len(e.ph)
    <3>1. e.ph[i].checker \in FrontCheckers /\ e.ph[i].next \in 0..Len(e.ph)
      BY <2>1 DEF FrontOK
    <3> QED BY <3>1, <2>1, <1>1, <1>4
  <2>2. CASE i \in (Len(e.ph) + 1)..(Len(e.ph) + k)
    <3>1. q[i] = x
      BY <2>2, <1>4
    <3> QED BY <3>1, <1>1, <1>2, <1>4
  <2> QED BY <2>1, <2>2, <1>1, <1>4
<1>6. \A a \in 0..Len(e.ph) : a \in 0..Len(q)
  BY <1>1, <1>4
<1>7. t.find \in 0..Len(q) /\ t.server \in 0..Len(q) /\ t.location \in 0..Len(q)
  BY <1>1, <1>3, <1>6 DEF FrontOK
<1>8. t.n = Len(q)
  BY <1>1, <1>3, <1>4
<1>9. FrontOK(t)
  BY <1>3, <1>4, <1>5, <1>7, <1>8 DEF FrontOK
<1> QED BY <1>9 DEF t, k

(* ngx_http_init_phase_handlers() up to the access phase: no checker jumps past its end. *)
LEMMA FrontEngine == FrontOK(BeforeAccess)
<1>0. FrontOK(NoHandlers)
  <2>1. <<>> \in Seq(Entries) /\ Len(<<>>) = 0
    OBVIOUS
  <2> QED BY <2>1 DEF FrontOK, NoHandlers
<1>a. ASSUME NEW e, FrontOK(e), NEW p \in {"post_read", "server_rewrite", "rewrite", "preaccess"}
      PROVE  FrontOK(AddPhase(e, p))
  BY <1>a, FrontHandlers, Zenon DEF AddPhase
<1>b. ASSUME NEW e, FrontOK(e) PROVE FrontOK(AddFindConfig(e))
  <2>1. 0 \in 0..Len(e.ph) /\ e.n \in 0..Len(e.ph)
    BY <1>b DEF FrontOK
  <2> QED BY <2>1, <1>b, FrontChecker, Zenon DEF AddFindConfig
<1>c. ASSUME NEW e, FrontOK(e) PROVE FrontOK(AddPostRewrite(e))
  <2>1. e.find \in 0..Len(e.ph)
    BY <1>c DEF FrontOK
  <2>2. FrontOK(AddChecker(e, "post_rewrite", e.find))
    BY <2>1, <1>c, FrontChecker, Zenon
  <2> QED BY <2>2, <1>c, Zenon DEF AddPostRewrite
<1>1. FrontOK(AddPhase(NoHandlers, "post_read"))
  BY <1>0, <1>a, Zenon
<1>2. FrontOK(AddPhase(AddPhase(NoHandlers, "post_read"), "server_rewrite"))
  BY <1>1, <1>a, Zenon
<1>3. FrontOK(BeforeRewrite)
  BY <1>2, <1>b, Zenon DEF BeforeRewrite
<1>4. FrontOK(AddPhase(BeforeRewrite, "rewrite"))
  BY <1>3, <1>a, Zenon
<1>5. FrontOK(AddPostRewrite(AddPhase(BeforeRewrite, "rewrite")))
  BY <1>4, <1>c, Zenon
<1> QED BY <1>5, <1>a, Zenon DEF BeforeAccess

(* the checkers of the whole engine, by their indices *)
EngineShape ==
    LET A == FirstAccess
        H == Handlers["access"]
        N == Len(Engine.ph)
    IN  /\ A \in Nat /\ H \in Nat /\ N \in Nat
        /\ N > A /\ (H > 0 => N > A + H + 1)
        /\ Engine.server \in 0..A /\ Engine.location \in 0..A
        /\ \A i \in 0..(A - 1) : Checker(i).checker \in FrontCheckers /\ Checker(i).next \in 0..A
        /\ \A i \in A..(A + H - 1) : Checker(i).checker = "access" /\ Checker(i).next = A + H + 1
        /\ H > 0 => Checker(A + H).checker = "post_access"
        /\ \A i \in 0..(N - 1) : i > A + H \/ (H = 0 /\ i = A) =>
              \/ Checker(i).checker = "try_files" /\ i + 1 < N
              \/ Checker(i).checker = "content"

(* What an entry of the phase engine says. *)
LEMMA EntryFacts ==
    ASSUME NEW p \in Names, NEW next \in Nat
    PROVE  Entry(p, p, next) \in Entries /\ Entry(p, p, next).checker = p /\ Entry(p, p, next).next = next
  BY DEF Entry, Entries
(* The checkers from the access rules on. *)
LEMMA NamesFacts == {"access", "post_access", "try_files", "content"} \subseteq Names
  BY DEF Names

(* ngx_http_init_phase_handlers() as a whole: front checkers, then one access checker per rule that skips the
   post access checker, that one if there are rules, try_files, and at least one content handler at the end. *)
LEMMA EngineFacts == EngineShape
<1> DEFINE A == FirstAccess
           H == Handlers["access"]
           C == Handlers["content"]
           b == BeforeAccess
           e1 == AddAccess(b)
           e2 == AddPostAccess(e1)
           e3 == AddTryFiles(e2)
           a == Entry("access", "access", A + H + 1)
           c == Entry("content", "content", e3.n + C)
           T == IF HasTryFiles THEN 1 ELSE 0
           D == IF H > 0 THEN A + H + 1 ELSE A
<1>1. A \in Nat /\ H \in Nat /\ C \in Nat /\ C > 0 /\ T \in 0..1
  BY PhasesAssumption, FrontEngine DEF FrontOK, FirstAccess
<1>2. /\ b.ph \in Seq(Entries) /\ b.n = A /\ Len(b.ph) = A
      /\ b.server \in 0..A /\ b.location \in 0..A
      /\ \A i \in 1..A : b.ph[i].checker \in FrontCheckers /\ b.ph[i].next \in 0..A
  BY FrontEngine DEF FrontOK, FirstAccess
<1>3. a \in Entries /\ a.checker = "access" /\ a.next = A + H + 1
  <2>1. A + H + 1 \in Nat
    BY <1>1
  <2> HIDE DEF A, H
  <2> QED BY <2>1, EntryFacts, NamesFacts
<1>4. /\ e1.ph = b.ph \o [j \in 1..H |-> a] /\ e1.n = A + H + 1
      /\ e1.server = b.server /\ e1.location = b.location
  <2>1. e1.n = b.n + 1 + H /\ e1.server = b.server /\ e1.location = b.location
    BY DEF AddAccess, AddHandlers
  <2>2. e1.ph = b.ph \o [j \in 1..H |-> Entry(CheckerOf("access"), "access", b.n + 1 + H)]
    BY DEF AddAccess, AddHandlers
  <2>3. CheckerOf("access") = "access"
    BY DEF CheckerOf
  <2>4. b.n + 1 + H = A + H + 1
    <3> HIDE DEF A, H, b
    <3> QED BY <1>1, <1>2
  <2> QED BY <2>1, <2>2, <2>3, <2>4
<1> HIDE DEF a, A, H, C, b, T, e1
<1>5. /\ e1.ph \in Seq(Entries) /\ Len(e1.ph) = A + H
      /\ \A i \in 1..A : e1.ph[i] = b.ph[i]
      /\ \A i \in (A + 1)..(A + H) : e1.ph[i] = a
  <2> DEFINE q == b.ph \o [j \in 1..H |-> a]
  <2>1. /\ q \in Seq(Entries) /\ Len(q) = Len(b.ph) + H
        /\ \A i \in 1..Len(b.ph) : q[i] = b.ph[i]
        /\ \A i \in (Len(b.ph) + 1)..(Len(b.ph) + H) : q[i] = a
    BY <1>1, <1>2, <1>3, HandlersFacts
  <2>2. e1.ph = q
    BY <1>4
  <2> HIDE DEF q
  <2> QED BY <2>1, <2>2, <1>2
<1>6. /\ e2.ph \in Seq(Entries) /\ Len(e2.ph) = D /\ e2.n \in Nat
      /\ \A i \in 1..(A + H) : e2.ph[i] = e1.ph[i]
      /\ H > 0 => e2.ph[A + H + 1].checker = "post_access"
      /\ e2.server = b.server /\ e2.location = b.location
  <2>1. CASE H > 0
    <3> DEFINE x == Entry("post_access", "post_access", e1.n)
    <3>1. x \in Entries /\ x.checker = "post_access"
      <4>1. e1.n \in Nat
        BY <1>1, <1>4
      <4> QED BY <4>1, EntryFacts, NamesFacts
    <3>2. e2.ph = Append(e1.ph, x) /\ e2.n = e1.n /\ e2.server = e1.server /\ e2.location = e1.location
      BY <2>1 DEF AddPostAccess, AddChecker, H
    <3> HIDE DEF x, e2
    <3> QED BY <3>1, <3>2, <2>1, <1>1, <1>4, <1>5, CheckerFacts
  <2>2. CASE ~(H > 0)
    <3>1. e2 = e1
      BY <2>2 DEF AddPostAccess, H
    <3>2. H = 0
      BY <2>2, <1>1
    <3> QED BY <3>1, <3>2, <1>1, <1>4, <1>5
  <2> QED BY <2>1, <2>2
<1> HIDE DEF e2
<1>7. /\ e3.ph \in Seq(Entries) /\ Len(e3.ph) = D + T /\ e3.n \in Nat
      /\ \A i \in 1..D : e3.ph[i] = e2.ph[i]
      /\ T = 1 => e3.ph[D + 1].checker = "try_files"
      /\ e3.server = b.server /\ e3.location = b.location
  <2>0. D \in Nat
    BY <1>1
  <2> HIDE DEF D
  <2>1. CASE HasTryFiles
    <3> DEFINE x == Entry("try_files", "try_files", 0)
    <3>1. x \in Entries /\ x.checker = "try_files"
      BY EntryFacts, NamesFacts
    <3>2. e3.ph = Append(e2.ph, x) /\ e3.n = e2.n + 1 /\ e3.server = e2.server /\ e3.location = e2.location
      BY <2>1 DEF AddTryFiles, AddChecker
    <3>3. T = 1
      BY <2>1 DEF T
    <3> HIDE DEF x, e3
    <3> QED BY <3>1, <3>2, <3>3, <2>0, <1>6, CheckerFacts
  <2>2. CASE ~HasTryFiles
    <3>1. e3 = e2
      BY <2>2 DEF AddTryFiles
    <3>2. T = 0
      BY <2>2 DEF T
    <3> QED BY <3>1, <3>2, <2>0, <1>6
  <2> QED BY <2>1, <2>2
<1>8. c \in Entries /\ c.checker = "content"
  <2>1. e3.n + C \in Nat
    BY <1>1, <1>7
  <2> QED BY <2>1, EntryFacts, NamesFacts
<1>9. /\ Engine.ph = e3.ph \o [j \in 1..C |-> c]
      /\ Engine.server = b.server /\ Engine.location = b.location
  <2>1. Engine = AddPhase(e3, "content")
    BY Zenon DEF Engine, e3, e2, e1, b
  <2>2. CheckerOf("content") = "content"
    BY DEF CheckerOf
  <2> HIDE DEF e3
  <2>3. /\ Engine.ph = e3.ph \o [j \in 1..C |-> Entry(CheckerOf("content"), "content", e3.n + C)]
        /\ Engine.server = e3.server /\ Engine.location = e3.location
    BY <2>1 DEF AddPhase, AddHandlers, C
  <2> QED BY <2>2, <2>3, <1>7
<1> HIDE DEF e3, c
<1>10. /\ Len(Engine.ph) = D + T + C
       /\ \A i \in 1..(D + T) : Engine.ph[i] = e3.ph[i]
       /\ \A i \in (D + T + 1)..(D + T + C) : Engine.ph[i] = c
  <2> DEFINE q == e3.ph \o [j \in 1..C |-> c]
  <2>1. /\ q \in Seq(Entries) /\ Len(q) = Len(e3.ph) + C
        /\ \A i \in 1..Len(e3.ph) : q[i] = e3.ph[i]
        /\ \A i \in (Len(e3.ph) + 1)..(Len(e3.ph) + C) : q[i] = c
    BY <1>1, <1>7, <1>8, HandlersFacts
  <2>2. Engine.ph = q
    BY <1>9
  <2> HIDE DEF q, D
  <2> QED BY <2>1, <2>2, <1>7
<1>11. D \in Nat /\ A + H <= D /\ D <= A + H + 1 /\ (H > 0 => D = A + H + 1) /\ (H = 0 => D = A)
  BY <1>1
<1> HIDE DEF D
<1>12. ASSUME NEW i \in 0..(A - 1) PROVE Checker(i).checker \in FrontCheckers /\ Checker(i).next \in 0..A
  <2>1. i + 1 \in 1..A /\ i + 1 \in 1..(A + H) /\ i + 1 \in 1..D /\ i + 1 \in 1..(D + T)
    BY <1>1, <1>11
  <2>2. Engine.ph[i + 1] = b.ph[i + 1]
    BY <2>1, <1>5, <1>6, <1>7, <1>10
  <2> QED BY <2>1, <2>2, <1>2 DEF Checker
<1>13. ASSUME NEW i \in A..(A + H - 1) PROVE Checker(i).checker = "access" /\ Checker(i).next = A + H + 1
  <2>1. i + 1 \in (A + 1)..(A + H) /\ i + 1 \in 1..(A + H) /\ i + 1 \in 1..D /\ i + 1 \in 1..(D + T)
    BY <1>1, <1>11
  <2>2. Engine.ph[i + 1] = a
    BY <2>1, <1>5, <1>6, <1>7, <1>10
  <2> QED BY <2>2, <1>3 DEF Checker
<1>14. ASSUME H > 0 PROVE Checker(A + H).checker = "post_access"
  <2>1. A + H + 1 \in 1..D /\ A + H + 1 \in 1..(D + T)
    BY <1>1, <1>11, <1>14
  <2>2. Engine.ph[A + H + 1] = e2.ph[A + H + 1]
    BY <2>1, <1>7, <1>10
  <2> QED BY <2>2, <1>6, <1>14 DEF Checker
<1>15. ASSUME NEW i \in 0..(Len(Engine.ph) - 1), i > A + H \/ (H = 0 /\ i = A)
       PROVE  \/ Checker(i).checker = "try_files" /\ i + 1 < Len(Engine.ph)
              \/ Checker(i).checker = "content"
  <2>1. i >= D /\ i + 1 \in 1..(D + T + C)
    BY <1>1, <1>10, <1>11, <1>15
  <2>2. CASE i + 1 <= D + T
    <3>1. T = 1 /\ i + 1 = D + 1 /\ i + 1 \in 1..(D + T)
      BY <1>1, <1>11, <2>1, <2>2
    <3>2. Engine.ph[i + 1].checker = "try_files"
      BY <3>1, <1>7, <1>10
    <3>3. i + 1 < Len(Engine.ph)
      BY <3>1, <1>1, <1>10, <1>11
    <3> QED BY <3>2, <3>3 DEF Checker
  <2>3. CASE i + 1 > D + T
    <3>1. i + 1 \in (D + T + 1)..(D + T + C)
      BY <1>1, <1>11, <2>1, <2>3
    <3>2. Engine.ph[i + 1] = c
      BY <3>1, <1>10
    <3> QED BY <3>2, <1>8 DEF Checker
  <2> QED BY <2>1, <2>2, <2>3, <1>1, <1>11
<1>16. Len(Engine.ph) \in Nat /\ Len(Engine.ph) > A /\ (H > 0 => Len(Engine.ph) > A + H + 1)
  BY <1>1, <1>10, <1>11
<1>17. Engine.server \in 0..A /\ Engine.location \in 0..A
  BY <1>2, <1>9
<1> QED BY <1>1, <1>12, <1>13, <1>14, <1>15, <1>16, <1>17 DEF EngineShape, A, H

-----------------------------------------------------------------------------
(* Requests before and in a redirection. *)

(* A request that enters before the access rules with no verdict is where it may be. *)
LEMMA FreshInPhase ==
    ASSUME NEW s, s.verdicts = <<>>, s.ph \in 0..FirstAccess, Locs[s.loc].internal => s.internal
    PROVE  InPhase(s)
<1>1. FirstAccess \in Nat /\ Handlers["access"] \in Nat
  BY EngineFacts DEF EngineShape
<1>2. Range(<<>>) = {} /\ Len(<<>>) = 0
  BY DEF Range
<1>3. NotRefused(s)
  BY <1>2 DEF NotRefused
<1>4. s.main /\ s.ph \in FirstAccess..(FirstAccess + Handlers["access"]) => Len(s.verdicts) = s.ph - FirstAccess
  BY <1>1, <1>2
<1>5. ~(s.ph > FirstAccess + Handlers["access"])
  BY <1>1
<1> QED BY <1>3, <1>4, <1>5 DEF InPhase

(* The bit field r->uri_changes counts down, and wraps only from 0. *)
LEMMA Changes ==
    ASSUME NEW c \in 0..(UriBits - 1)
    PROVE  /\ (c - 1 + UriBits) % UriBits \in 0..(UriBits - 1)
           /\ c # 0 => (c - 1 + UriBits) % UriBits = c - 1
<1>1. UriBits \in Nat /\ UriBits > 0
  BY PhasesAssumption
<1>2. CASE c = 0
  BY <1>1, <1>2
<1>3. CASE c # 0
  BY <1>1, <1>3
<1> QED BY <1>2, <1>3

(* Counting a change of the location (Hop) changes uri_changes and the history alone. *)
LEMMA HopFacts ==
    ASSUME NEW s \in Request
    PROVE  /\ Hop(s) \in Request /\ Hop(s).moved = TRUE
           /\ Hop(s).state = s.state /\ Hop(s).ph = s.ph /\ Hop(s).loc = s.loc /\ Hop(s).main = s.main
           /\ Hop(s).internal = s.internal /\ Hop(s).verdicts = s.verdicts /\ Hop(s).served = s.served
           /\ Hop(s).post = s.post /\ Hop(s).changed = s.changed
           /\ Counted(s) /\ (s.post \/ s.changes # 0) => Counted(Hop(s))
<1> DEFINE h == IF s.hops > MaxUriChanges + 1 THEN s.hops ELSE s.hops + 1
           c == (s.changes - 1 + UriBits) % UriBits
<1>1. Hop(s) = [s EXCEPT !.hops = h, !.moved = TRUE, !.changes = c]
  BY Zenon DEF Hop
<1>2. s.changes \in 0..(UriBits - 1) /\ s.hops \in Nat /\ MaxUriChanges \in Nat /\ UriBits \in Nat
  BY PhasesAssumption DEF Request
<1>3. c \in 0..(UriBits - 1) /\ (s.changes # 0 => c = s.changes - 1)
  BY <1>2, Changes
<1>4. h \in Nat
  BY <1>2
<1>5. s.changes # 0 /\ s.hops + s.changes = MaxUriChanges + 1 => h + c = MaxUriChanges + 1
  <2> HIDE DEF c
  <2> QED BY <1>2, <1>3
<1> HIDE DEF h, c
<1>6. Hop(s) \in Request
  BY <1>1, <1>3, <1>4 DEF Request
<1>7. /\ Hop(s).moved = TRUE /\ Hop(s).hops = h /\ Hop(s).changes = c
      /\ Hop(s).state = s.state /\ Hop(s).ph = s.ph /\ Hop(s).loc = s.loc /\ Hop(s).main = s.main
      /\ Hop(s).internal = s.internal /\ Hop(s).verdicts = s.verdicts /\ Hop(s).served = s.served
      /\ Hop(s).post = s.post /\ Hop(s).changed = s.changed
  BY <1>1 DEF Request
<1> QED BY <1>5, <1>6, <1>7 DEF Counted

(* A request that enters a location before its access rules satisfies the invariant. *)
LEMMA EnteredValid ==
    ASSUME NEW t \in Request, t.state \in {"run", "wait"}, t.verdicts = <<>>, t.ph \in 0..FirstAccess,
           Locs[t.loc].internal => t.internal, t.internal => t.moved \/ ~t.main, t.served = {},
           Counted(t), t.post \/ t.changes # 0
    PROVE  Valid(t)
<1>1. ~Beyond(t.ph)
  <2>1. FirstAccess \in Nat /\ Len(Engine.ph) \in Nat /\ Len(Engine.ph) > FirstAccess
    BY EngineFacts DEF EngineShape
  <2> QED BY <2>1 DEF Beyond
<1>2. Proper(t)
  BY <1>1 DEF Proper
<1>3. InPhase(t)
  BY FreshInPhase
<1> QED BY <1>2, <1>3 DEF Valid, CutOff

(* ngx_http_update_location_config() sets the content handler alone. *)
LEMMA UpdateFacts ==
    ASSUME NEW x \in Request
    PROVE  LET u == update_location_config(x) IN
           /\ u \in Request
           /\ u.state = x.state /\ u.ph = x.ph /\ u.uri = x.uri /\ u.moved = x.moved /\ u.loc = x.loc
           /\ u.main = x.main /\ u.internal = x.internal /\ u.changes = x.changes /\ u.changed = x.changed
           /\ u.access_code = x.access_code /\ u.post = x.post /\ u.hops = x.hops
           /\ u.verdicts = x.verdicts /\ u.whole = x.whole /\ u.served = x.served
<1>1. (x.handler \/ Locs[x.loc].handler) \in BOOLEAN
  OBVIOUS
<1> DEFINE b == x.handler \/ Locs[x.loc].handler
<1>2. update_location_config(x) = [x EXCEPT !.handler = b]
  BY Zenon DEF update_location_config
<1> HIDE DEF b
<1>3. [x EXCEPT !.handler = b] \in Request
  BY <1>1 DEF Request, b
<1> QED BY <1>2, <1>3 DEF Request

(* A new location forgets the verdicts of the old one. *)
LEMMA NewLocationFacts ==
    ASSUME NEW x \in Request
    PROVE  LET u == NewLocation(x) IN
           /\ u \in Request
           /\ u.state = x.state /\ u.ph = x.ph /\ u.uri = x.uri /\ u.moved = x.moved /\ u.loc = x.loc
           /\ u.main = x.main /\ u.internal = x.internal /\ u.changes = x.changes
           /\ u.post = x.post /\ u.hops = x.hops
           /\ u.verdicts = <<>> /\ u.served = {}
<1>1. <<>> \in Seq(Codes) /\ {} \in SUBSET Served
  OBVIOUS
<1>2. NewLocation(x) = [x EXCEPT !.verdicts = <<>>, !.whole = FALSE, !.served = {}]
  BY DEF NewLocation
<1>3. [x EXCEPT !.verdicts = <<>>, !.whole = FALSE, !.served = {}] \in Request
  BY <1>1 DEF Request
<1> QED BY <1>2, <1>3 DEF Request

(* A request that failed or is done has no phase to be in. *)
LEMMA FailValid ==
    ASSUME NEW h, Proper(h), Counted(h), NEW st \in {"fail", "done"}
    PROVE  Valid([h EXCEPT !.state = st])
<1> DEFINE t == [h EXCEPT !.state = st]
<1>1. h \in Request
  BY DEF Proper
<1>2. t \in Request
  BY <1>1 DEF Request
<1>3. /\ t.state = st /\ t.ph = h.ph /\ t.internal = h.internal /\ t.moved = h.moved /\ t.main = h.main
      /\ t.served = h.served /\ t.post = h.post /\ t.hops = h.hops /\ t.changes = h.changes
  BY <1>1 DEF Request
<1> HIDE DEF t
<1>4. Proper(t)
  BY <1>2, <1>3 DEF Proper
<1>5. Counted(t) /\ CutOff(t)
  BY <1>3 DEF Counted, CutOff
<1> QED BY <1>3, <1>4, <1>5 DEF Valid, t

(* ngx_http_internal_redirect() and ngx_http_named_location(): a redirection lands before the access rules of
   its location, or fails when no change is left. *)
LEMMA RedirectValid ==
    ASSUME NEW s, Proper(s), Counted(s), s.post \/ s.changes # 0, NEW to
    PROVE  Valid(Redirect(s, to))
<1> DEFINE h == Hop(s)
<1>0. s \in Request
  BY DEF Proper
<1>1. /\ h \in Request /\ h.moved = TRUE /\ h.ph = s.ph /\ h.main = s.main
      /\ h.internal = s.internal /\ h.served = s.served /\ Counted(h)
  BY <1>0, HopFacts
<1>2. Proper(h)
  BY <1>1 DEF Proper
<1>3. Engine.server \in 0..FirstAccess /\ NamedEntry \in 0..FirstAccess /\ FirstAccess \in Nat
  BY EngineFacts DEF EngineShape, NamedEntry
<1>3a. Engine.server \in Nat /\ NamedEntry \in Nat
  BY <1>3
<1>4. CASE h.changes = 0 \/ (to \notin Uris /\ to \notin DOMAIN Locs)
  <2>1. Redirect(s, to) = [h EXCEPT !.state = "fail"]
    BY <1>4 DEF Redirect, internal_redirect, named_location
  <2> HIDE DEF h
  <2> QED BY <2>1, <1>1, <1>2, FailValid
<1>5. CASE h.changes # 0 /\ to \in Uris
  <2> DEFINE i == Engine.server
             x == [h EXCEPT !.loc = "server"]
             u == update_location_config(x)
             w == [u EXCEPT !.uri = to, !.internal = TRUE, !.ph = i, !.state = "run"]
             t == NewLocation(w)
  <2>1. Redirect(s, to) = t
    BY <1>5, Zenon DEF Redirect, internal_redirect
  <2>1a. i \in Nat /\ i \in 0..FirstAccess
    BY <1>3, <1>3a
  <2> HIDE DEF h, i
  <2>2. /\ x \in Request /\ x.loc = "server" /\ x.moved = TRUE /\ x.main = s.main
        /\ x.changes = h.changes /\ x.post = h.post /\ x.hops = h.hops
    BY <1>1, PhasesAssumption DEF Request
  <2> HIDE DEF x
  <2>3. /\ u \in Request /\ u.loc = "server" /\ u.moved = TRUE /\ u.main = s.main
        /\ u.changes = h.changes /\ u.post = h.post /\ u.hops = h.hops
    BY <2>2, UpdateFacts
  <2> HIDE DEF u
  <2>4. /\ w \in Request /\ w.loc = "server" /\ w.moved = TRUE /\ w.main = s.main
        /\ w.changes = h.changes /\ w.post = h.post /\ w.hops = h.hops
        /\ w.internal = TRUE /\ w.ph = i /\ w.state = "run"
    <3>1. w \in Request
      BY <2>3, <2>1a, <1>5 DEF Request
    <3> QED BY <2>3, <3>1 DEF Request
  <2> HIDE DEF w
  <2>5. /\ t \in Request /\ t.loc = "server" /\ t.moved = TRUE /\ t.main = s.main
        /\ t.changes = h.changes /\ t.post = h.post /\ t.hops = h.hops
        /\ t.internal = TRUE /\ t.ph = i /\ t.state = "run" /\ t.verdicts = <<>> /\ t.served = {}
    BY <2>4, NewLocationFacts
  <2> HIDE DEF t
  <2>6. Counted(t) /\ t.changes # 0
    BY <2>5, <1>1, <1>5 DEF Counted
  <2>7. Valid(t)
    BY <2>1a, <2>5, <2>6, EnteredValid
  <2> QED BY <2>1, <2>7
<1>6. CASE h.changes # 0 /\ to \notin Uris /\ to \in DOMAIN Locs
  <2> DEFINE i == NamedEntry
             x == [h EXCEPT !.loc = to, !.handler = FALSE]
             u == update_location_config(x)
             w == [u EXCEPT !.internal = TRUE, !.changed = FALSE, !.ph = i, !.state = "run"]
             t == NewLocation(w)
  <2>1. Redirect(s, to) = t
    BY <1>6, Zenon DEF Redirect, named_location
  <2>1a. i \in Nat /\ i \in 0..FirstAccess
    BY <1>3, <1>3a
  <2> HIDE DEF h, i
  <2>2. /\ x \in Request /\ x.moved = TRUE /\ x.main = s.main
        /\ x.changes = h.changes /\ x.post = h.post /\ x.hops = h.hops
    BY <1>1, <1>6 DEF Request
  <2> HIDE DEF x
  <2>3. /\ u \in Request /\ u.moved = TRUE /\ u.main = s.main
        /\ u.changes = h.changes /\ u.post = h.post /\ u.hops = h.hops
    BY <2>2, UpdateFacts
  <2> HIDE DEF u
  <2>4. /\ w \in Request /\ w.moved = TRUE /\ w.main = s.main
        /\ w.changes = h.changes /\ w.post = h.post /\ w.hops = h.hops
        /\ w.internal = TRUE /\ w.ph = i /\ w.state = "run"
    <3>1. w \in Request
      BY <2>3, <2>1a DEF Request
    <3> QED BY <2>3, <3>1 DEF Request
  <2> HIDE DEF w
  <2>5. /\ t \in Request /\ t.moved = TRUE /\ t.main = s.main
        /\ t.changes = h.changes /\ t.post = h.post /\ t.hops = h.hops
        /\ t.internal = TRUE /\ t.ph = i /\ t.state = "run" /\ t.verdicts = <<>> /\ t.served = {}
    BY <2>4, NewLocationFacts
  <2> HIDE DEF t
  <2>6. Counted(t) /\ t.changes # 0
    BY <2>5, <1>1, <1>6 DEF Counted
  <2>7. Valid(t)
    BY <2>1a, <2>5, <2>6, EnteredValid
  <2> QED BY <2>1, <2>7
<1> QED BY <1>4, <1>5, <1>6

(* ngx_http_post_action(): the response is complete; a post action starts over, uncounted. *)
LEMMA CompleteValid ==
    ASSUME NEW s, Proper(s), Counted(s)
    PROVE  Valid(Complete(s))
<1> DEFINE to == Locs[s.loc].post_action
           p == [s EXCEPT !.post = TRUE]
<1>1. s \in Request
  BY DEF Proper
<1>2. /\ p \in Request /\ p.post = TRUE /\ p.ph = s.ph /\ p.internal = s.internal /\ p.moved = s.moved
      /\ p.main = s.main /\ p.served = s.served
  BY <1>1 DEF Request
<1>3. Complete(s) = Ended(s) \/ Complete(s) = Redirect(p, to)
  BY DEF Complete
<1>4. Valid(Ended(s))
  BY FailValid DEF Ended
<1> HIDE DEF p, to
<1>5. Proper(p) /\ Counted(p)
  BY <1>2 DEF Proper, Counted
<1>6. Valid(Redirect(p, to))
  BY <1>2, <1>5, RedirectValid
<1> QED BY <1>3, <1>4, <1>6

(* ngx_http_special_response_handler(): an error page is a redirection if a change is left. *)
LEMMA SpecialValid ==
    ASSUME NEW s, Proper(s), Counted(s), NEW code
    PROVE  Valid(special_response(s, code))
<1> DEFINE l == Locs[s.loc]
           b == s.error_page \/ ~l.recursive
           s1 == [s EXCEPT !.error_page = b]
<1>1. s \in Request
  BY DEF Proper
<1>2. special_response(s, code) = Complete(s) \/ (s.changes # 0 /\ special_response(s, code) = Redirect(s1, l.errors))
  BY Zenon DEF special_response, ErrorPageAllowed
<1>3. b \in BOOLEAN
  OBVIOUS
<1> HIDE DEF b
<1>4. /\ s1 \in Request /\ s1.post = s.post /\ s1.ph = s.ph /\ s1.internal = s.internal /\ s1.moved = s.moved
      /\ s1.main = s.main /\ s1.served = s.served /\ s1.changes = s.changes /\ s1.hops = s.hops
  BY <1>1, <1>3 DEF Request
<1> HIDE DEF s1, l
<1>5. Proper(s1) /\ Counted(s1)
  BY <1>4 DEF Proper, Counted
<1>6. s.changes # 0 => Valid(Redirect(s1, l.errors))
  BY <1>4, <1>5, RedirectValid
<1> QED BY <1>2, <1>6, CompleteValid

(* ngx_http_finalize_request() with any code a checker gives it. *)
LEMMA FinalizeValid ==
    ASSUME NEW s, Proper(s), Counted(s), NEW rc, rc # "DONE"
    PROVE  Valid(finalize(s, rc))
<1>1. finalize(s, rc) = Complete(s) \/ finalize(s, rc) = special_response(s, rc)
  BY DEF finalize
<1> QED BY <1>1, CompleteValid, SpecialValid

(* A redirection that ran out of changes ends in a 500, or in the post action. *)
LEMMA FailedValid ==
    ASSUME NEW s, Proper(s), Counted(s)
    PROVE  Valid(Failed(s))
<1> DEFINE t == [s EXCEPT !.state = "run"]
<1>1. s \in Request
  BY DEF Proper
<1>2. /\ t \in Request /\ t.post = s.post /\ t.ph = s.ph /\ t.internal = s.internal /\ t.moved = s.moved
      /\ t.main = s.main /\ t.served = s.served /\ t.changes = s.changes /\ t.hops = s.hops
  BY <1>1 DEF Request
<1> HIDE DEF t
<1>3. Proper(t) /\ Counted(t)
  BY <1>2 DEF Proper, Counted
<1> QED BY <1>3, SpecialValid DEF Failed, t

-----------------------------------------------------------------------------
(* Moves of the phase index. *)

(* the checkers behind the access rules *)
Behind(i) == i > FirstAccess + Handlers["access"] \/ (Handlers["access"] = 0 /\ i = FirstAccess)

(* A checker tells where in the engine the request is. *)
LEMMA CheckerPlaces ==
    ASSUME NEW i \in Nat, ~Beyond(i)
    PROVE  /\ Checker(i).checker \in FrontCheckers => i \in 0..(FirstAccess - 1) /\ Checker(i).next \in 0..FirstAccess
           /\ Checker(i).checker = "access" =>
                 /\ i \in FirstAccess..(FirstAccess + Handlers["access"] - 1)
                 /\ Checker(i).next = FirstAccess + Handlers["access"] + 1
                 /\ Handlers["access"] > 0
           /\ Checker(i).checker = "post_access" => Handlers["access"] > 0 /\ i = FirstAccess + Handlers["access"]
           /\ Checker(i).checker = "try_files" => Behind(i) /\ i + 1 < Len(Engine.ph)
           /\ Checker(i).checker = "content" => Behind(i)
<1> DEFINE A == FirstAccess
           H == Handlers["access"]
           N == Len(Engine.ph)
           k == Checker(i).checker
<1>1. A \in Nat /\ H \in Nat /\ N \in Nat
  BY EngineFacts DEF EngineShape
<1>2. /\ i \in 0..(A - 1) => k \in FrontCheckers /\ Checker(i).next \in 0..A
      /\ i \in A..(A + H - 1) => k = "access" /\ Checker(i).next = A + H + 1
      /\ H > 0 /\ i = A + H => k = "post_access"
      /\ Behind(i) => (k = "try_files" /\ i + 1 < N) \/ k = "content"
  <2>1. i \in 0..(N - 1)
    BY <1>1 DEF Beyond
  <2> QED BY <2>1, EngineFacts DEF EngineShape, Behind
<1>3. i \in 0..(A - 1) \/ i \in A..(A + H - 1) \/ (H > 0 /\ i = A + H) \/ Behind(i)
  BY <1>1 DEF Behind
<1>4. H = 0 => ~(i \in A..(A + H - 1))
  BY <1>1
<1>5. H \in Nat /\ H # 0 => H > 0
  OBVIOUS
<1> HIDE DEF A, H, N, k
<1>6. \A x \in FrontCheckers : x # "access" /\ x # "post_access" /\ x # "try_files" /\ x # "content"
  BY DEF FrontCheckers
<1> QED BY <1>1, <1>2, <1>3, <1>4, <1>5, <1>6 DEF A, H, N, k

(* A request that runs or waits: what the invariant says of it. *)
LEMMA Running ==
    ASSUME NEW s, Valid(s), s.state \in {"run", "wait"}
    PROVE  /\ s \in Request /\ Proper(s) /\ Counted(s) /\ (s.post \/ s.changes # 0) /\ InPhase(s)
           /\ s.ph \in Nat /\ ~Beyond(s.ph) /\ (Locs[s.loc].internal => s.internal)
           /\ s.main \in BOOLEAN
<1>1. Proper(s) /\ Counted(s) /\ CutOff(s) /\ InPhase(s)
  BY DEF Valid
<1>2. s \in Request /\ ~Beyond(s.ph)
  BY <1>1 DEF Proper
<1>3. s.post \/ s.changes # 0
  BY <1>1 DEF CutOff
<1>4. s.ph \in Nat /\ s.main \in BOOLEAN
  BY <1>2 DEF Request
<1>5. Locs[s.loc].internal => s.internal
  BY <1>1 DEF InPhase
<1> QED BY <1>1, <1>2, <1>3, <1>4, <1>5

(* A request with changes left that is where it may be satisfies the invariant. *)
LEMMA InPhaseValid ==
    ASSUME NEW t, Proper(t), Counted(t), t.post \/ t.changes # 0, InPhase(t)
    PROVE  Valid(t)
  BY DEF Valid, CutOff

(* Waiting for an event and resuming change nothing else. *)
LEMMA StateValid ==
    ASSUME NEW s, Valid(s), s.state \in {"run", "wait"}, NEW st \in {"run", "wait"}
    PROVE  Valid([s EXCEPT !.state = st])
<1> DEFINE t == [s EXCEPT !.state = st]
<1>1. s \in Request /\ Proper(s) /\ Counted(s) /\ (s.post \/ s.changes # 0) /\ InPhase(s)
  BY Running
<1>2. t \in Request
  BY <1>1 DEF Request
<1>3. /\ t.ph = s.ph /\ t.internal = s.internal /\ t.moved = s.moved /\ t.main = s.main
      /\ t.served = s.served /\ t.post = s.post /\ t.hops = s.hops /\ t.changes = s.changes
      /\ t.loc = s.loc /\ t.verdicts = s.verdicts /\ t.whole = s.whole /\ t.access_code = s.access_code
  BY <1>1 DEF Request
<1> HIDE DEF t
<1>4. Proper(t)
  BY <1>1, <1>2, <1>3 DEF Proper
<1>5. Counted(t)
  BY <1>1, <1>3 DEF Counted
<1>6. InPhase(t)
  BY <1>1, <1>3 DEF InPhase, NotRefused, LetThrough
<1>7. Valid(t)
  BY <1>1, <1>3, <1>4, <1>5, <1>6, InPhaseValid
<1> QED BY <1>7 DEF t

(* A change of the phase index alone keeps the rest. *)
LEMMA MoveFacts ==
    ASSUME NEW s, Proper(s), Counted(s), s.post \/ s.changes # 0, NEW i \in Nat, ~Beyond(i)
    PROVE  LET t == [s EXCEPT !.ph = i] IN
           /\ Proper(t) /\ Counted(t) /\ (t.post \/ t.changes # 0)
           /\ t.ph = i /\ t.main = s.main /\ t.internal = s.internal /\ t.loc = s.loc
           /\ t.verdicts = s.verdicts /\ t.whole = s.whole /\ t.access_code = s.access_code
<1> DEFINE t == [s EXCEPT !.ph = i]
<1>1. s \in Request
  BY DEF Proper
<1>2. t \in Request
  BY <1>1 DEF Request
<1>3. /\ t.ph = i /\ t.internal = s.internal /\ t.moved = s.moved /\ t.main = s.main
      /\ t.served = s.served /\ t.post = s.post /\ t.hops = s.hops /\ t.changes = s.changes
      /\ t.loc = s.loc /\ t.verdicts = s.verdicts /\ t.whole = s.whole /\ t.access_code = s.access_code
  BY <1>1 DEF Request
<1> HIDE DEF t
<1>4. Proper(t)
  BY <1>2, <1>3 DEF Proper
<1>5. Counted(t) /\ (t.post \/ t.changes # 0)
  BY <1>3 DEF Counted
<1> QED BY <1>3, <1>4, <1>5 DEF t

(* Before the access rules any move is fine. *)
LEMMA FrontMove ==
    ASSUME NEW s, Proper(s), Counted(s), s.post \/ s.changes # 0, s.verdicts = <<>>,
           Locs[s.loc].internal => s.internal, NEW i \in 0..FirstAccess
    PROVE  Valid([s EXCEPT !.ph = i])
<1>1. FirstAccess \in Nat /\ Len(Engine.ph) \in Nat /\ Len(Engine.ph) > FirstAccess
  BY EngineFacts DEF EngineShape
<1>2. i \in Nat /\ ~Beyond(i)
  BY <1>1 DEF Beyond
<1> DEFINE t == [s EXCEPT !.ph = i]
<1>3. /\ Proper(t) /\ Counted(t) /\ (t.post \/ t.changes # 0)
      /\ t.ph = i /\ t.internal = s.internal /\ t.loc = s.loc /\ t.verdicts = s.verdicts
  BY <1>2, MoveFacts
<1> HIDE DEF t
<1>4. InPhase(t)
  BY <1>3, FreshInPhase
<1>5. Valid(t)
  BY <1>3, <1>4, InPhaseValid
<1> QED BY <1>5 DEF t

(* A move behind the access rules needs their consent. *)
LEMMA BehindMove ==
    ASSUME NEW s, Proper(s), Counted(s), s.post \/ s.changes # 0, s.main => LetThrough(s),
           Locs[s.loc].internal => s.internal, NEW i \in Nat, ~Beyond(i), i > FirstAccess + Handlers["access"]
    PROVE  Valid([s EXCEPT !.ph = i])
<1>1. FirstAccess \in Nat /\ Handlers["access"] \in Nat
  BY EngineFacts DEF EngineShape
<1> DEFINE t == [s EXCEPT !.ph = i]
<1>3. /\ Proper(t) /\ Counted(t) /\ (t.post \/ t.changes # 0) /\ t.main = s.main
      /\ t.ph = i /\ t.internal = s.internal /\ t.loc = s.loc /\ t.verdicts = s.verdicts /\ t.whole = s.whole
  BY MoveFacts
<1> HIDE DEF t
<1>4. t.main => LetThrough(t)
  BY <1>3 DEF LetThrough
<1>5. ~(t.ph <= FirstAccess) /\ ~(t.ph \in FirstAccess..(FirstAccess + Handlers["access"]))
  BY <1>1, <1>3
<1>6. InPhase(t)
  BY <1>3, <1>4, <1>5 DEF InPhase
<1>7. Valid(t)
  BY <1>3, <1>6, InPhaseValid
<1> QED BY <1>7 DEF t

(* A move from one access rule to the next: as many verdicts as rules asked, and none that refuses. *)
LEMMA AmongMove ==
    ASSUME NEW s, Proper(s), Counted(s), s.post \/ s.changes # 0,
           Locs[s.loc].internal => s.internal,
           NEW i \in (FirstAccess + 1)..(FirstAccess + Handlers["access"]),
           s.main => Len(s.verdicts) = i - FirstAccess /\ NotRefused(s)
    PROVE  Valid([s EXCEPT !.ph = i])
<1>1. /\ FirstAccess \in Nat /\ Handlers["access"] \in Nat /\ Len(Engine.ph) \in Nat
      /\ Handlers["access"] > 0 => Len(Engine.ph) > FirstAccess + Handlers["access"] + 1
  BY EngineFacts DEF EngineShape
<1>2. i \in Nat /\ ~Beyond(i)
  BY <1>1 DEF Beyond
<1> DEFINE t == [s EXCEPT !.ph = i]
<1>3. /\ Proper(t) /\ Counted(t) /\ (t.post \/ t.changes # 0) /\ t.main = s.main /\ t.access_code = s.access_code
      /\ t.ph = i /\ t.internal = s.internal /\ t.loc = s.loc /\ t.verdicts = s.verdicts /\ t.whole = s.whole
  BY <1>2, MoveFacts
<1> HIDE DEF t
<1>4. t.main => Len(t.verdicts) = t.ph - FirstAccess /\ NotRefused(t)
  BY <1>3 DEF NotRefused
<1>5. ~(t.ph <= FirstAccess) /\ ~(t.ph > FirstAccess + Handlers["access"])
  BY <1>1, <1>3
<1>6. InPhase(t)
  BY <1>3, <1>4, <1>5 DEF InPhase
<1>7. Valid(t)
  BY <1>3, <1>6, InPhaseValid
<1> QED BY <1>7 DEF t

-----------------------------------------------------------------------------
(* The checkers before the access rules. *)

(* At a checker before the access rules there is no verdict yet, and its jump stays there. *)
LEMMA FrontFacts ==
    ASSUME NEW s, Valid(s), s.state = "run", ~Beyond(s.ph), Checker(s.ph).checker \in FrontCheckers
    PROVE  /\ s.ph \in Nat /\ s.ph \in 0..(FirstAccess - 1) /\ s.ph + 1 \in 0..FirstAccess
           /\ Checker(s.ph).next \in 0..FirstAccess /\ s.verdicts = <<>>
<1>1. s.ph \in Nat /\ InPhase(s)
  BY Running
<1>2. FirstAccess \in Nat
  BY EngineFacts DEF EngineShape
<1>3. s.ph \in 0..(FirstAccess - 1) /\ Checker(s.ph).next \in 0..FirstAccess
  BY <1>1, CheckerPlaces
<1>4. s.ph <= FirstAccess /\ s.ph + 1 \in 0..FirstAccess
  BY <1>1, <1>2, <1>3
<1>5. s.verdicts = <<>>
  BY <1>1, <1>4 DEF InPhase
<1> QED BY <1>1, <1>3, <1>4, <1>5

(* ngx_http_core_generic_phase() keeps the invariant. *)
LEMMA GenericValid ==
    ASSUME NEW s, Valid(s), s.state = "run", ~Beyond(s.ph), Checker(s.ph).checker = "generic",
           NEW rc \in {"OK", "DECLINED", "AGAIN", "503"}
    PROVE  Valid(core_generic_phase(s, rc))
<1>1. /\ Proper(s) /\ Counted(s) /\ (s.post \/ s.changes # 0) /\ (Locs[s.loc].internal => s.internal)
  BY Running
<1>2. s.ph + 1 \in 0..FirstAccess /\ Checker(s.ph).next \in 0..FirstAccess /\ s.verdicts = <<>>
  BY FrontFacts DEF FrontCheckers
<1>3. Valid(Jump(s)) /\ Valid(Advance(s))
  BY <1>1, <1>2, FrontMove DEF Jump, Advance
<1>4. Valid(Suspend(s))
  BY StateValid DEF Suspend
<1>5. rc = "503" => Valid(finalize(s, rc))
  BY <1>1, FinalizeValid
<1> QED BY <1>3, <1>4, <1>5 DEF core_generic_phase

(* ngx_http_core_rewrite_phase() keeps the invariant. *)
LEMMA RewriteValid ==
    ASSUME NEW s, Valid(s), s.state = "run", ~Beyond(s.ph), Checker(s.ph).checker = "rewrite",
           NEW rc \in {"403", "DECLINED"}, NEW uri \in {s.uri} \cup Locs[s.loc].rewrites
    PROVE  Valid(core_rewrite_phase(s, rc, uri))
<1>1. /\ s \in Request /\ Proper(s) /\ Counted(s) /\ (s.post \/ s.changes # 0) /\ (Locs[s.loc].internal => s.internal)
  BY Running
<1>2. s.ph + 1 \in 0..FirstAccess /\ s.verdicts = <<>>
  BY FrontFacts DEF FrontCheckers
<1>3. uri \in Uris
  <2>1. s.uri \in Uris /\ s.loc \in DOMAIN Locs
    BY <1>1 DEF Request
  <2> QED BY <2>1, PhasesAssumption
<1> DEFINE w == [s EXCEPT !.uri = uri, !.changed = TRUE, !.internal = TRUE, !.moved = TRUE]
           s1 == IF uri = s.uri THEN s ELSE w
<1>4. /\ w \in Request /\ w.ph = s.ph /\ w.internal = TRUE /\ w.moved = TRUE /\ w.served = s.served
      /\ w.post = s.post /\ w.hops = s.hops /\ w.changes = s.changes /\ w.verdicts = s.verdicts /\ w.loc = s.loc
  <2>1. w \in Request
    BY <1>1, <1>3 DEF Request
  <2> QED BY <2>1, <1>1 DEF Request
<1>5. core_rewrite_phase(s, rc, uri) = IF rc = "DECLINED" THEN Advance(s1) ELSE finalize(s1, rc)
  BY Zenon DEF core_rewrite_phase
<1> HIDE DEF w
<1>6. Proper(w) /\ Counted(w)
  BY <1>1, <1>4 DEF Proper, Counted
<1>7. /\ Proper(s1) /\ Counted(s1) /\ (s1.post \/ s1.changes # 0) /\ (Locs[s1.loc].internal => s1.internal)
      /\ s1.ph = s.ph /\ s1.verdicts = <<>>
  BY <1>1, <1>2, <1>4, <1>6
<1> HIDE DEF s1
<1>8. Valid(Advance(s1))
  <2>1. s1.ph + 1 \in 0..FirstAccess
    BY <1>2, <1>7
  <2> QED BY <2>1, <1>7, FrontMove DEF Advance
<1>9. rc = "403" => Valid(finalize(s1, rc))
  BY <1>7, FinalizeValid
<1> QED BY <1>5, <1>8, <1>9

(* ngx_http_core_find_config_phase() keeps the invariant: an internal location only for an internal request. *)
LEMMA FindConfigValid ==
    ASSUME NEW s, Valid(s), s.state = "run", ~Beyond(s.ph), Checker(s.ph).checker = "find_config"
    PROVE  Valid(core_find_config_phase(s))
<1>1. s \in Request /\ Proper(s) /\ Counted(s) /\ (s.post \/ s.changes # 0)
  BY Running
<1>2. s.ph + 1 \in 0..FirstAccess
  BY FrontFacts DEF FrontCheckers
<1>3. LocOf[s.uri] \in DOMAIN Locs
  <2>1. s.uri \in Uris
    BY <1>1 DEF Request
  <2> QED BY <2>1, PhasesAssumption
<1> DEFINE x == [s EXCEPT !.handler = FALSE, !.changed = FALSE, !.loc = LocOf[s.uri]]
           n == NewLocation(x)
           u == update_location_config(n)
<1>4. core_find_config_phase(s) = CASE ~MayEnter(n, n.loc) -> finalize(n, "404")
          [] MayEnter(n, n.loc) /\ Locs[n.loc].too_large -> finalize(u, "413")
          [] OTHER -> Advance(u)
  BY Zenon DEF core_find_config_phase
<1>5. /\ x \in Request /\ x.ph = s.ph /\ x.internal = s.internal /\ x.moved = s.moved /\ x.main = s.main
      /\ x.post = s.post /\ x.hops = s.hops /\ x.changes = s.changes
  <2>1. x \in Request
    BY <1>1, <1>3 DEF Request
  <2> QED BY <2>1, <1>1 DEF Request
<1> HIDE DEF x
<1>6. /\ n \in Request /\ n.ph = s.ph /\ n.internal = s.internal /\ n.moved = s.moved /\ n.main = s.main
      /\ n.post = s.post /\ n.hops = s.hops /\ n.changes = s.changes /\ n.verdicts = <<>> /\ n.served = {}
  BY <1>5, NewLocationFacts
<1> HIDE DEF n
<1>7. /\ u \in Request /\ u.ph = s.ph /\ u.internal = s.internal /\ u.moved = s.moved /\ u.main = s.main
      /\ u.post = s.post /\ u.hops = s.hops /\ u.changes = s.changes /\ u.verdicts = <<>> /\ u.served = {}
      /\ u.loc = n.loc
  BY <1>6, UpdateFacts
<1> HIDE DEF u
<1>8. Proper(n) /\ Counted(n) /\ Proper(u) /\ Counted(u) /\ (u.post \/ u.changes # 0)
  BY <1>1, <1>6, <1>7 DEF Proper, Counted
<1>9. MayEnter(n, n.loc) => Valid(Advance(u))
  <2>1. MayEnter(n, n.loc) => (Locs[u.loc].internal => u.internal)
    BY <1>6, <1>7 DEF MayEnter
  <2>2. u.ph + 1 \in 0..FirstAccess
    BY <1>2, <1>7
  <2> QED BY <2>1, <2>2, <1>7, <1>8, FrontMove DEF Advance
<1>10. Valid(finalize(n, "404")) /\ Valid(finalize(u, "413"))
  BY <1>8, FinalizeValid
<1> QED BY <1>4, <1>9, <1>10

(* ngx_http_core_post_rewrite_phase() keeps the invariant: a rewrite is counted, and cut at the last one. *)
LEMMA PostRewriteValid ==
    ASSUME NEW s, Valid(s), s.state = "run", ~Beyond(s.ph), Checker(s.ph).checker = "post_rewrite"
    PROVE  Valid(core_post_rewrite_phase(s))
<1>1. s \in Request /\ Proper(s) /\ Counted(s) /\ (s.post \/ s.changes # 0) /\ (Locs[s.loc].internal => s.internal)
  BY Running
<1>2. s.ph + 1 \in 0..FirstAccess /\ Checker(s.ph).next \in 0..FirstAccess /\ s.verdicts = <<>>
  BY FrontFacts DEF FrontCheckers
<1> DEFINE h == Hop(s)
           x == [h EXCEPT !.loc = "server"]
<1>3. core_post_rewrite_phase(s) = CASE ~s.changed -> Advance(s)
          [] s.changed /\ h.changes = 0 -> finalize(h, "500") [] OTHER -> Jump(x)
  BY Zenon DEF core_post_rewrite_phase
<1>4. /\ h \in Request /\ h.moved = TRUE /\ h.ph = s.ph /\ h.main = s.main
      /\ h.internal = s.internal /\ h.served = s.served /\ h.verdicts = s.verdicts /\ Counted(h)
  BY <1>1, HopFacts
<1> HIDE DEF h
<1>5. Proper(h)
  BY <1>1, <1>4 DEF Proper
<1>6. /\ x \in Request /\ x.loc = "server" /\ x.moved = TRUE /\ x.ph = h.ph /\ x.served = h.served
      /\ x.post = h.post /\ x.hops = h.hops /\ x.changes = h.changes /\ x.verdicts = h.verdicts
  BY <1>4, PhasesAssumption DEF Request
<1> HIDE DEF x
<1>7. Proper(x) /\ Counted(x)
  BY <1>4, <1>5, <1>6 DEF Proper, Counted
<1>8. h.changes # 0 => Valid(Jump(x))
  <2>1. ~Locs[x.loc].internal
    BY <1>6, PhasesAssumption
  <2>2. Checker(x.ph).next \in 0..FirstAccess
    BY <1>2, <1>4, <1>6
  <2> QED BY <2>1, <2>2, <1>2, <1>4, <1>6, <1>7, FrontMove DEF Jump
<1>9. Valid(Advance(s))
  BY <1>1, <1>2, FrontMove DEF Advance
<1>10. Valid(finalize(h, "500"))
  BY <1>4, <1>5, FinalizeValid
<1> QED BY <1>3, <1>8, <1>9, <1>10

-----------------------------------------------------------------------------
(* The access rules and what is behind them. *)

(* The codes of a sequence of verdicts with one more. *)
LEMMA AppendFacts ==
    ASSUME NEW v \in Seq(Codes), NEW x \in Codes
    PROVE  /\ Append(v, x) \in Seq(Codes) /\ Len(Append(v, x)) = Len(v) + 1
           /\ x \in Range(Append(v, x))
           /\ \A S : Range(v) \subseteq S /\ x \in S => Range(Append(v, x)) \subseteq S
<1>1. Append(v, x) \in Seq(Codes) /\ Len(Append(v, x)) = Len(v) + 1 /\ Len(v) \in Nat
  OBVIOUS
<1>2. DOMAIN Append(v, x) = 1..(Len(v) + 1) /\ DOMAIN v = 1..Len(v)
  OBVIOUS
<1>3. Append(v, x)[Len(v) + 1] = x /\ Len(v) + 1 \in 1..(Len(v) + 1)
  OBVIOUS
<1>4. \A i \in 1..(Len(v) + 1) : i # Len(v) + 1 => i \in 1..Len(v) /\ Append(v, x)[i] = v[i]
  OBVIOUS
<1> DEFINE w == Append(v, x)
<1> HIDE DEF w
<1>5. x \in Range(w)
  BY <1>2, <1>3 DEF Range, w
<1>6. ASSUME NEW S, Range(v) \subseteq S, x \in S PROVE Range(w) \subseteq S
  <2>1. ASSUME NEW i \in DOMAIN w PROVE w[i] \in S
    <3>1. CASE i = Len(v) + 1
      BY <3>1, <1>3, <1>6 DEF w
    <3>2. CASE i # Len(v) + 1
      <4>1. i \in DOMAIN v /\ w[i] = v[i]
        BY <3>2, <1>2, <1>4, <2>1 DEF w
      <4> QED BY <4>1, <1>6 DEF Range
    <3> QED BY <3>1, <3>2
  <2> QED BY <2>1 DEF Range
<1> QED BY <1>1, <1>5, <1>6 DEF w

(* The verdict of a rule is remembered; nothing else changes. *)
LEMMA VerdictFacts ==
    ASSUME NEW s, Proper(s), Counted(s), NEW rc \in Codes
    PROVE  LET t == [s EXCEPT !.verdicts = Append(@, rc)] IN
           /\ t \in Request /\ Proper(t) /\ Counted(t) /\ t.post = s.post /\ t.changes = s.changes
           /\ t.ph = s.ph /\ t.loc = s.loc /\ t.main = s.main /\ t.internal = s.internal
           /\ t.access_code = s.access_code /\ t.verdicts = Append(s.verdicts, rc)
<1> DEFINE v == Append(s.verdicts, rc)
           t == [s EXCEPT !.verdicts = v]
<1>1. s \in Request /\ s.verdicts \in Seq(Codes)
  BY DEF Proper, Request
<1>2. v \in Seq(Codes)
  BY <1>1, AppendFacts
<1>3. [s EXCEPT !.verdicts = Append(@, rc)] = t
  BY Zenon
<1> HIDE DEF v
<1>4. t \in Request
  BY <1>1, <1>2 DEF Request
<1>5. /\ t.ph = s.ph /\ t.internal = s.internal /\ t.moved = s.moved /\ t.main = s.main /\ t.loc = s.loc
      /\ t.served = s.served /\ t.post = s.post /\ t.hops = s.hops /\ t.changes = s.changes
      /\ t.access_code = s.access_code /\ t.verdicts = v
  BY <1>1 DEF Request
<1> HIDE DEF t
<1>6. Proper(t) /\ Counted(t)
  BY <1>4, <1>5 DEF Proper, Counted
<1> QED BY <1>3, <1>4, <1>5, <1>6 DEF v

(* ngx_http_core_access_phase() keeps the invariant, with satisfy all and satisfy any. *)
LEMMA AccessValid ==
    ASSUME NEW s0, Valid(s0), s0.state = "run", ~Beyond(s0.ph), Checker(s0.ph).checker = "access",
           NEW rc \in {"OK", "DECLINED", "AGAIN", "403", "401", "500"}
    PROVE  Valid(core_access_phase(s0, rc))
<1> DEFINE A == FirstAccess
           H == Handlers["access"]
           s == [s0 EXCEPT !.verdicts = Append(@, rc)]
<1>1. /\ s0 \in Request /\ Proper(s0) /\ Counted(s0) /\ (s0.post \/ s0.changes # 0) /\ InPhase(s0)
      /\ (Locs[s0.loc].internal => s0.internal) /\ s0.ph \in Nat /\ s0.main \in BOOLEAN
  BY Running
<1>2. /\ A \in Nat /\ H \in Nat /\ H > 0 /\ Len(Engine.ph) \in Nat /\ Len(Engine.ph) > A + H + 1
      /\ s0.ph \in A..(A + H - 1) /\ Checker(s0.ph).next = A + H + 1
  <2>1. A \in Nat /\ H \in Nat /\ Len(Engine.ph) \in Nat /\ (H > 0 => Len(Engine.ph) > A + H + 1)
    BY EngineFacts DEF EngineShape
  <2> QED BY <2>1, <1>1, CheckerPlaces
<1>3. A + H + 1 \in Nat /\ ~Beyond(A + H + 1) /\ A + H + 1 > A + H /\ s0.ph + 1 \in (A + 1)..(A + H)
  BY <1>2 DEF Beyond
<1>4. s0.main => Len(s0.verdicts) = s0.ph - A /\ NotRefused(s0)
  <2>1. s0.ph \in A..(A + H)
    BY <1>2
  <2> QED BY <2>1, <1>1 DEF InPhase
<1>5. CASE ~s0.main
  <2>1. core_access_phase(s0, rc) = Jump(s0)
    BY <1>5 DEF core_access_phase
  <2>2. Jump(s0) = [s0 EXCEPT !.ph = A + H + 1]
    BY <1>2 DEF Jump
  <2>3. Valid([s0 EXCEPT !.ph = A + H + 1])
    BY <1>1, <1>3, <1>5, BehindMove
  <2> QED BY <2>1, <2>2, <2>3
<1>6. CASE s0.main /\ rc = "AGAIN"
  <2>1. core_access_phase(s0, rc) = Suspend(s0)
    BY <1>6, Zenon DEF core_access_phase
  <2> QED BY <2>1, StateValid DEF Suspend
<1>7. CASE s0.main /\ rc # "AGAIN"
  <2>0. rc \in Codes
    BY <1>7 DEF Codes
  <2>1. /\ s \in Request /\ Proper(s) /\ Counted(s) /\ s.post = s0.post /\ s.changes = s0.changes
        /\ s.ph = s0.ph /\ s.loc = s0.loc /\ s.main = s0.main /\ s.internal = s0.internal
        /\ s.access_code = s0.access_code /\ s.verdicts = Append(s0.verdicts, rc)
    BY <1>1, <2>0, VerdictFacts
  <2>2. core_access_phase(s0, rc) = IF rc = "DECLINED" THEN Advance(s)
          ELSE IF Locs[s.loc].satisfy = "all" THEN IF rc = "OK" THEN Advance(s) ELSE finalize(s, rc)
          ELSE AccessAny(s, rc)
    BY <1>7, Zenon DEF core_access_phase
  <2> HIDE DEF s
  <2>3. s0.verdicts \in Seq(Codes) /\ s0.ph = A + Len(s0.verdicts)
    <3>1. s0.verdicts \in Seq(Codes) /\ Len(s0.verdicts) \in Nat
      BY <1>1 DEF Request
    <3>2. Len(s0.verdicts) = s0.ph - A
      BY <1>4, <1>7
    <3> DEFINE n == Len(s0.verdicts)
               k == s0.ph
    <3>3. n \in Nat /\ k \in Nat /\ A \in Nat /\ n = k - A
      BY <3>1, <3>2, <1>1, <1>2
    <3> HIDE DEF n, k, A
    <3>4. k = A + n
      BY <3>3
    <3> QED BY <3>1, <3>4 DEF n, k
  <2>4. /\ Len(s.verdicts) = Len(s0.verdicts) + 1 /\ rc \in Range(s.verdicts)
        /\ \A S : Range(s0.verdicts) \subseteq S /\ rc \in S => Range(s.verdicts) \subseteq S
    BY <2>0, <2>1, <2>3, AppendFacts
  <2>5. Len(s.verdicts) = (s.ph + 1) - A
    <3>1. Len(s0.verdicts) \in Nat
      BY <2>3
    <3> QED BY <3>1, <1>2, <2>1, <2>3, <2>4
  <2>6. s.ph + 1 \in (A + 1)..(A + H)
    BY <1>3, <2>1
  <2>7. NotRefused(s) => Valid(Advance(s))
    <3> DEFINE i == s.ph + 1
    <3>1. i \in (A + 1)..(A + H) /\ Len(s.verdicts) = i - A
      BY <2>5, <2>6, Zenon
    <3>2. Advance(s) = [s EXCEPT !.ph = i]
      BY Zenon DEF Advance
    <3> HIDE DEF i
    <3>3. s.post \/ s.changes # 0
      BY <1>1, <2>1
    <3>4. Locs[s.loc].internal => s.internal
      BY <1>1, <2>1
    <3>5. ASSUME NotRefused(s) PROVE Valid([s EXCEPT !.ph = i])
      <4>1. s.main => Len(s.verdicts) = i - A /\ NotRefused(s)
        BY <3>1, <3>5
      <4>2. Proper(s) /\ Counted(s)
        BY <2>1
      <4> QED BY <3>1, <3>3, <3>4, <4>1, <4>2, AmongMove, Zenon
    <3> QED BY <3>2, <3>5
  <2>8. rc \in {"403", "401", "500"} => Valid(finalize(s, rc))
    BY <2>1, FinalizeValid
  <2>9. CASE Locs[s.loc].satisfy = "all"
    <3>1. rc \in {"OK", "DECLINED"} => NotRefused(s)
      BY <1>4, <1>7, <2>1, <2>4, <2>9 DEF NotRefused
    <3> QED BY <2>2, <2>7, <2>8, <2>9, <3>1, <1>7
  <2>10. CASE Locs[s.loc].satisfy # "all"
    <3>0. /\ Range(s0.verdicts) \subseteq {"DECLINED", "403", "401"}
          /\ s0.access_code = "none" => Range(s0.verdicts) \subseteq {"DECLINED"}
      BY <1>4, <1>7, <2>1, <2>10 DEF NotRefused
    <3>1. CASE rc = "DECLINED"
      <4>1. Range(s.verdicts) \subseteq {"DECLINED", "403", "401"}
        BY <3>0, <3>1, <2>4
      <4>2. s.access_code = "none" => Range(s.verdicts) \subseteq {"DECLINED"}
        BY <3>0, <3>1, <2>1, <2>4
      <4>3. NotRefused(s)
        BY <4>1, <4>2, <2>10 DEF NotRefused
      <4> QED BY <4>3, <3>1, <2>2, <2>7
    <3>2. CASE rc = "OK"
      <4> DEFINE w == [s EXCEPT !.access_code = "none", !.whole = TRUE]
      <4>1. core_access_phase(s0, rc) = [Jump(s) EXCEPT !.access_code = "none", !.whole = TRUE]
        BY <3>2, <2>2, <2>10 DEF AccessAny
      <4>2. Jump(s) = [s EXCEPT !.ph = A + H + 1]
        BY <1>2, <2>1 DEF Jump
      <4>3. /\ w \in Request /\ w.post = s.post /\ w.changes = s.changes /\ w.hops = s.hops
            /\ w.ph = s.ph /\ w.loc = s.loc /\ w.main = s.main /\ w.internal = s.internal /\ w.moved = s.moved
            /\ w.served = s.served /\ w.verdicts = s.verdicts /\ w.whole = TRUE
        <5>1. w \in Request
          BY <2>1 DEF Request
        <5> QED BY <5>1, <2>1 DEF Request
      <4>4. [[s EXCEPT !.ph = A + H + 1] EXCEPT !.access_code = "none", !.whole = TRUE] = [w EXCEPT !.ph = A + H + 1]
        <5> HIDE DEF A, H
        <5> QED BY <2>1 DEF Request
      <4> HIDE DEF w
      <4>5. Proper(w) /\ Counted(w)
        BY <4>3, <2>1 DEF Proper, Counted
      <4>6. LetThrough(w)
        BY <4>3, <3>2, <2>4, <2>10 DEF LetThrough
      <4>7. Valid([w EXCEPT !.ph = A + H + 1])
        BY <4>3, <4>5, <4>6, <1>1, <1>3, <2>1, BehindMove
      <4> QED BY <4>1, <4>2, <4>4, <4>7
    <3>3. CASE rc \in {"403", "401"}
      <4> DEFINE w == [s EXCEPT !.access_code = rc]
      <4>1. core_access_phase(s0, rc) = Advance(w)
        BY <3>3, <2>2, <2>10 DEF AccessAny
      <4>3. /\ w \in Request /\ w.post = s.post /\ w.changes = s.changes /\ w.hops = s.hops
            /\ w.ph = s.ph /\ w.loc = s.loc /\ w.main = s.main /\ w.internal = s.internal /\ w.moved = s.moved
            /\ w.served = s.served /\ w.verdicts = s.verdicts /\ w.access_code = rc
        <5>1. w \in Request
          BY <2>1, <3>3 DEF Request
        <5> QED BY <5>1, <2>1 DEF Request
      <4> HIDE DEF w
      <4>5. Proper(w) /\ Counted(w)
        BY <4>3, <2>1 DEF Proper, Counted
      <4>6. Range(s.verdicts) \subseteq {"DECLINED", "403", "401"}
        BY <3>0, <3>3, <2>4
      <4>7. NotRefused(w)
        BY <4>3, <4>6, <3>3, <2>10 DEF NotRefused
      <4>8. Valid(Advance(w))
        <5> DEFINE i == w.ph + 1
        <5>1. i \in (A + 1)..(A + H) /\ Len(w.verdicts) = i - A
          BY <4>3, <2>5, <2>6, Zenon
        <5>2. Advance(w) = [w EXCEPT !.ph = i]
          BY Zenon DEF Advance
        <5> HIDE DEF i
        <5>3. w.post \/ w.changes # 0
          BY <1>1, <2>1, <4>3
        <5>4. Locs[w.loc].internal => w.internal
          BY <1>1, <2>1, <4>3
        <5>5. w.main => Len(w.verdicts) = i - A /\ NotRefused(w)
          BY <5>1, <4>7
        <5>6. Valid([w EXCEPT !.ph = i])
          BY <5>1, <5>3, <5>4, <5>5, <4>5, AmongMove, Zenon
        <5> QED BY <5>2, <5>6
      <4> QED BY <4>1, <4>8
    <3>4. CASE rc = "500"
      <4>1. core_access_phase(s0, rc) = finalize(s, rc)
        BY <3>4, <2>2, <2>10 DEF AccessAny
      <4> QED BY <4>1, <2>8, <3>4
    <3> QED BY <3>1, <3>2, <3>3, <3>4, <1>7
  <2> QED BY <2>9, <2>10
<1> QED BY <1>5, <1>6, <1>7

(* ngx_http_core_post_access_phase() keeps the invariant: behind it no rule has refused. *)
LEMMA PostAccessValid ==
    ASSUME NEW s, Valid(s), s.state = "run", ~Beyond(s.ph), Checker(s.ph).checker = "post_access"
    PROVE  Valid(core_post_access_phase(s))
<1> DEFINE A == FirstAccess
           H == Handlers["access"]
<1>1. /\ s \in Request /\ Proper(s) /\ Counted(s) /\ (s.post \/ s.changes # 0) /\ InPhase(s)
      /\ (Locs[s.loc].internal => s.internal) /\ s.ph \in Nat
  BY Running
<1>2. /\ A \in Nat /\ H \in Nat /\ H > 0 /\ Len(Engine.ph) \in Nat /\ Len(Engine.ph) > A + H + 1
      /\ s.ph = A + H
  <2>1. A \in Nat /\ H \in Nat /\ Len(Engine.ph) \in Nat /\ (H > 0 => Len(Engine.ph) > A + H + 1)
    BY EngineFacts DEF EngineShape
  <2> QED BY <2>1, <1>1, CheckerPlaces
<1>3. s.ph + 1 \in Nat /\ ~Beyond(s.ph + 1) /\ s.ph + 1 > A + H
  BY <1>2 DEF Beyond
<1>4. s.main => Len(s.verdicts) = H /\ NotRefused(s)
  <2>1. s.ph \in A..(A + H) /\ s.ph - A = H
    BY <1>2
  <2> QED BY <2>1, <1>1 DEF InPhase
<1>5. CASE s.access_code # "none"
  <2> DEFINE w == [s EXCEPT !.access_code = "none"]
  <2>1. core_post_access_phase(s) = finalize(w, s.access_code)
    BY <1>5 DEF core_post_access_phase
  <2>2. s.access_code # "DONE"
    BY <1>1 DEF Request
  <2>3. /\ w \in Request /\ w.post = s.post /\ w.changes = s.changes /\ w.hops = s.hops
        /\ w.ph = s.ph /\ w.loc = s.loc /\ w.main = s.main /\ w.internal = s.internal /\ w.moved = s.moved
        /\ w.served = s.served
    BY <1>1 DEF Request
  <2> HIDE DEF w
  <2>4. Proper(w) /\ Counted(w)
    BY <2>3, <1>1 DEF Proper, Counted
  <2> QED BY <2>1, <2>2, <2>4, FinalizeValid
<1>6. CASE s.access_code = "none"
  <2> DEFINE w == [s EXCEPT !.whole = TRUE]
  <2>1. core_post_access_phase(s) = Advance(w)
    BY <1>6 DEF core_post_access_phase
  <2>3. /\ w \in Request /\ w.post = s.post /\ w.changes = s.changes /\ w.hops = s.hops
        /\ w.ph = s.ph /\ w.loc = s.loc /\ w.main = s.main /\ w.internal = s.internal /\ w.moved = s.moved
        /\ w.served = s.served /\ w.verdicts = s.verdicts /\ w.whole = TRUE
    BY <1>1 DEF Request
  <2> HIDE DEF w
  <2>4. Proper(w) /\ Counted(w)
    BY <2>3, <1>1 DEF Proper, Counted
  <2>5. w.main => LetThrough(w)
    BY <2>3, <1>4, <1>6 DEF LetThrough, NotRefused
  <2>6. Valid(Advance(w))
    BY <2>3, <2>4, <2>5, <1>1, <1>3, BehindMove DEF Advance
  <2> QED BY <2>1, <2>6
<1> QED BY <1>5, <1>6

(* Behind the access rules, or where there are none, they let the request through. *)
LEMMA BehindFacts ==
    ASSUME NEW s, Valid(s), s.state = "run", Behind(s.ph)
    PROVE  s.main => LetThrough(s)
<1> DEFINE A == FirstAccess
           H == Handlers["access"]
<1>1. InPhase(s) /\ s.ph \in Nat /\ A \in Nat /\ H \in Nat
  BY Running, EngineFacts DEF EngineShape
<1>2. CASE s.ph > A + H
  BY <1>1, <1>2 DEF InPhase
<1>3. CASE H = 0 /\ s.ph = A
  <2>1. s.ph <= A
    BY <1>1, <1>3
  <2>2. s.verdicts = <<>>
    BY <2>1, <1>1 DEF InPhase
  <2>3. Range(<<>>) = {} /\ Len(<<>>) = 0
    BY DEF Range
  <2> QED BY <2>2, <2>3, <1>3 DEF LetThrough
<1> QED BY <1>2, <1>3 DEF Behind

(* ngx_http_core_try_files_phase() keeps the invariant. *)
LEMMA TryFilesValid ==
    ASSUME NEW s, Valid(s), s.state = "run", ~Beyond(s.ph), Checker(s.ph).checker = "try_files", NEW found \in BOOLEAN
    PROVE  Valid(core_try_files_phase(s, found))
<1>1. /\ Proper(s) /\ Counted(s) /\ (s.post \/ s.changes # 0)
      /\ (Locs[s.loc].internal => s.internal) /\ s.ph \in Nat
  BY Running
<1>2. Behind(s.ph) /\ s.ph + 1 < Len(Engine.ph)
  BY <1>1, CheckerPlaces
<1>3. s.ph + 1 \in Nat /\ ~Beyond(s.ph + 1) /\ s.ph + 1 > FirstAccess + Handlers["access"]
  <2>1. FirstAccess \in Nat /\ Handlers["access"] \in Nat /\ Len(Engine.ph) \in Nat
    BY EngineFacts DEF EngineShape
  <2> QED BY <2>1, <1>1, <1>2 DEF Behind, Beyond
<1>4. Valid(Advance(s))
  BY <1>1, <1>2, <1>3, BehindFacts, BehindMove DEF Advance
<1>5. Valid(finalize(s, "404"))
  BY <1>1, FinalizeValid
<1>6. Valid(Redirect(s, Locs[s.loc].try_files))
  BY <1>1, RedirectValid
<1> QED BY <1>4, <1>5, <1>6 DEF core_try_files_phase

(* ngx_http_core_content_phase() keeps the invariant: what it serves has been checked. *)
LEMMA ContentValid ==
    ASSUME NEW s0, Valid(s0), s0.state = "run", ~Beyond(s0.ph), Checker(s0.ph).checker = "content",
           NEW rc \in {"OK", "DECLINED", "AGAIN", "404", "redirect"}, NEW to
    PROVE  Valid(core_content_phase(s0, rc, to))
<1> DEFINE v == [loc |-> s0.loc, verdicts |-> s0.verdicts, whole |-> s0.whole, moved |-> s0.moved, main |-> s0.main]
           s == [s0 EXCEPT !.served = {v}]
<1>1. /\ s0 \in Request /\ Proper(s0) /\ Counted(s0) /\ (s0.post \/ s0.changes # 0) /\ InPhase(s0)
      /\ (Locs[s0.loc].internal => s0.internal) /\ s0.ph \in Nat
  BY Running
<1>2. Behind(s0.ph)
  BY <1>1, CheckerPlaces
<1>3. s0.main => LetThrough(s0)
  BY <1>2, BehindFacts
<1>4. v \in Served
  BY <1>1 DEF Request, Served
<1>5. v.loc = s0.loc /\ v.verdicts = s0.verdicts /\ v.whole = s0.whole /\ v.moved = s0.moved /\ v.main = s0.main
  OBVIOUS
<1>6. Serve(s0) = s
  BY DEF Serve
<1> HIDE DEF v
<1>7. Checked(v)
  <2>1. v.main => LetThrough(v)
    BY <1>3, <1>5 DEF LetThrough
  <2>2. Locs[v.loc].internal => v.moved \/ ~v.main
    BY <1>1, <1>5 DEF Proper
  <2> QED BY <2>1, <2>2 DEF Checked
<1>8. s \in Request
  <2>1. {v} \in SUBSET Served
    BY <1>4
  <2> QED BY <2>1, <1>1 DEF Request
<1>9. /\ s.state = s0.state /\ s.post = s0.post /\ s.changes = s0.changes /\ s.hops = s0.hops
      /\ s.ph = s0.ph /\ s.loc = s0.loc /\ s.main = s0.main /\ s.internal = s0.internal /\ s.moved = s0.moved
      /\ s.verdicts = s0.verdicts /\ s.whole = s0.whole /\ s.access_code = s0.access_code /\ s.served = {v}
  BY <1>1 DEF Request
<1> HIDE DEF s
<1>10. Proper(s) /\ Counted(s)
  BY <1>1, <1>7, <1>8, <1>9 DEF Proper, Counted
<1>11. InPhase(s)
  BY <1>1, <1>9 DEF InPhase, NotRefused, LetThrough
<1>12. Valid(s)
  BY <1>1, <1>9, <1>10, <1>11, InPhaseValid
<1>13. Valid(Redirect(s, to)) /\ Valid(finalize(s, "404"))
  BY <1>1, <1>9, <1>10, RedirectValid, FinalizeValid
<1>14. rc \in {"OK", "404"} => Valid(finalize(s, rc))
  BY <1>10, FinalizeValid
<1>15. Valid(Suspend(s))
  BY <1>9, <1>12, StateValid DEF Suspend
<1>16. ~Beyond(s0.ph + 1) => Valid(Advance(s))
  <2>1. s0.ph + 1 \in Nat /\ s0.ph + 1 > FirstAccess + Handlers["access"]
    <3>1. FirstAccess \in Nat /\ Handlers["access"] \in Nat
      BY EngineFacts DEF EngineShape
    <3> QED BY <3>1, <1>1, <1>2 DEF Behind
  <2>2. s.main => LetThrough(s)
    BY <1>3, <1>9 DEF LetThrough
  <2> QED BY <2>1, <2>2, <1>1, <1>9, <1>10, BehindMove DEF Advance
<1>17. Valid([s EXCEPT !.handler = FALSE])
  <2> DEFINE w == [s EXCEPT !.handler = FALSE]
  <2>1. w \in Request
    BY <1>8 DEF Request
  <2>2. /\ w.post = s.post /\ w.changes = s.changes /\ w.hops = s.hops
        /\ w.ph = s.ph /\ w.loc = s.loc /\ w.main = s.main /\ w.internal = s.internal /\ w.moved = s.moved
        /\ w.verdicts = s.verdicts /\ w.whole = s.whole /\ w.access_code = s.access_code /\ w.served = s.served
    BY <1>8 DEF Request
  <2> HIDE DEF w
  <2>3. Proper(w) /\ Counted(w)
    BY <2>1, <2>2, <1>10 DEF Proper, Counted
  <2>4. InPhase(w)
    BY <2>2, <1>11 DEF InPhase, NotRefused, LetThrough
  <2>5. Valid(w)
    BY <2>2, <2>3, <2>4, <1>1, <1>9, InPhaseValid
  <2> QED BY <2>5 DEF w
<1>18. core_content_phase(s0, rc, to) \in
         {Redirect(s, to), Suspend(s), finalize(s, "404"), [s EXCEPT !.handler = FALSE]}
         \/ (rc \in {"OK", "404"} /\ core_content_phase(s0, rc, to) = finalize(s, rc))
         \/ (~Beyond(s0.ph + 1) /\ core_content_phase(s0, rc, to) = Advance(s))
  BY <1>6 DEF core_content_phase
<1> QED BY <1>13, <1>14, <1>15, <1>16, <1>17, <1>18

-----------------------------------------------------------------------------
(* The theorems. *)

(* ngx_http_handler() and ngx_http_subrequest(): a new request satisfies the invariant. *)
LEMMA InitValid == Init => IndInv
<1> SUFFICES ASSUME NEW main \in BOOLEAN, NEW uri \in Uris,
        r = [state |-> "run", ph |-> IF main THEN 0 ELSE Engine.server, uri |-> uri, moved |-> FALSE,
             loc |-> "server", main |-> main, internal |-> ~main, changes |-> MaxUriChanges + 1,
             changed |-> FALSE, handler |-> FALSE, access_code |-> "none", error_page |-> FALSE,
             post |-> FALSE, hops |-> 0, verdicts |-> <<>>, whole |-> FALSE, served |-> {}]
    PROVE  Valid(r)
  BY Zenon DEF Init, IndInv
<1> DEFINE i == IF main THEN 0 ELSE Engine.server
           c == MaxUriChanges + 1
           n == ~main
<1>1. i \in 0..FirstAccess /\ i \in Nat
  BY EngineFacts DEF EngineShape
<1>2. c \in 0..(UriBits - 1) /\ c # 0 /\ 0 + c = MaxUriChanges + 1
  BY PhasesAssumption
<1>3. n \in BOOLEAN /\ (n => ~main)
  OBVIOUS
<1>4. <<>> \in Seq(Codes) /\ {} \in SUBSET Served /\ "server" \in DOMAIN Locs /\ ~Locs["server"].internal
  BY PhasesAssumption
<1> HIDE DEF i, c, n
<1>5. r = [state |-> "run", ph |-> i, uri |-> uri, moved |-> FALSE,
             loc |-> "server", main |-> main, internal |-> n, changes |-> c,
             changed |-> FALSE, handler |-> FALSE, access_code |-> "none", error_page |-> FALSE,
             post |-> FALSE, hops |-> 0, verdicts |-> <<>>, whole |-> FALSE, served |-> {}]
  BY Zenon DEF i, c, n
<1>6. r \in Request
  BY <1>1, <1>2, <1>3, <1>4, <1>5 DEF Request
<1>7. /\ r.state = "run" /\ r.verdicts = <<>> /\ r.ph = i /\ r.loc = "server" /\ r.internal = n /\ r.main = main
      /\ r.served = {} /\ r.post = FALSE /\ r.hops = 0 /\ r.changes = c
  BY <1>5
<1>8. Counted(r)
  BY <1>2, <1>7 DEF Counted
<1> QED BY <1>1, <1>2, <1>3, <1>4, <1>6, <1>7, <1>8, EnteredValid

(* Every step of a request keeps the invariant. *)
LEMMA NextValid == IndInv /\ [Next]_pvars => IndInv'
<1> SUFFICES ASSUME Valid(r), [Next]_pvars PROVE Valid(r')
  BY DEF IndInv, Valid, Proper, Counted, CutOff, InPhase
<1>1. CASE Generic
  BY <1>1, GenericValid DEF Generic, At
<1>2. CASE Rewrite
  <2>1. r.state = "run" /\ ~Beyond(r.ph) /\ Checker(r.ph).checker = "rewrite"
    BY <1>2 DEF Rewrite, At
  <2>2. \/ r' = core_rewrite_phase(r, "403", r.uri)
        \/ \E uri \in {r.uri} \cup Locs[r.loc].rewrites : r' = core_rewrite_phase(r, "DECLINED", uri)
    BY <1>2 DEF Rewrite
  <2> QED BY <2>1, <2>2, RewriteValid
<1>3. CASE FindConfig
  BY <1>3, FindConfigValid DEF FindConfig, At
<1>4. CASE PostRewrite
  BY <1>4, PostRewriteValid DEF PostRewrite, At
<1>5. CASE Access
  BY <1>5, AccessValid DEF Access, At
<1>6. CASE PostAccess
  BY <1>6, PostAccessValid DEF PostAccess, At
<1>7. CASE TryFiles
  BY <1>7, TryFilesValid DEF TryFiles, At
<1>8. CASE Content
  <2>1. r.state = "run" /\ ~Beyond(r.ph) /\ Checker(r.ph).checker = "content"
    BY <1>8 DEF Content, At
  <2>2. \E rc \in {"OK", "DECLINED", "AGAIN", "404", "redirect"} : \E to : r' = core_content_phase(r, rc, to)
    BY <1>8 DEF Content
  <2> QED BY <2>1, <2>2, ContentValid
<1>9. CASE Resume
  BY <1>9, StateValid DEF Resume
<1>10. CASE Fail
  <2>1. Proper(r) /\ Counted(r) /\ r' = Failed(r)
    BY <1>10 DEF Fail, Valid
  <2> QED BY <2>1, FailedValid
<1>11. CASE Done
  BY <1>11 DEF Done
<1>12. CASE UNCHANGED pvars
  BY <1>12 DEF pvars
<1> QED BY <1>1, <1>2, <1>3, <1>4, <1>5, <1>6, <1>7, <1>8, <1>9, <1>10, <1>11, <1>12 DEF Next

(* Whatever the handlers answer, a request has a checker to run, its changes of location are counted until its
   response is complete, and where it is among the phases agrees with the verdicts of the access rules. *)
THEOREM PhasesInvariant == Spec => []IndInv
<1>1. Init => IndInv
  BY InitValid
<1>2. IndInv /\ [Next]_pvars => IndInv'
  BY NextValid
<1> QED BY <1>1, <1>2, PTL DEF Spec

(* No chain of rewrites, redirects, error pages and named locations leads to the content of a location past its
   access rules (ngx_http_core_access_phase()), or from outside to an internal location. *)
THEOREM AccessRulesChecked == Spec => []AccessChecked
<1>1. IndInv => AccessChecked
  BY DEF IndInv, Valid, Proper, AccessChecked
<1> QED BY <1>1, PhasesInvariant, PTL

(* Cycles of rewrites and redirections are cut (r->uri_changes): before its response is complete a request
   changes its location at most MaxUriChanges + 1 times, the last of which fails. *)
THEOREM RedirectCyclesCut == Spec => []CyclesCut
<1>1. IndInv => CyclesCut
  <2> SUFFICES ASSUME Valid(r), ~r.post PROVE r.hops <= MaxUriChanges + 1
    BY DEF IndInv, CyclesCut
  <2>1. r.hops \in Nat /\ r.changes \in 0..(UriBits - 1)
    BY DEF Valid, Proper, Request
  <2>2. r.hops + r.changes = MaxUriChanges + 1
    BY DEF Valid, Counted
  <2> QED BY <2>1, <2>2, PhasesAssumption
<1> QED BY <1>1, PhasesInvariant, PTL
=============================================================================
