--------------------- MODULE ScriptBuildInvariant_proofs ---------------------
(***************************************************************************)
(* Requests are kept and scripts go on once (RequestsAreKept and           *)
(* ScriptsGoOnOnce at the end): every action of ScriptBuild keeps the      *)
(* invariant of ScriptBuildInvariant.  First functions on stacks as sets,  *)
(* and what a step that exchanges some of them does to tokens and claims;  *)
(* then the actions, one part of the invariant after the other.            *)
(***************************************************************************)
EXTENDS ScriptBuildInvariant, ScriptBuild_proofs

LEMMA ElemsIn ==
  ASSUME NEW S, NEW s \in Seq(S)
  PROVE  Elems(s) \subseteq S /\ (s = <<>> => Elems(s) = {})
         /\ (s # <<>> => Elems(s) = {Head(s)} \cup Elems(Tail(s)))
<1>1. Elems(s) \subseteq S /\ (s = <<>> => Elems(s) = {})
  BY DEF Elems
<1>2. ASSUME s # <<>> PROVE Elems(s) = {Head(s)} \cup Elems(Tail(s))
  <2>1. /\ Head(s) = s[1] /\ 1 \in DOMAIN s
        /\ \A i \in DOMAIN Tail(s) : i + 1 \in DOMAIN s /\ Tail(s)[i] = s[i + 1]
    BY <1>2
  <2>2. \A i \in DOMAIN s : i = 1 \/ \E j \in DOMAIN Tail(s) : Tail(s)[j] = s[i]
    <3>1. /\ Tail(s) \in Seq(S) /\ Len(Tail(s)) = Len(s) - 1 /\ Len(s) \in Nat
          /\ DOMAIN Tail(s) = 1..Len(Tail(s)) /\ DOMAIN s = 1..Len(s)
      BY <1>2
    <3> TAKE i \in DOMAIN s
    <3>2. CASE i # 1
      <4>1. i \in 1..Len(s) /\ i \in Int
        BY <3>1
      <4>2. PICK j \in Int : j = i - 1
        BY <4>1
      <4>3. j \in DOMAIN Tail(s) /\ j + 1 = i
        BY <3>1, <3>2, <4>1, <4>2
      <4>4. Tail(s)[j] = s[j + 1]
        BY <4>3, <2>1
      <4>5. Tail(s)[j] = s[i]
        BY <4>3, <4>4
      <4> QED BY <4>3, <4>5
    <3> QED BY <3>2
  <2> QED BY <2>1, <2>2 DEF Elems
<1> QED BY <1>1, <1>2

LEMMA ElemsConcat ==
  ASSUME NEW S, NEW s \in Seq(S), NEW r \in Seq(S)
  PROVE  Elems(s \o r) = Elems(s) \cup Elems(r)
<1>1. /\ s \o r \in Seq(S) /\ Len(s \o r) = Len(s) + Len(r)
      /\ \A i \in 1..Len(s) + Len(r) : (s \o r)[i] = IF i <= Len(s) THEN s[i] ELSE r[i - Len(s)]
  BY ConcatProperties
<1> DEFINE c == s \o r
<1>2. /\ DOMAIN c = 1..Len(s) + Len(r) /\ DOMAIN s = 1..Len(s) /\ DOMAIN r = 1..Len(r)
      /\ Len(s) \in Nat /\ Len(r) \in Nat
  BY <1>1
<1> HIDE DEF c
<1>3. \A i \in DOMAIN c : c[i] \in Elems(s) \cup Elems(r)
  <2> TAKE i \in DOMAIN c
  <2>1. CASE i <= Len(s)
    <3>1. i \in DOMAIN s /\ c[i] = s[i]
      BY <2>1, <1>1, <1>2 DEF c
    <3> QED BY <3>1 DEF Elems
  <2>2. CASE ~(i <= Len(s))
    <3>1. i - Len(s) \in DOMAIN r /\ c[i] = r[i - Len(s)]
      BY <2>2, <1>1, <1>2 DEF c
    <3> QED BY <3>1 DEF Elems
  <2> QED BY <2>1, <2>2
<1>4. \A i \in DOMAIN s : s[i] \in Elems(c)
  <2> TAKE i \in DOMAIN s
  <2>1. i \in DOMAIN c /\ c[i] = s[i]
    BY <1>1, <1>2 DEF c
  <2> QED BY <2>1 DEF Elems
<1>5. \A i \in DOMAIN r : r[i] \in Elems(c)
  <2> TAKE i \in DOMAIN r
  <2>1. i + Len(s) \in DOMAIN c /\ c[i + Len(s)] = r[i]
    <3>1. i + Len(s) \in DOMAIN c /\ ~(i + Len(s) <= Len(s)) /\ (i + Len(s)) - Len(s) = i
      BY <1>2
    <3> QED BY <3>1, <1>1, <1>2 DEF c
  <2> QED BY <2>1 DEF Elems
<1>6. Elems(c) \subseteq Elems(s) \cup Elems(r)
  BY <1>3 DEF Elems
<1>7. Elems(s) \cup Elems(r) \subseteq Elems(c)
  <2>1. Elems(s) \subseteq Elems(c)
    <3> HIDE DEF c
    <3>1. \A x \in Elems(s) : \E i \in DOMAIN s : x = s[i]
      BY DEF Elems
    <3> QED BY <3>1, <1>4
  <2>2. Elems(r) \subseteq Elems(c)
    <3>1. \A x \in Elems(r) : \E i \in DOMAIN r : x = r[i]
      BY DEF Elems
    <3> QED BY <3>1, <1>5
  <2> QED BY <2>1, <2>2
<1> QED BY <1>6, <1>7 DEF c

LEMMA ElemsOne ==
  ASSUME NEW f
  PROVE  Elems(<<f>>) = {f}
BY DEF Elems

Push(f, s)       == <<f>> \o s
PushTwo(f, g, s) == <<f, g>> \o s

LEMMA ElemsPush ==
  ASSUME NEW S, NEW s \in Seq(S), NEW f \in S
  PROVE  Elems(Push(f, s)) = {f} \cup Elems(s) /\ Tail(Push(f, s)) = s /\ Push(f, s) \in Seq(S)
<1> DEFINE p == Push(f, s)
<1>1. p \in Seq(S) /\ p # <<>> /\ Head(p) = f /\ Tail(p) = s
  BY DEF Push
<1> HIDE DEF p
<1>2. Elems(p) = {Head(p)} \cup Elems(Tail(p))
  BY <1>1, ElemsIn
<1> QED BY <1>1, <1>2 DEF p

LEMMA ElemsPushTwo ==
  ASSUME NEW S, NEW s \in Seq(S), NEW f \in S, NEW g \in S
  PROVE  /\ Elems(PushTwo(f, g, s)) = {f, g} \cup Elems(s)
         /\ Elems(Tail(PushTwo(f, g, s))) = {g} \cup Elems(s)
<1>1. PushTwo(f, g, s) = Push(f, Push(g, s))
  BY OneByOne DEF Push, PushTwo
<1>2. Push(g, s) \in Seq(S) /\ Elems(Push(g, s)) = {g} \cup Elems(s)
  BY ElemsPush
<1>3. /\ Elems(Push(f, Push(g, s))) = {f} \cup Elems(Push(g, s))
      /\ Tail(Push(f, Push(g, s))) = Push(g, s)
  BY <1>2, ElemsPush
<1> QED BY <1>1, <1>2, <1>3

LEMMA ElemsAppend ==
  ASSUME NEW S, NEW s \in Seq(S), NEW f \in S
  PROVE  Elems(Append(s, f)) = Elems(s) \cup {f}
<1> DEFINE one == <<f>>
<1>1. one \in Seq(S) /\ Elems(one) = {f} /\ Append(s, f) = s \o one
  BY ElemsOne, AppendIsConcat
<1> HIDE DEF one
<1> QED BY <1>1, ElemsConcat
-----------------------------------------------------------------------------
(* The functions of a thread, the innermost and the others.                  *)
Rest(t) == Elems(Tail(stack[t]))

LEMMA TopOn ==
  ASSUME Stacks, NEW t \in Thread, NEW where, At(t, where)
  PROVE  /\ On(t) = Rest(t) \cup {Top(t)} /\ Rest(t) \subseteq Frame
         /\ Top(t) \in Frame /\ Top(t).at = where /\ Top(t) \in On(t)
BY TopIsFrame, ElemsIn DEF On, Rest, Top

LEMMA OnFrames ==
  ASSUME Stacks, NEW t \in Thread
  PROVE  On(t) \subseteq Frame /\ (stack[t] = <<>> => On(t) = {})
BY ElemsIn DEF On, Stacks

(* A function that has called f, by its place and its script.                *)
Under(h, f) ==
  /\ h.at \in CoveredKinds
  /\ f.at \notin {"start", "work"}
  /\ f.at \in BuildKinds \cup {"enter"} =>
       h.at \notin {"tell", "unlock"} /\ (h.at \in BuildKinds => h.s # f.s)
  /\ f.at \in {"check", "launch", "launched", "unlock"} => h.at \notin {"tell", "unlock"}
  /\ f.at \in {"lock", "tell", "erase", "last"} => (h.at = "tell" => h.s # f.s)

LEMMA RestIsUnder ==
  ASSUME BuildAssumption, InOrder, Covered, NEW t \in Thread, NEW where, At(t, where),
         NEW h \in Rest(t)
  PROVE  Under(h, Top(t))
<1>1. Stacks /\ stack[t] # <<>> /\ Top(t) \in Frame /\ h \in Frame /\ Top(t) = Head(stack[t])
  BY TopIsFrame, TopOn DEF InOrder, Types, Top
<1>2. PICK rank \in Ranking : TRUE
  BY DEF BuildAssumption
<1>3. Good(rank, stack[t])
  BY <1>2 DEF InOrder, Shape
<1>4. Depth(rank, h) < Depth(rank, Top(t))
  BY <1>1, <1>3, UnderTop DEF Rest, Elems
<1>5. h.at \in CoveredKinds
  BY <1>1 DEF Covered, Rest
<1> DEFINE n == Cardinality(Script)
           f == Top(t)
<1>6. /\ n \in Nat /\ \A s \in Script : rank[s] \in Nat /\ 1 <= rank[s] /\ rank[s] <= n
  BY RankFacts
<1>7. Depth(rank, f) \in Nat /\ Depth(rank, h) \in Nat
  BY <1>1, DepthIsNat
<1>8. /\ f.at \in {"start", "work"} => Depth(rank, f) = 0
      /\ f.at \in BuildKinds \cup {"enter"} => Depth(rank, f) = n + 1 - rank[f.s]
      /\ f.at \in {"check", "launch", "launched", "unlock"} => Depth(rank, f) = n + 1
      /\ f.at \in {"lock", "tell", "erase", "last"} => Depth(rank, f) = n + 2 + rank[f.s]
  BY DepthByKind DEF BuildKinds
<1>9. /\ h.at \in BuildKinds => Depth(rank, h) = n + 1 - rank[h.s]
      /\ h.at = "unlock" => Depth(rank, h) = n + 1
      /\ h.at = "tell" => Depth(rank, h) = n + 2 + rank[h.s]
  BY DepthByKind DEF BuildKinds
<1>10. /\ f.at \in BuildKinds \cup {"enter", "check", "launch", "launched", "unlock",
                                    "lock", "tell", "erase", "last"} => f.s \in Script
       /\ h.at \in BuildKinds \cup {"unlock", "tell"} => h.s \in Script
  BY <1>1, FrameScript DEF BuildKinds
<1> HIDE DEF f, n
<1>11. f.at \notin {"start", "work"}
  BY <1>4, <1>7, <1>8 DEF f
<1>12. f.at \in BuildKinds \cup {"enter"} =>
         h.at \notin {"tell", "unlock"} /\ (h.at \in BuildKinds => h.s # f.s)
  <2> SUFFICES ASSUME f.at \in BuildKinds \cup {"enter"}
               PROVE  h.at \notin {"tell", "unlock"} /\ (h.at \in BuildKinds => h.s # f.s)
    OBVIOUS
  <2>1. Depth(rank, h) < n + 1 - rank[f.s] /\ rank[f.s] \in Nat /\ 1 <= rank[f.s]
    BY <1>4, <1>6, <1>8, <1>10 DEF f
  <2>2. h.at # "unlock"
    BY <2>1, <1>6, <1>9
  <2>3. h.at # "tell"
    BY <2>1, <1>6, <1>9, <1>10
  <2>4. h.at \in BuildKinds => h.s # f.s
    BY <2>1, <1>6, <1>9, <1>10
  <2> QED BY <2>2, <2>3, <2>4
<1>13. f.at \in {"check", "launch", "launched", "unlock"} => h.at \notin {"tell", "unlock"}
  BY <1>4, <1>6, <1>8, <1>9, <1>10 DEF f
<1>14. f.at \in {"lock", "tell", "erase", "last"} => (h.at = "tell" => h.s # f.s)
  BY <1>4, <1>6, <1>8, <1>9, <1>10 DEF f
<1> QED BY <1>5, <1>11, <1>12, <1>13, <1>14 DEF Under, f

(* A step that replaces functions on top of one stack by others.             *)
Swap(t, R, Old, New) ==
  /\ t \in Thread /\ R \subseteq Frame /\ Old \subseteq Frame /\ New \subseteq Frame
  /\ On(t) = R \cup Old /\ On(t)' = R \cup New
  /\ \A u \in Thread \ {t} : On(u)' = On(u)
  /\ \A h \in R : h.at \in CoveredKinds
  /\ \A h \in R, f \in Old : Under(h, f)

LEMMA CoveredStep ==
  ASSUME Covered, NEW t \in Thread, \A u \in Thread \ {t} : stack'[u] = stack[u],
         stack'[t] # <<>> => \A f \in Elems(Tail(stack'[t])) : f.at \in CoveredKinds
  PROVE  Covered'
BY DEF Covered

LEMMA ReturnSwaps ==
  ASSUME BuildAssumption, InOrder, Covered, NEW t \in Thread, NEW where, At(t, where), Return(t)
  PROVE  Swap(t, Rest(t), {Top(t)}, {}) /\ Covered'
<1> DEFINE tl == Tail(stack[t])
<1>1. Stacks /\ stack' = [stack EXCEPT ![t] = tl] /\ tl \in Seq(Frame)
  BY TopIsFrame DEF InOrder, Types, Return, Stacks
<1>2. \A h \in Rest(t) : h.at \in CoveredKinds /\ Under(h, Top(t))
  BY RestIsUnder DEF Under
<1>3. Rest(t) = Elems(tl)
  BY DEF Rest
<1> HIDE DEF tl
<1>4. tl # <<>> => Elems(tl) = {Head(tl)} \cup Elems(Tail(tl))
  BY <1>1, ElemsIn
<1>5. stack'[t] = tl /\ \A u \in Thread \ {t} : stack'[u] = stack[u]
  BY <1>1 DEF Stacks
<1>6. Covered'
  BY <1>2, <1>3, <1>4, <1>5, CoveredStep
<1>7. On(t)' = Rest(t) /\ \A u \in Thread \ {t} : On(u)' = On(u)
  BY <1>3, <1>5 DEF On
<1> QED BY <1>1, <1>2, <1>6, <1>7, TopOn DEF Swap

LEMMA BecomeSwaps ==
  ASSUME BuildAssumption, InOrder, Covered, NEW t \in Thread, NEW where, At(t, where),
         NEW f \in Frame, Become(t, f)
  PROVE  Swap(t, Rest(t), {Top(t)}, {f}) /\ Covered'
<1> DEFINE tl == Tail(stack[t])
           st == Push(f, tl)
<1>1. Stacks /\ stack' = [stack EXCEPT ![t] = st] /\ tl \in Seq(Frame)
  BY TopIsFrame DEF InOrder, Types, Become, Stacks, Push
<1>2. \A h \in Rest(t) : h.at \in CoveredKinds /\ Under(h, Top(t))
  BY RestIsUnder DEF Under
<1>3. Rest(t) = Elems(tl)
  BY DEF Rest
<1> HIDE DEF tl
<1>4. Elems(st) = {f} \cup Elems(tl) /\ Tail(st) = tl
  BY <1>1, ElemsPush
<1> HIDE DEF st
<1>5. stack'[t] = st /\ \A u \in Thread \ {t} : stack'[u] = stack[u]
  BY <1>1 DEF Stacks
<1>6. Covered'
  BY <1>2, <1>3, <1>4, <1>5, CoveredStep
<1>7. On(t)' = Rest(t) \cup {f} /\ \A u \in Thread \ {t} : On(u)' = On(u)
  BY <1>3, <1>4, <1>5 DEF On
<1> QED BY <1>1, <1>2, <1>6, <1>7, TopOn DEF Swap

LEMMA CallSwaps ==
  ASSUME BuildAssumption, InOrder, Covered, NEW t \in Thread, NEW where, At(t, where),
         NEW f \in Frame, NEW g \in Frame, g.at \in CoveredKinds,
         stack' = [stack EXCEPT ![t] = <<f, g>> \o Tail(stack[t])]
  PROVE  Swap(t, Rest(t), {Top(t)}, {f, g}) /\ Covered'
<1> DEFINE tl == Tail(stack[t])
           st == PushTwo(f, g, tl)
<1>1. Stacks /\ stack' = [stack EXCEPT ![t] = st] /\ tl \in Seq(Frame)
  BY TopIsFrame DEF InOrder, Types, Stacks, PushTwo
<1>2. \A h \in Rest(t) : h.at \in CoveredKinds /\ Under(h, Top(t))
  BY RestIsUnder DEF Under
<1>3. Rest(t) = Elems(tl)
  BY DEF Rest
<1> HIDE DEF tl
<1>4. Elems(st) = {f, g} \cup Elems(tl) /\ Elems(Tail(st)) = {g} \cup Elems(tl)
  BY <1>1, ElemsPushTwo
<1> HIDE DEF st
<1>5. stack'[t] = st /\ \A u \in Thread \ {t} : stack'[u] = stack[u]
  BY <1>1 DEF Stacks
<1>6. Covered'
  BY <1>2, <1>3, <1>4, <1>5, CoveredStep
<1>7. On(t)' = Rest(t) \cup {f, g} /\ \A u \in Thread \ {t} : On(u)' = On(u)
  BY <1>3, <1>4, <1>5 DEF On
<1> QED BY <1>1, <1>2, <1>6, <1>7, TopOn DEF Swap

LEMMA StartSwaps ==
  ASSUME Stacks, Covered, NEW t \in Thread, stack[t] = <<>>, NEW f \in Frame,
         stack' = [stack EXCEPT ![t] = <<f>>]
  PROVE  Swap(t, {}, {}, {f}) /\ Covered'
<1> DEFINE st == <<f>>
<1>1. Elems(st) = {f} /\ Elems(Tail(st)) = {}
  <2>1. Elems(st) = {f}
    BY DEF Elems
  <2>2. Len(Tail(st)) = 0 /\ Tail(st) \in Seq({f})
    <3>1. st \in Seq({f}) /\ st # <<>> /\ Len(st) = 1
      OBVIOUS
    <3> HIDE DEF st
    <3> QED BY <3>1
  <2>3. DOMAIN Tail(st) = {}
    <3> DEFINE tl == Tail(st)
    <3>1. tl \in Seq({f}) /\ Len(tl) = 0
      BY <2>2
    <3> HIDE DEF st, tl
    <3>2. DOMAIN tl = 1..0
      BY <3>1
    <3> QED BY <3>2 DEF tl
  <2> QED BY <2>1, <2>3 DEF Elems
<1>2. stack'[t] = st /\ \A u \in Thread \ {t} : stack'[u] = stack[u]
  BY DEF Stacks
<1> HIDE DEF st
<1>4. Covered'
  BY <1>1, <1>2, CoveredStep
<1>5. On(t)' = {f} /\ \A u \in Thread \ {t} : On(u)' = On(u)
  BY <1>1, <1>2 DEF On
<1> QED BY <1>4, <1>5, OnFrames DEF Swap

LEMMA StartTwoSwaps ==
  ASSUME Stacks, Covered, NEW t \in Thread, stack[t] = <<>>, NEW f \in Frame, NEW g \in Frame,
         g.at \in CoveredKinds, stack' = [stack EXCEPT ![t] = <<f, g>>]
  PROVE  Swap(t, {}, {}, {f, g}) /\ Covered'
<1> DEFINE st == <<f, g>>
           on == <<g>>
<1>1. st \in Seq(Frame) /\ st # <<>> /\ Head(st) = f /\ Tail(st) = on /\ Elems(on) = {g}
  BY ElemsOne
<1>2. stack'[t] = st /\ \A u \in Thread \ {t} : stack'[u] = stack[u]
  BY DEF Stacks
<1> HIDE DEF st, on
<1>3. Elems(Tail(st)) = {g} /\ Elems(st) = {f, g}
  BY <1>1, ElemsIn
<1>4. Covered'
  BY <1>2, <1>3, CoveredStep
<1>5. On(t)' = {f, g} /\ \A u \in Thread \ {t} : On(u)' = On(u)
  BY <1>2, <1>3 DEF On
<1> QED BY <1>4, <1>5, OnFrames DEF Swap

(* A function that has called no other is at the top.                        *)
LEMMA IsTop ==
  ASSUME InOrder, Covered, NEW t \in Thread, NEW f \in On(t), f.at \notin CoveredKinds
  PROVE  f = Top(t) /\ At(t, f.at)
<1>1. Stacks
  BY DEF InOrder, Types
<1>2. stack[t] # <<>> /\ stack[t] \in Seq(Frame)
  BY <1>1, OnFrames DEF Stacks
<1>3. On(t) = {Head(stack[t])} \cup Elems(Tail(stack[t]))
  BY <1>2, ElemsIn DEF On
<1>4. f = Head(stack[t])
  BY <1>2, <1>3 DEF Covered
<1> QED BY <1>2, <1>4 DEF Top, At

(* No two functions of a thread are at the same depth.                       *)
LEMMA OneAtDepth ==
  ASSUME BuildAssumption, InOrder, NEW t \in Thread, NEW f \in On(t), NEW g \in On(t),
         NEW rank \in Ranking, Depth(rank, f) = Depth(rank, g)
  PROVE  f = g
<1>1. Stacks /\ Good(rank, stack[t])
  BY DEF InOrder, Types, Shape
<1>2. PICK i \in DOMAIN stack[t] : stack[t][i] = f
  BY DEF On, Elems
<1>3. PICK j \in DOMAIN stack[t] : stack[t][j] = g
  BY DEF On, Elems
<1>4. Depth(rank, f) \in Nat /\ Depth(rank, g) \in Nat
  BY <1>1, OnFrames, DepthIsNat
<1>5. ~(i < j) /\ ~(j < i)
  <2>1. i < j => Depth(rank, g) < Depth(rank, f)
    BY <1>1, <1>2, <1>3 DEF Good, Ordered
  <2>2. j < i => Depth(rank, f) < Depth(rank, g)
    BY <1>1, <1>2, <1>3 DEF Good, Ordered
  <2> QED BY <1>4, <2>1, <2>2
<1>6. i \in Nat /\ j \in Nat
  BY <1>1, <1>2, <1>3 DEF Good
<1>7. i = j
  BY <1>5, <1>6
<1> QED BY <1>2, <1>3, <1>7

LEMMA OneOfKind ==
  ASSUME BuildAssumption, InOrder, NEW t \in Thread, NEW f \in On(t), NEW g \in On(t)
  PROVE  /\ f.at \in BuildKinds /\ g.at \in BuildKinds /\ f.s = g.s => f = g
         /\ f.at \in {"check", "launch", "launched", "unlock"}
              /\ g.at \in {"check", "launch", "launched", "unlock"} => f = g
         /\ f.at \in {"lock", "tell", "erase", "last"}
              /\ g.at \in {"lock", "tell", "erase", "last"} /\ f.s = g.s => f = g
         /\ f.at \in {"start", "work"} /\ g.at \in {"start", "work"} => f = g
<1>1. PICK rank \in Ranking : TRUE
  BY DEF BuildAssumption
<1>2. Depth(rank, f) = Depth(rank, g) => f = g
  BY OneAtDepth
<1>3. f.at \in BuildKinds /\ g.at \in BuildKinds /\ f.s = g.s => f = g
  BY <1>2, DepthByKind DEF BuildKinds
<1>4. f.at \in {"check", "launch", "launched", "unlock"}
      /\ g.at \in {"check", "launch", "launched", "unlock"} => f = g
  BY <1>2, DepthByKind
<1>5. f.at \in {"lock", "tell", "erase", "last"}
      /\ g.at \in {"lock", "tell", "erase", "last"} /\ f.s = g.s => f = g
  BY <1>2, DepthByKind
<1>6. f.at \in {"start", "work"} /\ g.at \in {"start", "work"} => f = g
  BY <1>2, DepthByKind
<1> QED BY <1>3, <1>4, <1>5, <1>6

LEMMA NotUnderItself ==
  ASSUME NEW f
  PROVE  ~Under(f, f)
BY DEF Under, CoveredKinds, BuildKinds

(* Two functions do not make the same claim.                                 *)
LEMMA OneClaimant ==
  ASSUME BuildAssumption, InOrder, Covered, Structure,
         NEW t \in Thread, NEW u \in Thread, NEW f \in On(t), NEW g \in On(u),
         NEW at, NEW d, NEW r \in Requester,
         FrameClaims(f, t, at, d, r), FrameClaims(g, u, at, d, r)
  PROVE  t = u /\ f = g
<1>1. Fits(f, t) /\ Fits(g, u)
  BY DEF Structure
<1>2. CASE at = "todo"
  <2>1. CASE f.at = "deps" /\ f.s = r
    <3>1. r \in Script
      <4>1. Stacks
        BY DEF InOrder, Types
      <4>2. f \in Frame
        BY <4>1, OnFrames
      <4> QED BY <2>1, <4>2, FrameScript
    <3>2. r \notin Worker
      BY <3>1 DEF BuildAssumption
    <3>3. g.at = "deps" /\ g.s = r
      BY <1>1, <1>2, <3>2 DEF FrameClaims, Fits
    <3>4. t = u
      BY <1>1, <2>1, <3>3 DEF Fits, BuildKinds
    <3> QED BY <2>1, <3>3, <3>4, OneOfKind DEF BuildKinds
  <2>2. CASE f.at = "work" /\ t = r
    <3>1. r \in Worker
      BY <1>1, <2>2 DEF Fits
    <3>2. r \notin Script
      BY <3>1 DEF BuildAssumption
    <3>3. g.at = "work" /\ u = r
      <4>1. Stacks
        BY DEF InOrder, Types
      <4>2. g \in Frame
        BY <4>1, OnFrames
      <4>3. ~(g.at = "deps" /\ g.s = r)
        BY <3>2, <4>2, FrameScript
      <4> QED BY <1>2, <4>3 DEF FrameClaims
    <3> QED BY <2>2, <3>3, OneOfKind
  <2> QED BY <1>2, <2>1, <2>2 DEF FrameClaims
<1>3. CASE at = "ask"
  <2>1. /\ f.at \in AskKinds /\ f.for = r /\ g.at \in AskKinds /\ g.for = r
    BY <1>3 DEF FrameClaims
  <2>2. t = u
    <3>1. CASE r \in Script
      <4>1. PICK f1 \in On(t) : f1.at = "deps" /\ f1.s = r
        BY <1>1, <2>1, <3>1 DEF Fits
      <4>2. PICK g1 \in On(u) : g1.at = "deps" /\ g1.s = r
        BY <1>1, <2>1, <3>1 DEF Fits
      <4> QED BY <4>1, <4>2 DEF Structure, Fits, BuildKinds
    <3>2. CASE r \notin Script
      BY <1>1, <2>1, <3>2 DEF Fits
    <3> QED BY <3>1, <3>2
  <2> QED BY <2>1, <2>2, IsTop DEF AskKinds, CoveredKinds
<1>4. CASE at = "tell"
  <2>1. f.at = "tell" /\ g.at = "tell" /\ f.s = d /\ g.s = d
    BY <1>4 DEF FrameClaims
  <2>2. t = u
    BY <1>1, <2>1 DEF Fits
  <2> QED BY <2>1, <2>2, OneOfKind
<1>5. CASE at = "erase"
  <2>1. f.at = "erase" /\ g.at = "erase" /\ f.dep = d /\ g.dep = d
    BY <1>5 DEF FrameClaims
  <2>2. /\ \E h \in On(t) : h.at = "tell" /\ h.s = d
        /\ \E h \in On(u) : h.at = "tell" /\ h.s = d
    BY <1>1, <2>1 DEF Fits
  <2>3. t = u
    BY <2>2 DEF Structure, Fits
  <2> QED BY <2>1, <2>3, IsTop DEF CoveredKinds
<1> QED BY <1>2, <1>3, <1>4, <1>5 DEF FrameClaims

-----------------------------------------------------------------------------
(* What a step that swaps functions does to places, claims and tokens.       *)
AtIn(F, at, s)           == \E f \in F : f.at = at /\ f.s = s
ClaimsIn(F, t, at, d, r) == \E f \in F : FrameClaims(f, t, at, d, r)

LEMMA HereMoves ==
  ASSUME NEW t, NEW R, NEW Old, NEW New, Swap(t, R, Old, New)
  PROVE  /\ \A at, s : \A u \in Thread \ {t} : Here(at, s, u)' <=> Here(at, s, u)
         /\ \A at, s : Here(at, s, t)' <=> AtIn(R, at, s) \/ AtIn(New, at, s)
         /\ \A at, s : Here(at, s, t) <=> AtIn(R, at, s) \/ AtIn(Old, at, s)
         /\ \A at, s : at \notin CoveredKinds => ~AtIn(R, at, s)
BY DEF Swap, Here, AtIn

(* Of a kind that is not swapped, nothing changes.                           *)
LEMMA HereKept ==
  ASSUME NEW t, NEW R, NEW Old, NEW New, Swap(t, R, Old, New), NEW at, NEW s,
         AtIn(Old, at, s) <=> AtIn(New, at, s)
  PROVE  /\ \A u \in Thread : Here(at, s, u)' <=> Here(at, s, u)
         /\ Doing(at, s)' <=> Doing(at, s)
<1>1. \A u \in Thread : Here(at, s, u)' <=> Here(at, s, u)
  BY HereMoves
<1> QED BY <1>1 DEF Doing

LEMMA HereSame ==
  ASSUME stack' = stack
  PROVE  /\ \A at, s, u : Here(at, s, u)' <=> Here(at, s, u)
         /\ \A at, s : Doing(at, s)' <=> Doing(at, s)
         /\ \A at, d, r : InFrames(at, d, r)' <=> InFrames(at, d, r)
BY DEF Here, Doing, InFrames, On

(* The claims of the functions that stay.                                    *)
Others(t, R, at, d, r) ==
  ClaimsIn(R, t, at, d, r) \/ \E u \in Thread \ {t} : ClaimsIn(On(u), u, at, d, r)

LEMMA ClaimsMove ==
  ASSUME NEW t, NEW R, NEW Old, NEW New, Swap(t, R, Old, New)
  PROVE  \A at, d, r : /\ InFrames(at, d, r) <=> Others(t, R, at, d, r) \/ ClaimsIn(Old, t, at, d, r)
                       /\ InFrames(at, d, r)' <=> Others(t, R, at, d, r) \/ ClaimsIn(New, t, at, d, r)
<1> TAKE at, d, r
<1>1. /\ t \in Thread /\ On(t) = R \cup Old /\ On(t)' = R \cup New
      /\ \A u \in Thread \ {t} : On(u)' = On(u)
  BY DEF Swap
<1>2. InFrames(at, d, r) <=> Others(t, R, at, d, r) \/ ClaimsIn(Old, t, at, d, r)
  BY <1>1 DEF InFrames, Others, ClaimsIn
<1>3. InFrames(at, d, r)' <=> Others(t, R, at, d, r) \/ ClaimsIn(New, t, at, d, r)
  BY <1>1 DEF InFrames, Others, ClaimsIn
<1> QED BY <1>2, <1>3

(* A claim of a function that goes is no other's.                            *)
LEMMA OnlyClaim ==
  ASSUME BuildAssumption, InOrder, Framed, OneClaim,
         NEW t, NEW R, NEW Old, NEW New, Swap(t, R, Old, New),
         NEW d \in Script, NEW r \in Requester, NEW a \in ClaimKinds, ClaimsIn(Old, t, a, d, r)
  PROVE  /\ \A at \in ClaimKinds : ~Others(t, R, at, d, r)
         /\ ~Notes(d, r) /\ ~Posted(d, r) /\ HasClaim(a, d, r)
<1>1. HasClaim(a, d, r)
  BY ClaimsMove DEF HasClaim
<1>2. a \notin {"noted", "posted"}
  BY DEF ClaimsIn, FrameClaims
<1>3. ~Notes(d, r) /\ ~Posted(d, r)
  BY <1>1, <1>2 DEF OneClaim, HasClaim, ClaimKinds
<1>4. ASSUME NEW at \in ClaimKinds, Others(t, R, at, d, r) PROVE FALSE
  <2>1. HasClaim(at, d, r)
    BY <1>4, ClaimsMove DEF HasClaim
  <2>2. at = a
    BY <1>1, <2>1 DEF OneClaim
  <2>3. PICK f \in Old : FrameClaims(f, t, a, d, r)
    BY DEF ClaimsIn
  <2>4. t \in Thread /\ f \in On(t) /\ R \subseteq On(t) /\ \A h \in R : Under(h, f)
    BY <2>3 DEF Swap
  <2>5. CASE ClaimsIn(R, t, at, d, r)
    <3>1. PICK h \in R : FrameClaims(h, t, a, d, r)
      BY <2>2, <2>5 DEF ClaimsIn
    <3>2. h = f
      BY <2>3, <2>4, <3>1, OneClaimant DEF Framed
    <3> QED BY <2>4, <3>2, NotUnderItself
  <2>6. CASE \E u \in Thread \ {t} : ClaimsIn(On(u), u, at, d, r)
    <3>1. PICK u \in Thread \ {t} : ClaimsIn(On(u), u, a, d, r)
      BY <2>2, <2>6
    <3>2. PICK h \in On(u) : FrameClaims(h, u, a, d, r)
      BY <3>1 DEF ClaimsIn
    <3>3. t = u
      BY <2>3, <2>4, <3>2, OneClaimant DEF Framed
    <3> QED BY <3>1, <3>3
  <2> QED BY <1>4, <2>5, <2>6 DEF Others
<1> QED BY <1>1, <1>3, <1>4

(* The claims of a requester on a script.                                    *)
Settled(d, r) ==
  /\ \A a, b \in ClaimKinds : HasClaim(a, d, r) /\ HasClaim(b, d, r) => a = b
  /\ \A a \in ClaimKinds : HasClaim(a, d, r) => Expects(r, d)
  /\ r \in Script /\ Expects(r, d) => \E a \in ClaimKinds : HasClaim(a, d, r)

SameClaims(d, r) ==
  /\ \A a \in ClaimKinds : HasClaim(a, d, r)' <=> HasClaim(a, d, r)
  /\ Expects(r, d)' <=> Expects(r, d)

LEMMA ClaimedIs == Claimed <=> \A d \in Script, r \in Requester : Settled(d, r)
<1>1. Script \subseteq Requester
  BY DEF Requester
<1> QED BY <1>1 DEF Claimed, OneClaim, ClaimsExpected, ClaimsKept, Settled

LEMMA ClaimedStep ==
  ASSUME Claimed, \A d \in Script, r \in Requester : SameClaims(d, r) \/ Settled(d, r)'
  PROVE  Claimed'
<1>1. ASSUME NEW d \in Script, NEW r \in Requester PROVE Settled(d, r)'
  <2>1. Settled(d, r)
    BY ClaimedIs
  <2>2. CASE SameClaims(d, r)
    BY <2>1, <2>2 DEF Settled, SameClaims
  <2> QED BY <2>2
<1>2. \A d \in Script, r \in Requester : Settled(d, r)'
  BY <1>1
<1>3. Script \subseteq Requester
  BY DEF Requester
<1> QED BY <1>2, <1>3 DEF Claimed, OneClaim, ClaimsExpected, ClaimsKept, Settled

LEMMA SettledAt ==
  ASSUME NEW d, NEW r, NEW b \in ClaimKinds, \A a \in ClaimKinds : HasClaim(a, d, r)' => a = b,
         HasClaim(b, d, r)' \/ r \notin Script, Expects(r, d)'
  PROVE  Settled(d, r)'
BY DEF Settled

LEMMA SettledNot ==
  ASSUME NEW d, NEW r, \A a \in ClaimKinds : ~HasClaim(a, d, r)', ~Expects(r, d)'
  PROVE  Settled(d, r)'
BY DEF Settled

LEMMA NoClaimUnexpected ==
  ASSUME Claimed, NEW d \in Script, NEW r \in Requester, ~Expects(r, d)
  PROVE  \A a \in ClaimKinds : ~HasClaim(a, d, r)
BY DEF Claimed, ClaimsExpected

LEMMA ClaimsSame ==
  ASSUME NEW t, NEW R, NEW Old, NEW New, Swap(t, R, Old, New), NEW d, NEW r,
         \A at \in ClaimKinds : ClaimsIn(Old, t, at, d, r) <=> ClaimsIn(New, t, at, d, r),
         Notes(d, r)' <=> Notes(d, r), Posted(d, r)' <=> Posted(d, r),
         Expects(r, d)' <=> Expects(r, d)
  PROVE  SameClaims(d, r)
<1>1. \A at \in ClaimKinds : InFrames(at, d, r)' <=> InFrames(at, d, r)
  BY ClaimsMove
<1> QED BY <1>1 DEF SameClaims, HasClaim

(* A claim that is taken over, from a function or by one or by both.         *)
LEMMA ClaimMoves ==
  ASSUME BuildAssumption, InOrder, Framed, Claimed,
         NEW t, NEW R, NEW Old, NEW New, Swap(t, R, Old, New),
         NEW d \in Script, NEW r \in Requester, NEW a \in ClaimKinds, ClaimsIn(Old, t, a, d, r),
         NEW b \in ClaimKinds,
         \A at \in ClaimKinds : ClaimsIn(New, t, at, d, r) => at = b,
         Notes(d, r)' => b = "noted", Posted(d, r)' => b = "posted",
         ClaimsIn(New, t, b, d, r) \/ (b = "noted" /\ Notes(d, r)') \/ (b = "posted" /\ Posted(d, r)'),
         Expects(r, d)' <=> Expects(r, d)
  PROVE  Settled(d, r)'
<1>1. HasClaim(a, d, r) /\ \A at \in ClaimKinds : ~Others(t, R, at, d, r)
  BY OnlyClaim DEF Claimed
<1>2. Expects(r, d)
  BY <1>1 DEF Claimed, ClaimsExpected
<1>3. \A at \in ClaimKinds : InFrames(at, d, r)' <=> ClaimsIn(New, t, at, d, r)
  BY <1>1, ClaimsMove
<1>4. \A at \in ClaimKinds : HasClaim(at, d, r)' => at = b
  BY <1>3 DEF HasClaim
<1>5. HasClaim(b, d, r)'
  BY <1>3 DEF HasClaim
<1> QED BY <1>2, <1>4, <1>5, SettledAt

(* A claim that somebody had noted before.                                   *)
LEMMA NotedMoves ==
  ASSUME Claimed, NEW t, NEW R, NEW Old, NEW New, Swap(t, R, Old, New),
         NEW d \in Script, NEW r \in Requester, Notes(d, r),
         NEW b \in ClaimKinds,
         \A at \in ClaimKinds : ClaimsIn(New, t, at, d, r) => at = b,
         ~Notes(d, r)', Posted(d, r)' => b = "posted",
         ClaimsIn(New, t, b, d, r) \/ (b = "posted" /\ Posted(d, r)'),
         Expects(r, d)' <=> Expects(r, d)
  PROVE  Settled(d, r)'
<1>1. HasClaim("noted", d, r)
  BY DEF HasClaim
<1>2. Expects(r, d)
  BY <1>1 DEF Claimed, ClaimsExpected, ClaimKinds
<1>3. \A at \in ClaimKinds : ~InFrames(at, d, r)
  <2> SUFFICES ASSUME NEW at \in ClaimKinds, InFrames(at, d, r) PROVE FALSE
    OBVIOUS
  <2>1. at = "noted"
    BY <1>1 DEF Claimed, OneClaim, ClaimKinds, HasClaim
  <2> QED BY <2>1 DEF InFrames, FrameClaims
<1>4. \A at \in ClaimKinds : InFrames(at, d, r)' <=> ClaimsIn(New, t, at, d, r)
  BY <1>3, ClaimsMove
<1>5. \A at \in ClaimKinds : HasClaim(at, d, r)' => at = b
  BY <1>4 DEF HasClaim
<1>6. HasClaim(b, d, r)'
  BY <1>4 DEF HasClaim
<1> QED BY <1>2, <1>5, <1>6, SettledAt

-----------------------------------------------------------------------------
(* Tokens: those of one script move, the others stay.                        *)
LEMMA TokenStep ==
  ASSUME OneToken, TokensGoOn, NEW x \in Script, NEW b \in TokenKinds, NEW v \in Thread \cup {None},
         \A s \in Script \ {x} : \A t \in Thread \cup {None} : \A a \in TokenKinds :
           HasToken(a, s, t)' => HasToken(a, s, t),
         \A t \in Thread \cup {None} : \A a \in TokenKinds : HasToken(a, x, t)' =>
           /\ a = b /\ t = v /\ x \in beingBuilt'
           /\ x \in Unresolvable => b \in {"lock", "tell"}
           /\ x \notin Unresolvable => buildDeps'[x] = {},
         \A s \in beingBuilt \ {x} : /\ s \in beingBuilt'
                                     /\ buildDeps[s] = {} => buildDeps'[s] = {}
  PROVE  OneToken' /\ TokensGoOn'
<1>1. OneToken'
  <2>1. SUFFICES ASSUME NEW s \in Script, NEW t \in Thread \cup {None}, NEW u \in Thread \cup {None},
                        NEW a \in TokenKinds, NEW c \in TokenKinds,
                        HasToken(a, s, t)', HasToken(c, s, u)'
                 PROVE  a = c /\ t = u
    BY DEF OneToken
  <2>2. CASE s = x
    BY <2>1, <2>2
  <2>3. CASE s # x
    BY <2>1, <2>3 DEF OneToken
  <2> QED BY <2>2, <2>3
<1>2. TokensGoOn'
  <2>1. SUFFICES ASSUME NEW s \in Script, NEW t \in Thread \cup {None}, NEW a \in TokenKinds,
                        HasToken(a, s, t)'
                 PROVE  /\ s \in beingBuilt'
                        /\ s \in Unresolvable => a \in {"lock", "tell"}
                        /\ s \notin Unresolvable => buildDeps'[s] = {}
    BY DEF TokensGoOn
  <2>2. CASE s = x
    BY <2>1, <2>2
  <2>3. CASE s # x
    BY <2>1, <2>3 DEF TokensGoOn
  <2> QED BY <2>2, <2>3
<1> QED BY <1>1, <1>2

LEMMA TokensKept ==
  ASSUME OneToken, TokensGoOn,
         \A s \in Script : \A t \in Thread \cup {None} : \A a \in TokenKinds :
           HasToken(a, s, t)' => HasToken(a, s, t),
         \A s \in beingBuilt : s \in beingBuilt' /\ (buildDeps[s] = {} => buildDeps'[s] = {})
  PROVE  OneToken' /\ TokensGoOn'
<1>1. OneToken'
  BY DEF OneToken
<1>2. TokensGoOn'
  BY DEF TokensGoOn
<1> QED BY <1>1, <1>2

(* The same functions make a script go on where the same functions are.      *)
LEMMA TokensSame ==
  ASSUME NEW s \in Script,
         \A a \in {"check", "launch", "lock", "tell", "last"} : \A t \in Thread :
           Here(a, s, t)' => Here(a, s, t),
         buildDeps'[s] = {} => buildDeps[s] = {},
         s \in compilers' => s \in compilers,
         CompileFinished(s) \in Called' => CompileFinished(s) \in Called,
         BuildSelfThread(s) \in Called' => BuildSelfThread(s) \in Called
  PROVE  \A t \in Thread \cup {None} : \A a \in TokenKinds : HasToken(a, s, t)' => HasToken(a, s, t)
BY DEF HasToken

(* Where the functions that stay are of no script that goes on by itself.    *)
LEMMA TokensWithSwap ==
  ASSUME NEW t, NEW R, NEW Old, NEW New, Swap(t, R, Old, New), NEW s \in Script,
         \A a \in {"check", "launch", "lock", "tell", "last"} : AtIn(New, a, s) => AtIn(Old, a, s),
         buildDeps'[s] = {} => buildDeps[s] = {},
         s \in compilers' => s \in compilers,
         CompileFinished(s) \in Called' => CompileFinished(s) \in Called,
         BuildSelfThread(s) \in Called' => BuildSelfThread(s) \in Called
  PROVE  \A u \in Thread \cup {None} : \A a \in TokenKinds : HasToken(a, s, u)' => HasToken(a, s, u)
<1>1. \A a \in {"check", "launch", "lock", "tell", "last"} : \A u \in Thread :
        Here(a, s, u)' => Here(a, s, u)
  BY HereMoves
<1> QED BY <1>1, TokensSame

-----------------------------------------------------------------------------
(* Delayed calls: one at the end, the first one made.                        *)
Once(cs) == \A i, j \in DOMAIN cs : cs[i] = cs[j] /\ cs[i] # WorkCompleted => i = j

LEMMA OnceAppend ==
  ASSUME NEW S, NEW cs \in Seq(S), NEW c \in S, Once(cs), c \notin Elems(cs) \/ c = WorkCompleted
  PROVE  Once(Append(cs, c)) /\ Elems(Append(cs, c)) = Elems(cs) \cup {c}
<1> DEFINE new == Append(cs, c)
<1>1. /\ Len(cs) \in Nat /\ DOMAIN cs = 1..Len(cs) /\ DOMAIN new = 1..Len(cs) + 1
      /\ new[Len(cs) + 1] = c /\ \A i \in DOMAIN cs : new[i] = cs[i] /\ new[i] \in Elems(cs)
  BY DEF Elems
<1> HIDE DEF new
<1>2. Once(new)
  <2>1. SUFFICES ASSUME NEW i \in DOMAIN new, NEW j \in DOMAIN new, new[i] = new[j],
                        new[i] # WorkCompleted
                 PROVE  i = j
    BY DEF Once
  <2>2. CASE i \in DOMAIN cs /\ j \in DOMAIN cs
    BY <1>1, <2>1, <2>2 DEF Once
  <2>3. CASE i \notin DOMAIN cs
    <3>1. i = Len(cs) + 1
      BY <1>1, <2>3
    <3>2. new[i] = c /\ c \notin Elems(cs)
      BY <1>1, <2>1, <3>1
    <3>3. j \notin DOMAIN cs
      BY <1>1, <2>1, <3>2
    <3> QED BY <1>1, <3>1, <3>3
  <2>4. CASE j \notin DOMAIN cs
    <3>1. j = Len(cs) + 1
      BY <1>1, <2>4
    <3>2. new[j] = c /\ c \notin Elems(cs)
      BY <1>1, <2>1, <3>1
    <3>3. i \notin DOMAIN cs
      BY <1>1, <2>1, <3>2
    <3> QED BY <1>1, <3>1, <3>3
  <2> QED BY <2>2, <2>3, <2>4
<1> QED BY <1>2, ElemsAppend DEF new

LEMMA OnceTail ==
  ASSUME NEW S, NEW cs \in Seq(S), cs # <<>>, Once(cs)
  PROVE  /\ Once(Tail(cs)) /\ Elems(cs) = {Head(cs)} \cup Elems(Tail(cs))
         /\ Head(cs) # WorkCompleted => Head(cs) \notin Elems(Tail(cs))
<1> DEFINE tl == Tail(cs)
<1>1. /\ Head(cs) = cs[1] /\ 1 \in DOMAIN cs /\ tl \in Seq(S)
      /\ \A i \in DOMAIN tl : i \in Nat /\ i + 1 \in DOMAIN cs /\ tl[i] = cs[i + 1] /\ i + 1 # 1
  BY ConcatProperties
<1>2. Elems(cs) = {Head(cs)} \cup Elems(tl)
  BY ElemsIn
<1> HIDE DEF tl
<1>3. Once(tl)
  <2>1. SUFFICES ASSUME NEW i \in DOMAIN tl, NEW j \in DOMAIN tl, tl[i] = tl[j],
                        tl[i] # WorkCompleted
                 PROVE  i = j
    BY DEF Once
  <2>2. i + 1 = j + 1
    BY <1>1, <2>1 DEF Once
  <2> QED BY <1>1, <2>2
<1>4. Head(cs) # WorkCompleted => Head(cs) \notin Elems(tl)
  BY <1>1 DEF Elems, Once
<1> QED BY <1>2, <1>3, <1>4 DEF tl

LEMMA CallPosted ==
  ASSUME Types, CalledOnce, NEW c \in DelayedCall, Post(c), c \notin Called
  PROVE  CalledOnce' /\ Called' = Called \cup {c}
<1>1. Once(calls) /\ calls' = Append(calls, c) /\ calls \in Seq(DelayedCall)
  BY DEF CalledOnce, Once, Post, Types, CallsOK
<1>2. Once(Append(calls, c)) /\ Elems(Append(calls, c)) = Elems(calls) \cup {c}
  BY <1>1, OnceAppend DEF Called
<1> QED BY <1>1, <1>2 DEF CalledOnce, Called, Once

LEMMA CallMade ==
  ASSUME Types, CalledOnce, NEW c, Calling(c), c # WorkCompleted
  PROVE  CalledOnce' /\ Called' = Called \ {c} /\ c \in Called
<1>1. Once(calls) /\ calls' = Tail(calls) /\ calls \in Seq(DelayedCall) /\ calls # <<>> /\ Head(calls) = c
  BY DEF CalledOnce, Once, Calling, Types, CallsOK
<1>2. /\ Once(Tail(calls)) /\ Elems(calls) = {c} \cup Elems(Tail(calls))
      /\ c \notin Elems(Tail(calls))
  BY <1>1, OnceTail
<1> QED BY <1>1, <1>2 DEF CalledOnce, Called, Once

LEMMA CallsSame ==
  ASSUME calls' = calls
  PROVE  Called' = Called /\ (CalledOnce => CalledOnce') /\ \A d, r : Posted(d, r)' <=> Posted(d, r)
BY DEF Called, CalledOnce, Posted

LEMMA CallKinds ==
  \A s, d, r : /\ CompileFinished(s) # BuildSelfThread(d)
               /\ CompileFinished(s) # ResourceWorkCompleted(d, r) /\ CompileFinished(s) # WorkCompleted
               /\ BuildSelfThread(s) # ResourceWorkCompleted(d, r) /\ BuildSelfThread(s) # WorkCompleted
               /\ ResourceWorkCompleted(d, r) # WorkCompleted
               /\ (CompileFinished(s) = CompileFinished(d) => s = d)
               /\ (BuildSelfThread(s) = BuildSelfThread(d) => s = d)
               /\ \A e, q : ResourceWorkCompleted(e, q) = ResourceWorkCompleted(d, r) => e = d /\ q = r
BY DEF CompileFinished, BuildSelfThread, ResourceWorkCompleted, WorkCompleted
-----------------------------------------------------------------------------
(* The stacks stay framed if the new functions are, and if the others keep   *)
(* what they hold.                                                           *)
KeepsHeld(u, h) ==
  /\ h.at \in BuildKinds /\ buildMutex[h.s] = u => buildMutex'[h.s] = u
  /\ h.at = "tell" /\ doneMutex[h.s] = u => doneMutex'[h.s] = u
  /\ h.at \in {"launched", "unlock"} /\ compMutex[h.s] = u => compMutex'[h.s] = u

LEMMA FramedStep ==
  ASSUME Framed, NEW t, NEW R, NEW Old, NEW New, Swap(t, R, Old, New), Covered',
         \A u \in Thread \ {t} : \A h \in On(u) : KeepsHeld(u, h),
         \A h \in R : KeepsHeld(t, h),
         \A g \in New : Fits(g, t)' /\ Sound(g),
         \A g \in New : g.at \in {"erase", "last"} =>
           \/ \E f \in Old : f.at \in {"erase", "last"} /\ f.s = g.s
           \/ \A u \in Thread \ {t} : \A f \in On(u) : f.at \in {"erase", "last"} => f.s # g.s
  PROVE  Framed'
<1>0. /\ t \in Thread /\ On(t) = R \cup Old /\ On(t)' = R \cup New
      /\ \A u \in Thread \ {t} : On(u)' = On(u)
      /\ \A h \in R : h.at \in CoveredKinds
  BY DEF Swap
<1>1. Structure'
  <2>1. SUFFICES ASSUME NEW u \in Thread, NEW h \in On(u)' PROVE Fits(h, u)'
    BY DEF Structure
  <2>2. CASE u # t
    <3>1. h \in On(u) /\ On(u)' = On(u)
      BY <1>0, <2>2
    <3>2. Fits(h, u) /\ KeepsHeld(u, h)
      BY <2>2, <3>1 DEF Framed, Structure
    <3> QED BY <3>1, <3>2 DEF Fits, KeepsHeld
  <2>3. CASE u = t /\ h \in R
    <3>1. h \in On(t) /\ h.at \in CoveredKinds
      BY <1>0, <2>3
    <3>2. Fits(h, t) /\ KeepsHeld(t, h)
      BY <1>0, <2>3, <3>1 DEF Framed, Structure
    <3> QED BY <2>3, <3>1, <3>2 DEF Fits, KeepsHeld, CoveredKinds, AskKinds
  <2>4. CASE u = t /\ h \in New
    BY <2>4
  <2> QED BY <1>0, <2>2, <2>3, <2>4
<1>2. TellsApart'
  <2>1. SUFFICES ASSUME NEW u \in Thread, NEW v \in Thread, NEW f \in On(u)', NEW g \in On(v)',
                        f.at \in {"erase", "last"}, g.at \in {"erase", "last"}, f.s = g.s
                 PROVE  u = v
    BY DEF TellsApart
  <2>2. ASSUME NEW k \in On(t)', k.at \in {"erase", "last"},
               NEW w \in Thread \ {t}, NEW l \in On(w)', l.at \in {"erase", "last"}, l.s = k.s
        PROVE  FALSE
    <3>1. l \in On(w)
      BY <1>0
    <3>2. CASE k \in R
      BY <1>0, <2>2, <3>1, <3>2 DEF Framed, TellsApart
    <3>3. CASE k \in New
      <4>1. PICK e \in Old : e.at \in {"erase", "last"} /\ e.s = k.s
        BY <2>2, <3>1, <3>3
      <4> QED BY <1>0, <2>2, <3>1, <4>1 DEF Framed, TellsApart
    <3> QED BY <1>0, <3>2, <3>3
  <2>3. CASE u # t /\ v # t
    BY <1>0, <2>1, <2>3 DEF Framed, TellsApart
  <2>4. CASE u = t /\ v # t
    BY <2>1, <2>2, <2>4
  <2>5. CASE u # t /\ v = t
    BY <2>1, <2>2, <2>5
  <2> QED BY <2>3, <2>4, <2>5
<1>3. Sounds'
  <2>1. SUFFICES ASSUME NEW u \in Thread, NEW h \in On(u)' PROVE Sound(h)
    BY DEF Sounds, Sound
  <2>2. CASE u # t
    BY <1>0, <2>2 DEF Framed, Sounds
  <2>3. CASE u = t
    BY <1>0, <2>3 DEF Framed, Sounds
  <2> QED BY <2>2, <2>3
<1> QED BY <1>1, <1>2, <1>3 DEF Framed

(* A step of functions alone: nothing is asked, noted, posted or begun.      *)
Unmoved == /\ beingBuilt' = beingBuilt /\ buildCanceled' = buildCanceled
           /\ requests' = requests /\ buildDeps' = buildDeps
           /\ working' = working /\ stopWorker' = stopWorker /\ busy' = busy

LEMMA UnmovedKeeps ==
  ASSUME Unmoved
  PROVE  /\ Flags => Flags'
         /\ NothingCanceled => NothingCanceled'
         /\ \A d, r : Expects(r, d)' <=> Expects(r, d)
         /\ \A d, r : (Doing("tell", d)' <=> Doing("tell", d)) => (Notes(d, r)' <=> Notes(d, r))
<1>1. Flags => Flags'
  BY DEF Flags, Unmoved, requests
<1>2. NothingCanceled => NothingCanceled'
  BY DEF NothingCanceled, Unmoved
<1>3. \A d, r : Expects(r, d)' <=> Expects(r, d)
  BY DEF Expects, Unmoved
<1>4. \A d, r : (Doing("tell", d)' <=> Doing("tell", d)) => (Notes(d, r)' <=> Notes(d, r))
  BY DEF Notes, Unmoved, requests
<1> QED BY <1>1, <1>2, <1>3, <1>4

LEMMA StartingMoves ==
  ASSUME NEW t, NEW R, NEW Old, NEW New, Swap(t, R, Old, New), \A g \in New : g.at # "start"
  PROVE  \A w \in Worker : Starting(w)' => Starting(w)
<1>1. Worker \subseteq Thread
  BY DEF Thread
<1> QED BY <1>1 DEF Starting, Swap

LEMMA InHandQuiet ==
  ASSUME InHand, NEW t, NEW R, NEW Old, NEW New, Swap(t, R, Old, New),
         Framed', Unmoved, calls' = calls, compilers' = compilers,
         \A g \in New : g.at # "start",
         \A s \in Script : AtIn(New, "tell", s) <=> AtIn(Old, "tell", s),
         \A s \in Script : \A a \in {"check", "launch", "lock", "last"} : AtIn(New, a, s) => AtIn(Old, a, s),
         \A d \in Script, r \in Requester :
           \/ \A at \in ClaimKinds : ClaimsIn(Old, t, at, d, r) <=> ClaimsIn(New, t, at, d, r)
           \/ Settled(d, r)'
  PROVE  InHand'
<1>0. /\ Flags /\ NothingCanceled /\ CalledOnce /\ OneToken /\ TokensGoOn /\ Claimed /\ ProjectsWait
  BY DEF InHand, GoingOn
<1>1. Flags' /\ NothingCanceled'
  BY <1>0, UnmovedKeeps
<1>2. CalledOnce' /\ Called' = Called
  BY <1>0, CallsSame
<1>3. OneToken' /\ TokensGoOn'
  <2>1. \A s \in Script : \A u \in Thread \cup {None} : \A a \in TokenKinds :
          HasToken(a, s, u)' => HasToken(a, s, u)
    <3> SUFFICES ASSUME NEW s \in Script
                 PROVE  \A u \in Thread \cup {None} : \A a \in TokenKinds :
                          HasToken(a, s, u)' => HasToken(a, s, u)
      OBVIOUS
    <3>1. buildDeps' = buildDeps
      BY DEF Unmoved
    <3> QED BY <1>2, <3>1, TokensWithSwap
  <2> QED BY <1>0, <2>1, TokensKept DEF Unmoved
<1>4. Claimed'
  <2>1. ASSUME NEW d \in Script, NEW r \in Requester PROVE SameClaims(d, r) \/ Settled(d, r)'
    <3>1. Doing("tell", d)' <=> Doing("tell", d)
      BY HereKept
    <3>2. /\ Notes(d, r)' <=> Notes(d, r)
          /\ Expects(r, d)' <=> Expects(r, d)
      BY <3>1, UnmovedKeeps
    <3>3. Posted(d, r)' <=> Posted(d, r)
      BY CallsSame
    <3>4. CASE \A at \in ClaimKinds : ClaimsIn(Old, t, at, d, r) <=> ClaimsIn(New, t, at, d, r)
      BY <3>2, <3>3, <3>4, ClaimsSame
    <3> QED BY <3>4
  <2> QED BY <1>0, <2>1, ClaimedStep
<1>5. ProjectsWait'
  BY <1>0, StartingMoves DEF ProjectsWait, Unmoved
<1> QED BY <1>1, <1>2, <1>3, <1>4, <1>5 DEF InHand, GoingOn

(* A function that goes on without making another claim.                     *)
LEMMA KeepsAllHeld ==
  ASSUME mutexes' = mutexes
  PROVE  \A u, h : KeepsHeld(u, h)
BY DEF KeepsHeld, mutexes

LEMMA FramedKept ==
  ASSUME Framed, NEW t, NEW R, NEW Old, NEW New, Swap(t, R, Old, New), Covered', mutexes' = mutexes,
         \A g \in New : Fits(g, t)' /\ Sound(g),
         \A g \in New : g.at \in {"erase", "last"} =>
           \E f \in Old : f.at \in {"erase", "last"} /\ f.s = g.s
  PROVE  Framed'
<1>1. \A u, h : KeepsHeld(u, h)
  BY KeepsAllHeld
<1> QED BY <1>1, FramedStep

LEMMA ClaimsOfOne ==
  ASSUME NEW f, NEW t, NEW at, NEW d, NEW r
  PROVE  /\ ClaimsIn({f}, t, at, d, r) <=> FrameClaims(f, t, at, d, r)
         /\ ~ClaimsIn({}, t, at, d, r)
         /\ \A g : ClaimsIn({f, g}, t, at, d, r) <=>
                     FrameClaims(f, t, at, d, r) \/ FrameClaims(g, t, at, d, r)
BY DEF ClaimsIn

LEMMA AtInOne ==
  ASSUME NEW f, NEW at, NEW s
  PROVE  /\ AtIn({f}, at, s) <=> f.at = at /\ f.s = s
         /\ ~AtIn({}, at, s)
         /\ \A g : AtIn({f, g}, at, s) <=> (f.at = at /\ f.s = s) \/ (g.at = at /\ g.s = s)
BY DEF AtIn

LEMMA AskClaims ==
  ASSUME NEW f, NEW t, NEW at, NEW d, NEW r, f.at \in AskKinds
  PROVE  FrameClaims(f, t, at, d, r) <=> at = "ask" /\ f.s = d /\ f.for = r
BY DEF FrameClaims, AskKinds

LEMMA NoClaims ==
  ASSUME NEW f, f.at \notin AskKinds \cup {"deps", "work", "tell", "erase"}
  PROVE  \A t, at, d, r : ~FrameClaims(f, t, at, d, r)
BY DEF FrameClaims

LEMMA GoToSwaps ==
  ASSUME BuildAssumption, InOrder, Covered, NEW t \in Thread, NEW here, At(t, here), NEW where,
         NEW g \in Frame, g = [Top(t) EXCEPT !.at = where], GoTo(t, where)
  PROVE  Swap(t, Rest(t), {Top(t)}, {g}) /\ Covered'
<1>1. Stacks
  BY DEF InOrder, Types
<1>2. Become(t, g)
  BY ONLY <1>1, GoToIsBecome, At(t, here), t \in Thread, g \in Frame,
          g = [Top(t) EXCEPT !.at = where], GoTo(t, where)
<1> QED BY <1>2, BecomeSwaps

(* Who asked for a function that goes on is still there.                     *)
LEMMA AskerStays ==
  ASSUME Structure, NEW t \in Thread, NEW R, NEW f, NEW New, Swap(t, R, {f}, New), f.at \in AskKinds
  PROVE  IF f.for \in Script THEN \E h \in R : h.at = "deps" /\ h.s = f.for
                             ELSE f.for = t
<1>1. f \in On(t) /\ On(t) = R \cup {f}
  BY DEF Swap
<1>2. Fits(f, t)
  BY <1>1 DEF Structure
<1> QED BY <1>1, <1>2 DEF Fits, AskKinds

(* BuildImpl goes on, having taken its mutex or seen that its script is not  *)
(* up to date.                                                               *)
LEMMA AskGoesOn ==
  ASSUME BuildAssumption, InOrder, InHand, NEW t \in Thread,
         NEW here \in {"enter", "test"}, At(t, here), NEW where \in {"test", "progress"},
         GoTo(t, where), buildMutex'[Top(t).s] = t,
         \A u \in Thread, s \in Script : buildMutex[s] = u => buildMutex'[s] = u,
         doneMutex' = doneMutex, compMutex' = compMutex,
         Unmoved, calls' = calls, compilers' = compilers
  PROVE  InHand'
<1>a. PICK f : f = Top(t)
  OBVIOUS
<1>b. PICK g : g = [f EXCEPT !.at = where]
  OBVIOUS
<1>c. PICK Old, New, R : Old = {f} /\ New = {g} /\ R = Rest(t)
  OBVIOUS
<1>1. f \in BuildFrame /\ f.at = here /\ Framed /\ f \in Frame
  <2>1. Types
    BY DEF InOrder
  <2> QED BY <1>a, <2>1, BuildFields, TopIsFrame DEF InHand, Types
<1>2. /\ g \in Frame /\ g.at = where /\ g.s = f.s /\ g.for = f.for /\ g.s \in Script
      /\ g.for \in Requester
  BY <1>b, <1>1 DEF BuildFrame, Frame
<1>3. Swap(t, R, Old, New) /\ Covered'
  BY <1>a, <1>b, <1>c, <1>1, <1>2, GoToSwaps DEF Framed
<1>4. IF f.for \in Script THEN \E h \in R : h.at = "deps" /\ h.s = f.for ELSE f.for = t
  BY <1>c, <1>1, <1>3, AskerStays DEF Framed, AskKinds
<1>5. On(t)' = R \cup {g}
  BY <1>c, <1>3 DEF Swap
<1>6. buildMutex'[g.s] = t
  BY <1>a, <1>2
<1>7. Fits(g, t)' /\ Sound(g)
  <2>1. Fits(g, t)'
    BY <1>2, <1>4, <1>5, <1>6 DEF Fits, AskKinds, BuildKinds
  <2>2. Sound(g)
    BY <1>2 DEF Sound, CancelKinds
  <2> QED BY <2>1, <2>2
<1>8. \A u \in Thread : \A h \in On(u) : KeepsHeld(u, h)
  <2> SUFFICES ASSUME NEW u \in Thread, NEW h \in On(u) PROVE KeepsHeld(u, h)
    OBVIOUS
  <2>1. h \in Frame
    BY OnFrames DEF InOrder, Types
  <2>2. h.at \in BuildKinds => h.s \in Script
    BY <2>1, FrameScript DEF BuildKinds
  <2> QED BY <2>2 DEF KeepsHeld
<1>9. R \subseteq On(t)
  BY <1>3 DEF Swap
<1>10. Framed'
  BY <1>c, <1>1, <1>2, <1>3, <1>7, <1>8, <1>9, FramedStep
<1>11. ASSUME NEW d \in Script, NEW r \in Requester, NEW at \in ClaimKinds
       PROVE  ClaimsIn(Old, t, at, d, r) <=> ClaimsIn(New, t, at, d, r)
  <2>1. f.at \in AskKinds /\ g.at \in AskKinds
    BY <1>1, <1>2 DEF AskKinds
  <2>2. FrameClaims(f, t, at, d, r) <=> FrameClaims(g, t, at, d, r)
    BY <1>2, <2>1, AskClaims
  <2> QED BY <1>c, <2>2, ClaimsOfOne
<1>12. \A s : \A at \in {"check", "launch", "lock", "tell", "last"} : ~AtIn(New, at, s) /\ ~AtIn(Old, at, s)
  BY <1>c, <1>1, <1>2, AtInOne
<1>13. \A h \in New : h.at # "start"
  BY <1>c, <1>2
<1>14. /\ \A s \in Script : AtIn(New, "tell", s) <=> AtIn(Old, "tell", s)
       /\ \A s \in Script : \A a \in {"check", "launch", "lock", "last"} :
             AtIn(New, a, s) => AtIn(Old, a, s)
  BY <1>12
<1>15. \A d \in Script, r \in Requester :
         \/ \A at \in ClaimKinds : ClaimsIn(Old, t, at, d, r) <=> ClaimsIn(New, t, at, d, r)
         \/ Settled(d, r)'
  BY <1>11
<1> QED BY <1>3, <1>10, <1>13, <1>14, <1>15, InHandQuiet

LEMMA LockBuildInHand ==
  ASSUME BuildAssumption, InOrder, InHand, NEW t \in Thread, LockBuild(t)
  PROVE  InHand'
<1>1. Types /\ At(t, "enter") /\ Top(t).s \in Script /\ None \notin Thread
  BY BuildFields DEF InOrder, LockBuild, BuildAssumption
<1>2. Unmoved /\ calls' = calls /\ compilers' = compilers /\ doneMutex' = doneMutex /\ compMutex' = compMutex
  BY DEF LockBuild, Unmoved, flags, progress, workspace
<1>3. /\ buildMutex'[Top(t).s] = t
      /\ \A u \in Thread, s \in Script : buildMutex[s] = u => buildMutex'[s] = u
  BY <1>1 DEF LockBuild, Types, MutexesOK
<1>4. GoTo(t, "test")
  BY DEF LockBuild
<1> QED BY <1>1, <1>2, <1>3, <1>4, AskGoesOn

LEMMA TopKnown ==
  ASSUME BuildAssumption, InOrder, InHand, NEW t \in Thread, NEW where, At(t, where)
  PROVE  /\ Top(t) \in On(t) /\ Top(t) \in Frame /\ Top(t).at = where
         /\ Fits(Top(t), t) /\ Sound(Top(t)) /\ FrameUses(Top(t)) /\ Rest(t) \subseteq On(t)
<1>1. Types /\ Stacks
  BY DEF InOrder, Types
<1>2. Top(t) \in On(t) /\ Top(t) \in Frame /\ Top(t).at = where /\ Rest(t) \subseteq On(t)
  BY <1>1, TopOn
<1>3. Fits(Top(t), t) /\ Sound(Top(t))
  BY <1>2 DEF InHand, Framed, Structure, Sounds
<1>4. PICK rank \in Ranking : TRUE
  BY DEF BuildAssumption
<1>5. FrameUses(Top(t))
  BY <1>1, <1>4, TopUses DEF InOrder
<1> QED BY <1>2, <1>3, <1>5

(* The functions of all threads have scripts, and those that stay are not of *)
(* the kinds of one that holds the same mutex.                               *)
LEMMA HeldByOthers ==
  ASSUME BuildAssumption, InOrder, Framed, NEW t, NEW R, NEW f, NEW New, Swap(t, R, {f}, New),
         NEW u \in Thread, NEW h \in On(u), u # t \/ h \in R
  PROVE  /\ f.at \in BuildKinds /\ h.at \in BuildKinds => h.s # f.s
         /\ f.at = "tell" /\ h.at = "tell" => h.s # f.s
         /\ f.at \in {"launched", "unlock"} /\ h.at \in {"launched", "unlock"} => h.s # f.s
         /\ h.at \in BuildKinds \cup {"tell", "launched", "unlock"} => h.s \in Script
<1>1. /\ t \in Thread /\ f \in On(t) /\ \A k \in R : Under(k, f)
  BY DEF Swap
<1>2. Fits(f, t) /\ Fits(h, u)
  BY <1>1 DEF Framed, Structure
<1>3. h.at \in BuildKinds \cup {"tell", "launched", "unlock"} => h.s \in Script
  <2>1. h \in Frame
    BY OnFrames DEF InOrder, Types
  <2> QED BY <2>1, FrameScript DEF BuildKinds
<1>4. CASE u # t
  BY <1>2, <1>3, <1>4 DEF Fits
<1>5. CASE h \in R
  <2>1. Under(h, f) /\ h.at \in CoveredKinds
    BY <1>1, <1>5 DEF Under
  <2> QED BY <1>3, <2>1 DEF Under, CoveredKinds, BuildKinds
<1> QED BY <1>4, <1>5

(* BuildImpl returns.                                                        *)
LEMMA LeaveBuildInHand ==
  ASSUME BuildAssumption, InOrder, InHand, NEW t \in Thread, LeaveBuild(t)
  PROVE  InHand'
<1>a. PICK f, Old, New, R : f = Top(t) /\ Old = {f} /\ New = {} /\ R = Rest(t)
  OBVIOUS
<1>1. PICK where \in {"leave", "deps", "unresolved"} : At(t, where) /\ (where = "deps" => f.todo = {})
  BY <1>a DEF LeaveBuild
<1>2. f \in On(t) /\ f.at = where /\ R \subseteq On(t) /\ Framed /\ Types
  BY <1>a, <1>1, TopKnown DEF InHand, InOrder
<1>3. f.s \in Script
  BY <1>a, <1>1, <1>2, BuildFields
<1>4. Swap(t, R, Old, New) /\ Covered'
  BY <1>a, <1>1, <1>2, ReturnSwaps DEF LeaveBuild, Framed
<1>5. /\ \A s \in Script : s # f.s => buildMutex'[s] = buildMutex[s]
      /\ doneMutex' = doneMutex /\ compMutex' = compMutex
  BY <1>a, <1>2 DEF LeaveBuild, Types, MutexesOK
<1>6. Unmoved /\ calls' = calls /\ compilers' = compilers
  BY DEF LeaveBuild, Unmoved, flags, progress, workspace
<1>7. ASSUME NEW u \in Thread, NEW h \in On(u), u # t \/ h \in R PROVE KeepsHeld(u, h)
  <2>1. f.at \in BuildKinds /\ Swap(t, R, {f}, New)
    BY <1>a, <1>2, <1>4 DEF BuildKinds
  <2>2. /\ h.at \in BuildKinds => h.s # f.s
        /\ h.at \in BuildKinds \cup {"tell", "launched", "unlock"} => h.s \in Script
    BY <1>2, <1>7, <2>1, HeldByOthers
  <2> QED BY <1>5, <2>2 DEF KeepsHeld
<1>8. Framed'
  BY <1>a, <1>2, <1>4, <1>7, FramedStep
<1>9. \A d \in Script, r \in Requester :
         \/ \A at \in ClaimKinds : ClaimsIn(Old, t, at, d, r) <=> ClaimsIn(New, t, at, d, r)
         \/ Settled(d, r)'
  <2>1. \A at, d, r : ~FrameClaims(f, t, at, d, r)
    BY <1>1, <1>2 DEF FrameClaims, AskKinds
  <2> QED BY <1>a, <2>1, ClaimsOfOne
<1>10. /\ \A s \in Script : AtIn(New, "tell", s) <=> AtIn(Old, "tell", s)
       /\ \A s \in Script : \A a \in {"check", "launch", "lock", "last"} :
             AtIn(New, a, s) => AtIn(Old, a, s)
  BY <1>a, <1>2 DEF AtIn
<1>11. \A g \in New : g.at # "start"
  BY <1>a
<1> QED BY <1>4, <1>6, <1>8, <1>9, <1>10, <1>11, InHandQuiet

LEMMA UsesNotItself ==
  ASSUME BuildAssumption
  PROVE  \A s \in Script : s \notin Uses[s] /\ Uses[s] \subseteq Script
<1>1. PICK rank \in Ranking : TRUE
  BY DEF BuildAssumption
<1>2. \A s \in Script : rank[s] \in Nat
  BY <1>1, RankFacts
<1>3. \A s \in Script : \A d \in Uses[s] : rank[d] < rank[s]
  BY <1>1 DEF Ranking
<1> QED BY <1>2, <1>3 DEF BuildAssumption

(* The requests and the flags of one script, s, which a request of r begins  *)
(* to build.                                                                 *)
Begins(s, r) ==
  /\ s \notin beingBuilt /\ SetIsBeingBuiltFor(s, r) /\ pseudoInitiators' = pseudoInitiators
  /\ \A x \in Script : x # s => buildDeps'[x] = buildDeps[x]
  /\ buildCanceled' \subseteq buildCanceled /\ calls' = calls /\ compilers' = compilers
  /\ working' = working /\ stopWorker' = stopWorker /\ busy' = busy

(* Its functions ask for what it uses, or go on by itself.                   *)
BeginsWith(New, t, s) ==
  /\ \A at \in ClaimKinds, d \in Script, q \in Requester :
       ClaimsIn(New, t, at, d, q) <=>
         at = "todo" /\ q = s /\ s \notin Unresolvable /\ d \in buildDeps'[s]
  /\ \E b \in {"lock", "check"} : \A a \in TokenKinds, x \in Script : AtIn(New, a, x) =>
       /\ a = b /\ x = s
       /\ s \in Unresolvable => b = "lock"
       /\ s \notin Unresolvable => buildDeps'[s] = {}
  /\ \A g \in New : g.at # "start"

LEMMA BeginsFlags ==
  ASSUME Types, Flags, NothingCanceled, ProjectsWait, NEW s \in Script, NEW r \in Requester,
         None \notin Requester, Begins(s, r)
  PROVE  Flags' /\ NothingCanceled' /\ Called' = Called
         /\ (CalledOnce => CalledOnce')
<1>1. NothingCanceled' /\ Called' = Called /\ (CalledOnce => CalledOnce')
  BY CallsSame DEF NothingCanceled, Begins
<1>2. /\ beingBuilt' = beingBuilt \cup {s} /\ pseudoInitiators' = pseudoInitiators
      /\ workId'[s] = r /\ initiator'[s] = IF r \in Script THEN r ELSE initiator[s]
      /\ \A x \in Script : x # s => /\ workId'[x] = workId[x] /\ initiator'[x] = initiator[x]
                                    /\ buildDeps'[x] = buildDeps[x]
  BY DEF Begins, SetIsBeingBuiltFor, Types, RequestsOK
<1>3. /\ workId[s] = None /\ initiator[s] = None /\ pseudoInitiators[s] = <<>>
  BY DEF Flags, Begins
<1>4. Elems(<<>>) = {} /\ Distinct(<<>>)
  BY DEF Elems, Distinct
<1>5. Flags'
  <2> SUFFICES ASSUME NEW x \in Script
      PROVE  /\ x \notin beingBuilt' =>
                  /\ workId'[x] = None /\ initiator'[x] = None /\ pseudoInitiators'[x] = <<>>
                  /\ buildDeps'[x] = {}
             /\ x \in beingBuilt' =>
                  /\ workId'[x] # None
                  /\ initiator'[x] = IF workId'[x] \in Script THEN workId'[x] ELSE None
             /\ Distinct(pseudoInitiators'[x]) /\ workId'[x] \notin Elems(pseudoInitiators'[x])
    BY DEF Flags, Distinct, Elems
  <2>1. CASE x = s
    <3>1. pseudoInitiators'[x] = <<>> /\ workId'[x] = r /\ x \in beingBuilt'
      BY <1>2, <1>3, <2>1
    <3>2. initiator'[x] = IF r \in Script THEN r ELSE None
      BY <1>2, <1>3, <2>1
    <3> QED BY <1>4, <3>1, <3>2
  <2>2. CASE x # s
    BY <1>2, <2>2 DEF Flags
  <2> QED BY <2>1, <2>2
<1> QED BY <1>1, <1>5

LEMMA BuildBegins ==
  ASSUME BuildAssumption, InOrder, InHand, Framed',
         NEW t, NEW R, NEW f, NEW Old, Old = {f}, NEW New, Swap(t, R, Old, New),
         f.at \in {"test", "progress"}, NEW s \in Script, f.s = s, NEW r \in Requester, f.for = r, r # s,
         Begins(s, r), BeginsWith(New, t, s)
  PROVE  InHand'
<1>a. PICK T : T = {d \in Script : s \notin Unresolvable /\ d \in buildDeps'[s]}
  OBVIOUS
<1>b. /\ \A d \in Script : d \in T <=> s \notin Unresolvable /\ d \in buildDeps'[s]
      /\ \A at \in ClaimKinds, d \in Script, q \in Requester :
           ClaimsIn(New, t, at, d, q) <=> at = "todo" /\ q = s /\ d \in T
      /\ \A g \in New : g.at # "start"
  BY <1>a DEF BeginsWith
<1>c. PICK b \in {"lock", "check"} : \A a \in TokenKinds, x \in Script : AtIn(New, a, x) =>
        /\ a = b /\ x = s
        /\ s \in Unresolvable => b = "lock"
        /\ s \notin Unresolvable => buildDeps'[s] = {}
  BY DEF BeginsWith
<1>0. /\ Flags /\ NothingCanceled /\ CalledOnce /\ OneToken /\ TokensGoOn /\ Claimed /\ ProjectsWait
      /\ Types /\ Framed /\ t \in Thread /\ None \notin Thread \cup Requester /\ Script \cap Worker = {}
  BY DEF InHand, GoingOn, InOrder, Swap, BuildAssumption
<1>1. /\ Flags' /\ NothingCanceled' /\ Called' = Called /\ CalledOnce'
  BY <1>0, BeginsFlags
<1>2. /\ s \notin beingBuilt /\ beingBuilt' = beingBuilt \cup {s} /\ pseudoInitiators' = pseudoInitiators
      /\ workId'[s] = r /\ \A x \in Script : x # s => workId'[x] = workId[x]
      /\ \A x \in Script : x # s => buildDeps'[x] = buildDeps[x]
      /\ calls' = calls /\ compilers' = compilers /\ working' = working /\ busy' = busy
  BY <1>0 DEF Begins, SetIsBeingBuiltFor, Types, RequestsOK
<1>3. /\ workId[s] = None /\ pseudoInitiators[s] = <<>> /\ buildDeps[s] = {}
      /\ Elems(pseudoInitiators[s]) = {}
  BY <1>0, <1>2 DEF Flags, Elems
<1>4. \A a \in TokenKinds, u \in Thread \cup {None} : ~HasToken(a, s, u)
  BY <1>0, <1>2 DEF TokensGoOn
<1>5. \A a \in {"check", "launch", "lock", "tell", "last"} : \A u \in Thread : ~Here(a, s, u)
  BY <1>3, <1>4 DEF HasToken, TokenKinds
<1>6. \A x \in Script, a \in TokenKinds : ~AtIn(Old, a, x)
  BY DEF AtIn, TokenKinds
<1>7. OneToken' /\ TokensGoOn'
  <2>1. ASSUME NEW x \in Script, x # s
        PROVE  \A u \in Thread \cup {None} : \A a \in TokenKinds : HasToken(a, x, u)' => HasToken(a, x, u)
    <3>1. \A a \in {"check", "launch", "lock", "tell", "last"} : ~AtIn(New, a, x)
      BY <1>c, <2>1 DEF TokenKinds
    <3> QED BY <1>1, <1>2, <2>1, <3>1, TokensWithSwap
  <2>2. ASSUME NEW u \in Thread \cup {None}, NEW a \in TokenKinds, HasToken(a, s, u)'
        PROVE  /\ a = b /\ u = t /\ s \in beingBuilt'
               /\ s \in Unresolvable => b \in {"lock", "tell"}
               /\ s \notin Unresolvable => buildDeps'[s] = {}
    <3>1. s \notin compilers /\ CompileFinished(s) \notin Called /\ BuildSelfThread(s) \notin Called
      BY <1>4 DEF HasToken, TokenKinds
    <3>2. a \in {"check", "launch", "lock", "tell", "last"} /\ u \in Thread /\ Here(a, s, u)'
      BY <1>1, <1>2, <2>2, <3>1 DEF HasToken
    <3>3. u = t
      BY <1>5, <3>2, HereMoves
    <3>4. AtIn(New, a, s)
      BY <1>5, <3>2, <3>3, HereMoves
    <3> QED BY <1>c, <1>2, <2>2, <3>3, <3>4
  <2>3. b \in TokenKinds /\ t \in Thread \cup {None}
    BY <1>0 DEF TokenKinds
  <2>4. \A x \in beingBuilt \ {s} : x \in beingBuilt' /\ (buildDeps[x] = {} => buildDeps'[x] = {})
    BY <1>0, <1>2 DEF Types, FlagsOK
  <2>5. \A x \in Script \ {s} : \A u \in Thread \cup {None} : \A a \in TokenKinds :
          HasToken(a, x, u)' => HasToken(a, x, u)
    BY <2>1
  <2>6. \A u \in Thread \cup {None} : \A a \in TokenKinds : HasToken(a, s, u)' =>
          /\ a = b /\ u = t /\ s \in beingBuilt'
          /\ s \in Unresolvable => b \in {"lock", "tell"}
          /\ s \notin Unresolvable => buildDeps'[s] = {}
    BY <2>2
  <2>7. OneToken /\ TokensGoOn
    BY <1>0
  <2> QED BY ONLY <2>3, <2>4, <2>5, <2>6, <2>7, TokenStep, s \in Script
<1>8. ASSUME NEW d \in Script PROVE Doing("tell", d)' <=> Doing("tell", d)
  <2>1. ~AtIn(Old, "tell", d) /\ ~AtIn(New, "tell", d)
    BY <1>c, <1>6 DEF TokenKinds
  <2> QED BY <2>1, HereKept
<1>9. Claimed'
  <2>1. ASSUME NEW d \in Script, NEW q \in Requester PROVE SameClaims(d, q) \/ Settled(d, q)'
    <3>1. Posted(d, q)' <=> Posted(d, q)
      BY <1>2, CallsSame
    <3>2. d # s => (Notes(d, q)' <=> Notes(d, q))
      BY <1>2, <1>8 DEF Notes
    <3>3. q # s => (Expects(q, d)' <=> Expects(q, d))
      BY <1>0, <1>2 DEF Expects, Requester
    <3>4. CASE q = s
      <4>1. ~Expects(s, d)
        BY <1>2 DEF Expects
      <4>2. \A a \in ClaimKinds : ~HasClaim(a, d, q)
        BY <1>0, <3>4, <4>1, NoClaimUnexpected
      <4>3. ~Notes(d, q) /\ ~Posted(d, q) /\ \A a \in ClaimKinds : ~InFrames(a, d, q)
        BY <4>2 DEF HasClaim, ClaimKinds
      <4>4. ~Notes(d, q)'
        <5>1. CASE d = s
          BY <1>2, <1>3, <3>4, <5>1 DEF Notes
        <5> QED BY <3>2, <4>3, <5>1
      <4>5. \A a \in ClaimKinds : InFrames(a, d, q)' <=> a = "todo" /\ d \in T
        BY <1>b, <3>4, <4>3, ClaimsMove
      <4>6. \A a \in ClaimKinds : HasClaim(a, d, q)' <=> a = "todo" /\ d \in T
        BY <3>1, <4>3, <4>4, <4>5 DEF HasClaim
      <4>7. Expects(q, d)' <=> d \in T
        BY <1>b, <1>2, <3>4 DEF Expects
      <4>8. "todo" \in ClaimKinds
        BY DEF ClaimKinds
      <4> QED BY <4>6, <4>7, <4>8, SettledAt, SettledNot
    <3>5. CASE d = s /\ q = r
      <4>1. /\ ClaimsIn(Old, t, "ask", d, q) /\ "ask" \in ClaimKinds /\ "noted" \in ClaimKinds
        BY <3>5 DEF ClaimsIn, FrameClaims, AskKinds, ClaimKinds
      <4>2. \A at \in ClaimKinds : ~ClaimsIn(New, t, at, d, q)
        BY <1>b, <3>5
      <4>3. ~Doing("tell", d)
        BY <1>5, <3>5 DEF Doing
      <4>4. Notes(d, q)'
        BY <1>2, <1>8, <3>5, <4>3 DEF Notes
      <4>5. ~Posted(d, q)'
        BY <1>0, <3>1, <4>1, OnlyClaim DEF Claimed
      <4>6. Expects(q, d)' <=> Expects(q, d)
        BY <3>3, <3>5
      <4> QED BY <1>0, <4>1, <4>2, <4>4, <4>5, <4>6, ClaimMoves
    <3>6. CASE q # s /\ ~(d = s /\ q = r)
      <4>1. Notes(d, q)' <=> Notes(d, q)
        <5>1. CASE d = s
          BY <1>0, <1>2, <1>3, <3>6, <5>1 DEF Notes
        <5> QED BY <3>2, <5>1
      <4>2. \A at \in ClaimKinds : ClaimsIn(Old, t, at, d, q) <=> ClaimsIn(New, t, at, d, q)
        <5>1. \A at \in ClaimKinds : ~ClaimsIn(New, t, at, d, q)
          BY <1>b, <3>6
        <5>2. \A at \in ClaimKinds : ~ClaimsIn(Old, t, at, d, q)
          BY <3>6 DEF ClaimsIn, FrameClaims
        <5> QED BY <5>1, <5>2
      <4> QED BY <3>1, <3>3, <3>6, <4>1, <4>2, ClaimsSame
    <3> QED BY <3>4, <3>5, <3>6
  <2> QED BY <1>0, <2>1, ClaimedStep
<1>10. ProjectsWait'
  BY <1>b, <1>0, <1>2, StartingMoves DEF ProjectsWait
<1> QED BY <1>1, <1>7, <1>9, <1>10 DEF InHand, GoingOn

LEMMA EnterSwaps ==
  ASSUME BuildAssumption, InOrder, Covered, NEW t \in Thread, NEW here, At(t, here), NEW where,
         NEW f \in Frame, NEW g \in Frame, g = [Top(t) EXCEPT !.at = where],
         g.at \in CoveredKinds, Enter(t, f, where)
  PROVE  Swap(t, Rest(t), {Top(t)}, {f, g}) /\ Covered'
<1>1. stack' = [stack EXCEPT ![t] = <<f, g>> \o Tail(stack[t])]
  BY DEF Enter, Top, InOrder, Types, Stacks
<1> QED BY <1>1, CallSwaps

LEMMA NewKinds ==
  /\ \A s, ok, pid : LET f == SetBuildCompleted(s, ok, pid) IN
       f.at = "lock" /\ f.s = s /\ f.ok = ok /\ f.pid = pid
  /\ \A s : BuildSelf(s).at = "check" /\ BuildSelf(s).s = s
  /\ \A s, r : LET f == BuildImpl(s, r) IN f.at = "enter" /\ f.s = s /\ f.for = r
  /\ \A s, d, ok, pid : LET f == SetInitiatedBuildIsCompleted(s, d, ok, pid) IN
       f.at = "erase" /\ f.s = s /\ f.dep = d /\ f.ok = ok /\ f.pid = pid
BY DEF SetBuildCompleted, BuildSelf, BuildImpl, SetInitiatedBuildIsCompleted

(* The build of a script begins with its completion or with its compilation. *)
LEMMA BuildBeginsAt ==
  ASSUME BuildAssumption, InOrder, InHand, NEW t \in Thread, NEW here \in {"test", "progress"},
         At(t, here), NEW s \in Script, s = Top(t).s, Begins(s, Top(t).for),
         NEW k \in Frame, k.at \in {"lock", "check"}, k.s = s,
         k.at = "lock" => k.pid = None,
         NEW where \in {"leave", "unresolved"}, where = "unresolved" => s \in Unresolvable,
         Enter(t, k, where), mutexes' = mutexes,
         IF s \in Unresolvable THEN k.at = "lock" ELSE buildDeps'[s] = {}
  PROVE  InHand'
<1>a. PICK f, g, Old, New, R, r : /\ f = Top(t) /\ g = [f EXCEPT !.at = where] /\ Old = {f} /\ New = {k, g}
                                  /\ R = Rest(t) /\ r = f.for
  OBVIOUS
<1>1. /\ Types /\ Framed /\ f \in On(t) /\ f \in Frame /\ f.at = here /\ R \subseteq On(t)
      /\ Fits(f, t) /\ FrameUses(f)
  BY <1>a, TopKnown DEF InHand, InOrder
<1>2. f \in BuildFrame /\ r \in Requester
  BY <1>a, <1>1, BuildFields
<1>3. g \in Frame /\ g.at = where /\ g.s = s /\ g.at \in CoveredKinds
  BY <1>a, <1>2 DEF BuildFrame, Frame, CoveredKinds
<1>4. Swap(t, R, Old, New) /\ Covered'
  BY <1>a, <1>1, <1>3, EnterSwaps DEF Framed
<1>5. r # s
  BY <1>1, <1>a, UsesNotItself DEF FrameUses
<1>6. \A x \in New : Fits(x, t)' /\ Sound(x)
  <2>1. Fits(k, t)' /\ Sound(k)
    BY DEF Fits, Sound, CancelKinds, BuildKinds, AskKinds
  <2>2. buildMutex'[s] = t
    BY <1>a, <1>1 DEF Fits, BuildKinds, mutexes
  <2>3. Fits(g, t)' /\ Sound(g)
    BY <1>3, <2>2 DEF Fits, Sound, CancelKinds, BuildKinds, AskKinds
  <2> QED BY <1>a, <2>1, <2>3
<1>7. \A x \in New : x.at \notin {"start", "tell", "erase", "last"}
  BY <1>a, <1>3
<1>8. Framed'
  BY <1>1, <1>4, <1>6, <1>7, KeepsAllHeld, FramedStep
<1>11. \A at \in ClaimKinds, d \in Script, q \in Requester :
         ClaimsIn(New, t, at, d, q) <=>
           at = "todo" /\ q = s /\ s \notin Unresolvable /\ d \in buildDeps'[s]
  <2>1. \A at, d, q : ~FrameClaims(k, t, at, d, q) /\ ~FrameClaims(g, t, at, d, q)
    BY <1>3, NoClaims DEF AskKinds
  <2>2. \A at, d, q : ~ClaimsIn(New, t, at, d, q)
    <3>1. New = {k, g}
      BY <1>a
    <3> QED BY ONLY <2>1, <3>1 DEF ClaimsIn
  <2>3. s \notin Unresolvable => buildDeps'[s] = {}
    OBVIOUS
  <2> QED BY ONLY <2>2, <2>3
<1>13. \E b \in {"lock", "check"} : \A a \in TokenKinds, x \in Script : AtIn(New, a, x) =>
         /\ a = b /\ x = s
         /\ s \in Unresolvable => b = "lock"
         /\ s \notin Unresolvable => buildDeps'[s] = {}
  <2>1. \A a \in TokenKinds, x \in Script : AtIn(New, a, x) => a = k.at /\ x = k.s
    BY <1>a, <1>3 DEF AtIn, TokenKinds
  <2> QED BY <2>1
<1>14. /\ f.at \in {"test", "progress"} /\ f.s = s /\ f.for = r /\ Begins(s, r) /\ Old = {f}
       /\ \A x \in New : x.at # "start"
  BY <1>a, <1>1, <1>7
<1>15. BeginsWith(New, t, s)
  BY <1>11, <1>13, <1>14 DEF BeginsWith
<1> QED BY <1>2, <1>4, <1>5, <1>8, <1>14, <1>15, BuildBegins

LEMMA TestUpToDateInHand ==
  ASSUME BuildAssumption, InOrder, InHand, NEW t \in Thread, TestUpToDate(t), ~spoilt'
  PROVE  InHand'
<1>1. Types /\ At(t, "test") /\ Top(t).s \in Script /\ Top(t).for \in Requester
  BY BuildFields DEF InOrder, TestUpToDate
<1>2. /\ mutexes' = mutexes /\ calls' = calls /\ compilers' = compilers
      /\ pseudoInitiators' = pseudoInitiators /\ buildDeps' = buildDeps
      /\ buildCanceled' = buildCanceled /\ working' = working /\ stopWorker' = stopWorker
      /\ session' = session /\ busy' = busy
  BY DEF TestUpToDate, progress
<1>3. Fits(Top(t), t) /\ Top(t).at = "test"
  BY <1>1, TopKnown
<1>4. buildMutex'[Top(t).s] = t
  BY <1>2, <1>3 DEF Fits, BuildKinds, mutexes
<1>5. CASE Top(t).s \in upToDate
  <2>1. /\ SetIsBeingBuiltFor(Top(t).s, Top(t).for)
        /\ Enter(t, SetBuildCompleted(Top(t).s, TRUE, None), "leave")
    BY <1>5 DEF TestUpToDate
  <2>2. Top(t).s \notin beingBuilt
    BY <1>5 DEF TestUpToDate
  <2>3. buildDeps'[Top(t).s] = {}
    BY <1>1, <1>2, <2>2 DEF InHand, Flags
  <2>4. Begins(Top(t).s, Top(t).for)
    BY <1>2, <2>1, <2>2 DEF Begins
  <2>5. PICK k : k = SetBuildCompleted(Top(t).s, TRUE, None)
    OBVIOUS
  <2>6. k \in Frame /\ k.at = "lock" /\ k.s = Top(t).s /\ k.pid = None
    <3>1. k \in Frame
      BY <1>1, <2>5, NewFrames
    <3> QED BY <2>5, <3>1 DEF SetBuildCompleted
  <2>7. Enter(t, k, "leave")
    BY <2>1, <2>5
  <2> QED BY <1>1, <1>2, <2>3, <2>4, <2>6, <2>7, BuildBeginsAt
<1>6. CASE Top(t).s \notin upToDate
  <2>1. GoTo(t, "progress") /\ Unmoved
    BY <1>2, <1>6 DEF TestUpToDate, Unmoved, requests
  <2> QED BY <1>1, <1>2, <1>4, <2>1, AskGoesOn DEF mutexes
<1> QED BY <1>5, <1>6

LEMMA KindClaims ==
  ASSUME NEW f, NEW t, NEW at, NEW d, NEW r
  PROVE  /\ f.at = "deps" => (FrameClaims(f, t, at, d, r) <=> at = "todo" /\ f.s = r /\ d \in f.todo)
         /\ f.at = "work" =>
              (FrameClaims(f, t, at, d, r) <=> at = "todo" /\ t = r /\ d \in Elems(f.children))
         /\ f.at = "tell" => (FrameClaims(f, t, at, d, r) <=>
              at = "tell" /\ f.s = d /\ \E i \in DOMAIN f.tell : f.tell[i][1] = r)
         /\ f.at = "erase" => (FrameClaims(f, t, at, d, r) <=> at = "erase" /\ f.s = r /\ f.dep = d)
         /\ f.at = "enter" => (FrameClaims(f, t, at, d, r) <=> at = "ask" /\ f.s = d /\ f.for = r)
BY DEF FrameClaims, AskKinds

LEMMA StartBuildInHand ==
  ASSUME BuildAssumption, InOrder, InHand, NEW t \in Thread, StartBuild(t)
  PROVE  InHand'
<1>a. PICK f, s, r : f = Top(t) /\ s = f.s /\ r = f.for
  OBVIOUS
<1>1. /\ Types /\ At(t, "progress") /\ s \in Script /\ r \in Requester /\ f \in BuildFrame
      /\ s \notin beingBuilt /\ Uses[s] \subseteq Script /\ Framed
  BY <1>a, BuildFields DEF InOrder, StartBuild, BuildAssumption, InHand
<1>2. /\ f.at = "progress" /\ Fits(f, t) /\ FrameUses(f) /\ f \in Frame /\ f \in On(t) /\ Rest(t) \subseteq On(t)
  BY <1>a, <1>1, TopKnown
<1>3. /\ SetIsBeingBuiltFor(s, r) /\ pseudoInitiators' = pseudoInitiators
      /\ buildDeps' = [buildDeps EXCEPT ![s] = Uses[s]] /\ buildCanceled' = buildCanceled \ {s}
      /\ calls' = calls /\ compilers' = compilers /\ workspace' = workspace /\ mutexes' = mutexes
  BY <1>a DEF StartBuild
<1>4. buildDeps'[s] = Uses[s] /\ \A x \in Script : x # s => buildDeps'[x] = buildDeps[x]
  BY <1>1, <1>3 DEF Types, ProgressOK
<1>5. Begins(s, r)
  BY <1>1, <1>3, <1>4 DEF Begins, workspace
<1>6. CASE s \in Unresolvable
  <2>1. PICK k : k = SetBuildCompleted(s, FALSE, None)
    OBVIOUS
  <2>2. k \in Frame
    BY <1>1, <2>1, NewFrames
  <2>3. k.at = "lock" /\ k.s = s /\ k.pid = None
    BY <2>1 DEF SetBuildCompleted
  <2>4. Enter(t, k, "unresolved")
    BY <1>6, <1>a, <2>1 DEF StartBuild
  <2> QED BY <1>a, <1>1, <1>3, <1>5, <1>6, <2>2, <2>3, <2>4, BuildBeginsAt
<1>7. CASE s \notin Unresolvable /\ Uses[s] = {}
  <2>1. PICK k : k = BuildSelf(s)
    OBVIOUS
  <2>2. k \in Frame
    BY <1>1, <2>1, NewFrames
  <2>3. k.at = "check" /\ k.s = s
    BY <2>1 DEF BuildSelf
  <2>4. Enter(t, k, "leave")
    BY <1>7, <1>a, <2>1 DEF StartBuild
  <2> QED BY <1>a, <1>1, <1>3, <1>4, <1>5, <1>7, <2>2, <2>3, <2>4, BuildBeginsAt
<1>8. CASE s \notin Unresolvable /\ Uses[s] # {}
  <2>a. PICK g, Old, New, R : /\ g = [f EXCEPT !.at = "deps", !.todo = Uses[s]]
                              /\ Old = {f} /\ New = {g} /\ R = Rest(t)
    OBVIOUS
  <2>1. /\ g \in BuildFrame /\ g.at = "deps" /\ g.s = s /\ g.for = r /\ g.todo = Uses[s]
        /\ g \in Frame
    BY <1>1, <1>a, <2>a DEF BuildFrame, Frame
  <2>2. stack[t] \in Seq(Frame) /\ stack[t] # <<>>
    BY <1>1, TopIsFrame DEF Types
  <2>3. stack' = [stack EXCEPT ![t] = [stack[t] EXCEPT ![1] = g]]
    BY <1>8, <1>a, <2>a, <2>2, <1>1 DEF StartBuild, Top, Types, Stacks
  <2>4. Become(t, g)
    BY <1>1, <2>1, <2>3, TopIsBecome DEF Types
  <2>5. Swap(t, R, Old, New) /\ Covered'
    BY <1>1, <1>a, <2>1, <2>4, <2>a, BecomeSwaps DEF Framed
  <2>6. Fits(g, t)' /\ Sound(g)
    <3>1. buildMutex'[g.s] = t
      BY <1>2, <1>3, <1>a, <2>1 DEF Fits, BuildKinds, mutexes
    <3> QED BY <1>8, <2>1, <3>1 DEF Fits, Sound, CancelKinds, AskKinds, BuildKinds
  <2>7. \A x \in New : Fits(x, t)' /\ Sound(x) /\ x.at \notin {"start", "tell", "erase", "last"}
    BY <2>a, <2>1, <2>6
  <2>8. Framed'
    BY <1>1, <1>3, <2>5, <2>7, FramedKept
  <2>9. BeginsWith(New, t, s)
    <3>1. \A at \in ClaimKinds, d \in Script, q \in Requester :
            ClaimsIn(New, t, at, d, q) <=>
              at = "todo" /\ q = s /\ s \notin Unresolvable /\ d \in buildDeps'[s]
      <4>1. ASSUME NEW at \in ClaimKinds, NEW d \in Script, NEW q \in Requester
            PROVE  FrameClaims(g, t, at, d, q) <=> at = "todo" /\ q = s /\ d \in buildDeps'[s]
        BY <1>4, <2>1, KindClaims
      <4> QED BY <1>8, <2>a, <4>1 DEF ClaimsIn
    <3>2. \A a \in TokenKinds, x \in Script : ~AtIn(New, a, x)
      BY <2>a, <2>1 DEF AtIn, TokenKinds
    <3> QED BY <2>7, <3>1, <3>2 DEF BeginsWith
  <2>10. r # s
    BY <1>1, <1>2, <1>a, UsesNotItself DEF FrameUses
  <2>11. f.at \in {"test", "progress"} /\ f.s = s /\ f.for = r
    BY <1>2, <1>a
  <2> QED BY <1>1, <1>5, <2>5, <2>8, <2>9, <2>10, <2>11, <2>a, BuildBegins
<1> QED BY <1>6, <1>7, <1>8

(* Who asks for a script that is being built is noted.                       *)
LEMMA AddBuildPseudoInitiatorInHand ==
  ASSUME BuildAssumption, InOrder, InHand, NEW t \in Thread, AddBuildPseudoInitiator(t)
  PROVE  InHand'
<1>a. PICK f, s, r : f = Top(t) /\ s = f.s /\ r = f.for
  OBVIOUS
<1>b. PICK g, Old, New, R : g = [f EXCEPT !.at = "leave"] /\ Old = {f} /\ New = {g} /\ R = Rest(t)
  OBVIOUS
<1>0. /\ Flags /\ NothingCanceled /\ CalledOnce /\ OneToken /\ TokensGoOn /\ Claimed /\ ProjectsWait
      /\ Types /\ Framed /\ None \notin Thread \cup Requester
  BY DEF InHand, GoingOn, InOrder, BuildAssumption
<1>1. /\ At(t, "progress") /\ s \in Script /\ r \in Requester /\ f \in BuildFrame
      /\ s \in beingBuilt /\ doneMutex[s] = None
  BY <1>0, <1>a, BuildFields DEF AddBuildPseudoInitiator
<1>2. f.at = "progress" /\ Fits(f, t) /\ f \in Frame
  BY <1>a, <1>1, TopKnown
<1>3. /\ pseudoInitiators' = [pseudoInitiators EXCEPT ![s] = Append(pseudoInitiators[s], r)]
      /\ calls' = calls /\ compilers' = compilers /\ flags' = flags /\ workId' = workId
      /\ initiator' = initiator /\ progress' = progress /\ mutexes' = mutexes
      /\ workspace' = workspace /\ GoTo(t, "leave")
  BY <1>a, <1>0 DEF AddBuildPseudoInitiator, Types, RequestsOK
<1>4. /\ g \in Frame /\ g.at = "leave" /\ g.s = s
  BY <1>a, <1>1, <1>b DEF BuildFrame, Frame
<1>5. Swap(t, R, Old, New) /\ Covered'
  BY <1>0, <1>1, <1>3, <1>4, <1>a, <1>b, GoToSwaps DEF Framed
<1>6. Framed'
  <2>1. buildMutex'[s] = t
    BY <1>2, <1>3, <1>a DEF Fits, BuildKinds, mutexes
  <2>2. Fits(g, t)' /\ Sound(g)
    BY <1>4, <2>1 DEF Fits, Sound, CancelKinds, AskKinds, BuildKinds
  <2>3. \A x \in New : Fits(x, t)' /\ Sound(x) /\ x.at \notin {"erase", "last"}
    BY <1>4, <1>b, <2>2
  <2> QED BY <1>0, <1>3, <1>5, <2>3, FramedKept
<1>7. ~Doing("tell", s)
  <2>1. ASSUME NEW u \in Thread, NEW h \in On(u), h.at = "tell", h.s = s PROVE FALSE
    BY <1>0, <1>1, <2>1 DEF Framed, Structure, Fits
  <2> QED BY <2>1 DEF Doing, Here
<1>8. \A d \in Script : Doing("tell", d)' <=> Doing("tell", d)
  <2>1. \A d \in Script : ~AtIn(Old, "tell", d) /\ ~AtIn(New, "tell", d)
    BY <1>2, <1>4, <1>b DEF AtIn
  <2> QED BY <1>5, <2>1, HereKept
<1>9. ClaimsIn(Old, t, "ask", s, r) /\ "ask" \in ClaimKinds /\ "noted" \in ClaimKinds
  BY <1>2, <1>a, <1>b DEF ClaimsIn, FrameClaims, AskKinds, ClaimKinds
<1>10. ~Notes(s, r) /\ ~Posted(s, r)
  BY <1>0, <1>1, <1>5, <1>9, OnlyClaim DEF Claimed
<1>11. workId[s] # r /\ r \notin Elems(pseudoInitiators[s])
  BY <1>7, <1>10 DEF Notes
<1>12. /\ pseudoInitiators[s] \in Seq(Requester)
       /\ pseudoInitiators'[s] = Append(pseudoInitiators[s], r)
       /\ \A x \in Script : x # s => pseudoInitiators'[x] = pseudoInitiators[x]
  BY <1>0, <1>1, <1>3 DEF Types, RequestsOK
<1>13. Elems(pseudoInitiators'[s]) = Elems(pseudoInitiators[s]) \cup {r}
  BY <1>1, <1>12, ElemsAppend
<1>14. Flags'
  <2>1. Distinct(pseudoInitiators'[s])
    <3> DEFINE list == pseudoInitiators[s]
               new  == Append(list, r)
    <3>1. Distinct(list)
      BY <1>0, <1>1 DEF Flags
    <3>2. /\ Len(list) \in Nat /\ DOMAIN list = 1..Len(list) /\ DOMAIN new = 1..Len(list) + 1
          /\ new[Len(list) + 1] = r
          /\ \A i \in DOMAIN list : new[i] = list[i] /\ new[i] # r
      BY <1>1, <1>11, <1>12 DEF Elems
    <3> HIDE DEF list, new
    <3>3. \A i, j \in DOMAIN new : new[i] = new[j] => i = j
      <4>1. \A i \in DOMAIN new : i \in DOMAIN list \/ i = Len(list) + 1
        BY <3>2
      <4> QED BY <3>1, <3>2, <4>1 DEF Distinct
    <3>4. pseudoInitiators'[s] = new
      BY <1>12 DEF new, list
    <3> QED BY <3>3, <3>4 DEF Distinct
  <2> SUFFICES ASSUME NEW x \in Script
      PROVE  /\ x \notin beingBuilt' =>
                  /\ workId'[x] = None /\ initiator'[x] = None /\ pseudoInitiators'[x] = <<>>
                  /\ buildDeps'[x] = {}
             /\ x \in beingBuilt' =>
                  /\ workId'[x] # None
                  /\ initiator'[x] = IF workId'[x] \in Script THEN workId'[x] ELSE None
             /\ Distinct(pseudoInitiators'[x]) /\ workId'[x] \notin Elems(pseudoInitiators'[x])
    BY DEF Flags, Distinct, Elems
  <2>2. CASE x = s
    <3>1. workId'[s] \notin Elems(pseudoInitiators'[s])
      BY <1>0, <1>1, <1>3, <1>11, <1>13 DEF Flags
    <3> QED BY <1>0, <1>1, <1>3, <2>1, <2>2, <3>1 DEF Flags, flags, progress
  <2>3. CASE x # s
    BY <1>0, <1>3, <1>12, <2>3 DEF Flags, flags, progress
  <2> QED BY <2>2, <2>3
<1>15. CalledOnce' /\ Called' = Called
  BY <1>0, <1>3, CallsSame
<1>16. OneToken' /\ TokensGoOn'
  <2>1. ASSUME NEW x \in Script
        PROVE  \A u \in Thread \cup {None} : \A a \in TokenKinds : HasToken(a, x, u)' => HasToken(a, x, u)
    <3>1. \A a \in {"check", "launch", "lock", "tell", "last"} : ~AtIn(New, a, x)
      BY <1>4, <1>b DEF AtIn
    <3> QED BY <1>3, <1>5, <1>15, <3>1, TokensWithSwap DEF progress
  <2> QED BY <1>0, <1>3, <2>1, TokensKept DEF flags, progress
<1>17. Claimed'
  <2>1. ASSUME NEW d \in Script, NEW q \in Requester PROVE SameClaims(d, q) \/ Settled(d, q)'
    <3>1. Posted(d, q)' <=> Posted(d, q)
      BY <1>3, CallsSame
    <3>2. Expects(q, d)' <=> Expects(q, d)
      BY <1>3 DEF Expects, flags, progress, workspace
    <3>3. \A at \in ClaimKinds : ~ClaimsIn(New, t, at, d, q)
      BY <1>4, <1>b DEF ClaimsIn, FrameClaims, AskKinds
    <3>4. CASE d = s /\ q = r
      <4>1. Notes(d, q)'
        BY <1>7, <1>8, <1>13, <3>4 DEF Notes
      <4>2. ~Posted(d, q)'
        BY <1>10, <3>1, <3>4
      <4> QED BY <1>0, <1>5, <1>9, <3>2, <3>3, <3>4, <4>1, <4>2, ClaimMoves
    <3>5. CASE ~(d = s /\ q = r)
      <4>1. \A at \in ClaimKinds : ~ClaimsIn(Old, t, at, d, q)
        <5>1. f.at \in AskKinds
          BY <1>2 DEF AskKinds
        <5>2. \A at : ~FrameClaims(f, t, at, d, q)
          BY <1>a, <3>5, <5>1, AskClaims
        <5> QED BY <1>b, <5>2 DEF ClaimsIn
      <4>2. Notes(d, q)' <=> Notes(d, q)
        <5>1. q \in Elems(pseudoInitiators'[d]) <=> q \in Elems(pseudoInitiators[d])
          BY <1>12, <1>13, <3>5
        <5> QED BY <1>3, <1>8, <5>1 DEF Notes
      <4> QED BY <1>5, <3>1, <3>2, <3>3, <4>1, <4>2, ClaimsSame
    <3> QED BY <3>4, <3>5
  <2> QED BY <1>0, <2>1, ClaimedStep
<1>18. ProjectsWait'
  <2>1. \A x \in New : x.at # "start"
    BY <1>4, <1>b
  <2> QED BY <1>0, <1>3, <1>5, <2>1, StartingMoves DEF ProjectsWait, workspace
<1>19. NothingCanceled'
  BY <1>0, <1>3 DEF NothingCanceled, flags, workspace
<1> QED BY <1>6, <1>14, <1>15, <1>16, <1>17, <1>18, <1>19 DEF InHand, GoingOn

LEMMA BuildDependencyInHand ==
  ASSUME BuildAssumption, InOrder, InHand, NEW t \in Thread, BuildDependency(t)
  PROVE  InHand'
<1>0. Types /\ Framed /\ Claimed
  BY DEF InHand, InOrder
<1>a. PICK f, s : f = Top(t) /\ s = f.s
  OBVIOUS
<1>1. /\ At(t, "deps") /\ s \in Script /\ f \in BuildFrame /\ f.todo \subseteq Script
  BY <1>0, <1>a, BuildFields DEF BuildDependency
<1>b. PICK d \in f.todo :
        stack' = [stack EXCEPT ![t] = <<BuildImpl(d, s), [f EXCEPT !.todo = @ \ {d}]>> \o Tail(stack[t])]
  BY <1>0, <1>a DEF BuildDependency, Types, Stacks
<1>c. PICK k, g, Old, New, R : /\ k = BuildImpl(d, s) /\ g = [f EXCEPT !.todo = @ \ {d}]
                               /\ Old = {f} /\ New = {k, g} /\ R = Rest(t)
  OBVIOUS
<1>2. f.at = "deps" /\ Fits(f, t) /\ Sound(f) /\ f \in Frame
  BY <1>a, <1>1, TopKnown
<1>3. /\ calls' = calls /\ compilers' = compilers /\ Unmoved /\ mutexes' = mutexes
  BY DEF BuildDependency, Unmoved, flags, progress, workspace
<1>4. d \in Script /\ s \in Requester /\ s \in Script
  BY <1>1 DEF Requester
<1>5. /\ k \in Frame /\ k.at = "enter" /\ k.s = d /\ k.for = s
  <2>1. k \in Frame
    BY <1>4, <1>c, NewFrames
  <2> QED BY <1>c, <2>1 DEF BuildImpl
<1>6. g \in Frame /\ g.at = "deps" /\ g.s = s /\ g.todo = f.todo \ {d} /\ g.at \in CoveredKinds
  BY <1>1, <1>2, <1>a, <1>c DEF BuildFrame, Frame, CoveredKinds
<1>7. Swap(t, R, Old, New) /\ Covered'
  <2>1. stack' = [stack EXCEPT ![t] = <<k, g>> \o Tail(stack[t])]
    BY <1>b, <1>c
  <2> QED BY <1>0, <1>1, <1>5, <1>6, <1>a, <1>c, <2>1, CallSwaps DEF Framed
<1>8. Framed'
  <2>1. buildMutex'[s] = t
    BY <1>2, <1>3, <1>a DEF Fits, BuildKinds, mutexes
  <2>2. Fits(g, t)' /\ Sound(g)
    BY <1>2, <1>6, <1>a, <2>1 DEF Fits, Sound, CancelKinds, AskKinds, BuildKinds
  <2>3. g \in On(t)'
    BY <1>7, <1>c DEF Swap
  <2>4. Fits(k, t)' /\ Sound(k)
    BY <1>4, <1>5, <1>6, <2>3 DEF Fits, Sound, CancelKinds, AskKinds, BuildKinds
  <2>5. \A x \in New : Fits(x, t)' /\ Sound(x) /\ x.at \notin {"erase", "last"}
    BY <1>5, <1>6, <1>c, <2>2, <2>4
  <2> QED BY <1>0, <1>3, <1>7, <2>5, FramedKept
<1>9. ASSUME NEW e \in Script, NEW q \in Requester
      PROVE  \/ \A at \in ClaimKinds : ClaimsIn(Old, t, at, e, q) <=> ClaimsIn(New, t, at, e, q)
             \/ Settled(e, q)'
  <2>1. \A at : /\ ClaimsIn(Old, t, at, e, q) <=> at = "todo" /\ s = q /\ e \in f.todo
                /\ ClaimsIn(New, t, at, e, q) <=>
                     (at = "ask" /\ d = e /\ s = q) \/ (at = "todo" /\ s = q /\ e \in f.todo \ {d})
    <3> SUFFICES ASSUME NEW at
        PROVE   /\ ClaimsIn(Old, t, at, e, q) <=> at = "todo" /\ s = q /\ e \in f.todo
                /\ ClaimsIn(New, t, at, e, q) <=>
                     (at = "ask" /\ d = e /\ s = q) \/ (at = "todo" /\ s = q /\ e \in f.todo \ {d})
      OBVIOUS
    <3>1. FrameClaims(f, t, at, e, q) <=> at = "todo" /\ s = q /\ e \in f.todo
      BY <1>2, <1>a, KindClaims
    <3>2. FrameClaims(g, t, at, e, q) <=> at = "todo" /\ s = q /\ e \in f.todo \ {d}
      BY <1>6, KindClaims
    <3>3. FrameClaims(k, t, at, e, q) <=> at = "ask" /\ d = e /\ s = q
      BY <1>5, KindClaims
    <3> QED BY <1>c, <3>1, <3>2, <3>3 DEF ClaimsIn
  <2>2. CASE e = d /\ q = s
    <3>1. /\ ClaimsIn(Old, t, "todo", e, q) /\ "todo" \in ClaimKinds /\ "ask" \in ClaimKinds
          /\ ClaimsIn(New, t, "ask", e, q) /\ \A at \in ClaimKinds : ClaimsIn(New, t, at, e, q) => at = "ask"
      BY <2>1, <2>2 DEF ClaimKinds
    <3>2. ~Notes(e, q) /\ ~Posted(e, q)
      BY <1>0, <1>7, <1>c, <3>1, OnlyClaim DEF Claimed
    <3>3. Doing("tell", e)' <=> Doing("tell", e)
      <4>1. ~AtIn(Old, "tell", e) /\ ~AtIn(New, "tell", e)
        BY <1>2, <1>5, <1>6, <1>c DEF AtIn
      <4> QED BY <1>7, <4>1, HereKept
    <3>4. ~Notes(e, q)' /\ ~Posted(e, q)' /\ (Expects(q, e)' <=> Expects(q, e))
      BY <1>3, <3>2, <3>3, UnmovedKeeps, CallsSame
    <3> QED BY <1>0, <1>7, <3>1, <3>4, ClaimMoves
  <2>3. CASE ~(e = d /\ q = s)
    BY <2>1, <2>3
  <2> QED BY <2>2, <2>3
<1>10. /\ \A x \in Script : AtIn(New, "tell", x) <=> AtIn(Old, "tell", x)
       /\ \A x \in Script : \A a \in {"check", "launch", "lock", "last"} :
             AtIn(New, a, x) => AtIn(Old, a, x)
       /\ \A x \in New : x.at # "start"
  BY <1>2, <1>5, <1>6, <1>c DEF AtIn
<1> QED BY <1>3, <1>7, <1>8, <1>9, <1>10, InHandQuiet

LEMMA WorkAlone ==
  ASSUME BuildAssumption, InOrder, NEW w \in Worker, NEW where \in {"start", "work"}, At(w, where)
  PROVE  Tail(stack[w]) = <<>> /\ Rest(w) = {} /\ w \in Thread
<1>1. w \in Thread /\ Types
  BY DEF Thread, InOrder
<1>2. PICK rank \in Ranking : TRUE
  BY DEF BuildAssumption
<1>3. Top(w).at = where /\ Good(rank, stack[w]) /\ stack[w] # <<>>
  BY <1>1, <1>2, TopUses, TopAt DEF InOrder
<1>4. Depth(rank, Top(w)) = 0
  BY <1>3, DepthByKind
<1>5. Tail(stack[w]) = <<>>
  BY <1>2, <1>3, <1>4, BaseAlone DEF Top
<1> QED BY <1>1, <1>5 DEF Rest, Elems

LEMMA AskNextInHand ==
  ASSUME BuildAssumption, InOrder, InHand, NEW t \in Worker, AskNext(t)
  PROVE  InHand'
<1>0. Types /\ Framed /\ Claimed /\ t \in Thread /\ stopWorker = {} /\ At(t, "work")
  BY DEF InHand, InOrder, NothingCanceled, Thread, AskNext
<1>a. PICK f, todo : f = Top(t) /\ todo = f.children
  OBVIOUS
<1>1. todo \in Seq(Script) /\ Tail(stack[t]) = <<>>
  BY <1>0, <1>a, WorkFields, WorkAlone
<1>2. f.at = "work" /\ Fits(f, t) /\ Sound(f) /\ f \in Frame
  BY <1>0, <1>a, TopKnown
<1>3. /\ calls' = calls /\ compilers' = compilers /\ Unmoved /\ mutexes' = mutexes
  BY DEF AskNext, Unmoved, flags, progress, workspace
<1>4. CASE todo = <<>>
  <2>a. PICK Old, New, R : Old = {f} /\ New = {} /\ R = Rest(t)
    OBVIOUS
  <2>1. Swap(t, R, Old, New) /\ Covered'
    BY <1>0, <1>4, <1>a, <2>a, ReturnSwaps DEF AskNext, Framed
  <2>2. \A x \in New : Fits(x, t)' /\ Sound(x) /\ x.at \notin {"erase", "last", "start"}
    BY <2>a
  <2>3. Framed'
    BY <1>0, <1>3, <2>1, <2>2, FramedKept
  <2>4. \A x \in Script : ~AtIn(New, "tell", x) /\ ~AtIn(Old, "tell", x)
    BY <1>2, <2>a DEF AtIn
  <2>5. \A x \in Script : \A a \in {"check", "launch", "lock", "last"} : ~AtIn(New, a, x)
    BY <2>a DEF AtIn
  <2>6. \A at, d, q : ~ClaimsIn(Old, t, at, d, q) /\ ~ClaimsIn(New, t, at, d, q)
    <3>1. Elems(todo) = {}
      BY <1>1, <1>4, ElemsIn
    <3>2. \A at, d, q : ~FrameClaims(f, t, at, d, q)
      BY <1>2, <1>a, <3>1, KindClaims
    <3> QED BY <2>a, <3>2 DEF ClaimsIn
  <2>7. /\ \A d \in Script, q \in Requester : \A at \in ClaimKinds :
             ClaimsIn(Old, t, at, d, q) <=> ClaimsIn(New, t, at, d, q)
        /\ \A x \in Script : AtIn(New, "tell", x) <=> AtIn(Old, "tell", x)
        /\ \A x \in Script : \A a \in {"check", "launch", "lock", "last"} :
              AtIn(New, a, x) => AtIn(Old, a, x)
        /\ \A x \in New : x.at # "start"
    BY <2>2, <2>4, <2>5, <2>6
  <2> QED BY <1>3, <2>1, <2>3, <2>7, InHandQuiet
<1>5. CASE todo # <<>>
  <2>b. PICK c, tl : c = Head(todo) /\ tl = Tail(todo)
    OBVIOUS
  <2>a. PICK k, g, Old, New, R :
          k = BuildImpl(c, t) /\ g = Work(tl) /\ Old = {f} /\ New = {k, g} /\ R = Rest(t)
    OBVIOUS
  <2>1. /\ c \in Script /\ tl \in Seq(Script) /\ Elems(todo) = {c} \cup Elems(tl) /\ c \notin Elems(tl)
        /\ Distinct(tl)
    <3>1. c \in Script /\ tl \in Seq(Script) /\ Elems(todo) = {c} \cup Elems(tl)
      BY <1>1, <1>5, <2>b, ElemsIn
    <3>2. Distinct(todo)
      BY <1>2, <1>a DEF Sound
    <3>3. /\ c = todo[1] /\ 1 \in DOMAIN todo
          /\ \A i \in DOMAIN tl : i \in Nat /\ i + 1 \in DOMAIN todo /\ tl[i] = todo[i + 1] /\ i + 1 # 1
      BY <1>1, <1>5, <2>b
    <3>4. c \notin Elems(tl)
      BY <3>2, <3>3 DEF Elems, Distinct
    <3>5. \A i, j \in DOMAIN tl : tl[i] = tl[j] => i + 1 = j + 1
      BY <3>2, <3>3 DEF Distinct
    <3>6. Distinct(tl)
      BY <3>3, <3>5 DEF Distinct
    <3> QED BY <3>1, <3>4, <3>6
  <2>2. k \in Frame /\ k.at = "enter" /\ k.s = c /\ k.for = t
    <3>1. k \in Frame
      BY <2>1, <2>a, NewFrames DEF Requester
    <3> QED BY <2>a, <3>1 DEF BuildImpl
  <2>3. g \in Frame /\ g.at = "work" /\ g.children = tl /\ g.at \in CoveredKinds
    <3>1. g \in Frame
      BY <2>1, <2>a, NewFrames
    <3> QED BY <2>a, <3>1 DEF Work, CoveredKinds
  <2>4. Swap(t, R, Old, New) /\ Covered'
    <3>1. stack' = [stack EXCEPT ![t] = <<k, g>>]
      BY <1>0, <1>5, <1>a, <2>a, <2>b DEF AskNext, Stopped
    <3>2. <<k, g>> \o <<>> = <<k, g>>
      BY <2>2, <2>3
    <3>3. stack' = [stack EXCEPT ![t] = <<k, g>> \o Tail(stack[t])]
      BY <1>1, <3>1, <3>2
    <3> QED BY <1>0, <1>a, <2>2, <2>3, <2>a, <3>3, CallSwaps DEF Framed
  <2>5. Framed'
    <3>1. Fits(g, t)' /\ Sound(g)
      BY <2>1, <2>3 DEF Fits, Sound, CancelKinds, AskKinds, BuildKinds
    <3>2. Fits(k, t)' /\ Sound(k)
      <4>1. t \notin Script
        BY DEF BuildAssumption
      <4> QED BY <2>2, <4>1 DEF Fits, Sound, CancelKinds, AskKinds, BuildKinds
    <3>3. \A x \in New : Fits(x, t)' /\ Sound(x) /\ x.at \notin {"erase", "last"}
      BY <2>2, <2>3, <2>a, <3>1, <3>2
    <3> QED BY <1>0, <1>3, <2>4, <3>3, FramedKept
  <2>6. ASSUME NEW e \in Script, NEW q \in Requester
        PROVE  \/ \A at \in ClaimKinds : ClaimsIn(Old, t, at, e, q) <=> ClaimsIn(New, t, at, e, q)
               \/ Settled(e, q)'
    <3>1. \A at : /\ ClaimsIn(Old, t, at, e, q) <=> at = "todo" /\ t = q /\ e \in Elems(todo)
                  /\ ClaimsIn(New, t, at, e, q) <=>
                       (at = "ask" /\ c = e /\ t = q) \/ (at = "todo" /\ t = q /\ e \in Elems(tl))
      <4> SUFFICES ASSUME NEW at
          PROVE   /\ ClaimsIn(Old, t, at, e, q) <=> at = "todo" /\ t = q /\ e \in Elems(todo)
                  /\ ClaimsIn(New, t, at, e, q) <=>
                       (at = "ask" /\ c = e /\ t = q) \/ (at = "todo" /\ t = q /\ e \in Elems(tl))
        OBVIOUS
      <4>1. FrameClaims(f, t, at, e, q) <=> at = "todo" /\ t = q /\ e \in Elems(todo)
        BY <1>2, <1>a, KindClaims
      <4>2. FrameClaims(g, t, at, e, q) <=> at = "todo" /\ t = q /\ e \in Elems(tl)
        BY <2>3, KindClaims
      <4>3. FrameClaims(k, t, at, e, q) <=> at = "ask" /\ c = e /\ t = q
        BY <2>2, KindClaims
      <4> QED BY <2>a, <4>1, <4>2, <4>3 DEF ClaimsIn
    <3>2. CASE e = c /\ q = t
      <4>1. /\ ClaimsIn(Old, t, "todo", e, q) /\ "todo" \in ClaimKinds /\ "ask" \in ClaimKinds
            /\ ClaimsIn(New, t, "ask", e, q)
            /\ \A at \in ClaimKinds : ClaimsIn(New, t, at, e, q) => at = "ask"
        BY <2>1, <3>1, <3>2 DEF ClaimKinds
      <4>2. ~Notes(e, q) /\ ~Posted(e, q)
        BY <1>0, <2>4, <2>a, <4>1, OnlyClaim DEF Claimed
      <4>3. Doing("tell", e)' <=> Doing("tell", e)
        <5>1. ~AtIn(Old, "tell", e) /\ ~AtIn(New, "tell", e)
          BY <1>2, <2>2, <2>3, <2>a DEF AtIn
        <5> QED BY <2>4, <5>1, HereKept
      <4>4. ~Notes(e, q)' /\ ~Posted(e, q)' /\ (Expects(q, e)' <=> Expects(q, e))
        BY <1>3, <4>2, <4>3, UnmovedKeeps, CallsSame
      <4> QED BY <1>0, <2>4, <4>1, <4>4, ClaimMoves
    <3>3. CASE ~(e = c /\ q = t)
      BY <2>1, <3>1, <3>3
    <3> QED BY <3>2, <3>3
  <2>7. /\ \A x \in Script : AtIn(New, "tell", x) <=> AtIn(Old, "tell", x)
        /\ \A x \in Script : \A a \in {"check", "launch", "lock", "last"} :
              AtIn(New, a, x) => AtIn(Old, a, x)
        /\ \A x \in New : x.at # "start"
    BY <1>2, <2>2, <2>3, <2>a DEF AtIn
  <2> QED BY <1>3, <2>4, <2>5, <2>6, <2>7, InHandQuiet
<1> QED BY <1>4, <1>5

-----------------------------------------------------------------------------
(* A script goes on from one place to the next: its token moves.             *)
LEMMA TokenMoves ==
  ASSUME OneToken, TokensGoOn, NEW x \in Script,
         NEW a0 \in TokenKinds, NEW u0 \in Thread \cup {None}, HasToken(a0, x, u0),
         a0 \notin {"lock", "tell"}, NEW b \in TokenKinds, NEW v \in Thread \cup {None},
         \A s \in Script \ {x} : \A t \in Thread \cup {None} : \A a \in TokenKinds :
           HasToken(a, s, t)' => HasToken(a, s, t),
         \A t \in Thread \cup {None} : \A a \in TokenKinds : HasToken(a, x, t)' =>
           (a = b /\ t = v) \/ (HasToken(a, x, t) /\ (a # a0 \/ t # u0)),
         beingBuilt' = beingBuilt, buildDeps' = buildDeps
  PROVE  OneToken' /\ TokensGoOn' /\ x \in beingBuilt /\ x \notin Unresolvable /\ buildDeps[x] = {}
<1>1. x \in beingBuilt /\ x \notin Unresolvable /\ buildDeps[x] = {}
  BY DEF TokensGoOn
<1>2. \A t \in Thread \cup {None} : \A a \in TokenKinds :
        HasToken(a, x, t) => a = a0 /\ t = u0
  BY DEF OneToken
<1>3. \A t \in Thread \cup {None} : \A a \in TokenKinds : HasToken(a, x, t)' =>
           /\ a = b /\ t = v /\ x \in beingBuilt'
           /\ x \in Unresolvable => b \in {"lock", "tell"}
           /\ x \notin Unresolvable => buildDeps'[x] = {}
  BY <1>1, <1>2
<1>4. \A s \in beingBuilt \ {x} : s \in beingBuilt' /\ (buildDeps[s] = {} => buildDeps'[s] = {})
  OBVIOUS
<1>5. OneToken' /\ TokensGoOn'
  BY <1>3, <1>4, TokenStep
<1> QED BY <1>1, <1>5

(* What else is in hand, when no script is asked for and none is told.       *)
LEMMA StayInHand ==
  ASSUME InHand, NEW t, NEW R, NEW Old, NEW New, Swap(t, R, Old, New), Unmoved,
         \A g \in New : g.at # "start",
         \A s \in Script : AtIn(New, "tell", s) <=> AtIn(Old, "tell", s),
         \A d \in Script : \A r \in Requester :
           Posted(d, r)' <=> Posted(d, r),
         \A d \in Script : \A r \in Requester : \A at \in ClaimKinds :
           ClaimsIn(Old, t, at, d, r) <=> ClaimsIn(New, t, at, d, r)
  PROVE  Flags' /\ NothingCanceled' /\ Claimed' /\ ProjectsWait'
<1>0. /\ Flags /\ NothingCanceled /\ Claimed /\ ProjectsWait
  BY DEF InHand
<1>1. Flags' /\ NothingCanceled'
  BY <1>0, UnmovedKeeps
<1>2. ASSUME NEW d \in Script, NEW r \in Requester PROVE SameClaims(d, r)
  <2>1. Doing("tell", d)' <=> Doing("tell", d)
    BY HereKept
  <2>2. (Notes(d, r)' <=> Notes(d, r)) /\ (Expects(r, d)' <=> Expects(r, d))
    BY <2>1, UnmovedKeeps
  <2>3. Posted(d, r)' <=> Posted(d, r)
    OBVIOUS
  <2>4. \A at \in ClaimKinds : ClaimsIn(Old, t, at, d, r) <=> ClaimsIn(New, t, at, d, r)
    OBVIOUS
  <2> QED BY <2>2, <2>3, <2>4, ClaimsSame
<1>3. Claimed'
  BY <1>0, <1>2, ClaimedStep
<1>4. ProjectsWait'
  BY <1>0, StartingMoves DEF ProjectsWait, Unmoved
<1> QED BY <1>1, <1>3, <1>4

(* A function of a script that goes on makes no claim.                       *)
LEMMA NobodyClaims ==
  ASSUME NEW Old, NEW New,
         \A f \in Old \cup New : f.at \notin AskKinds \cup {"deps", "work", "tell", "erase", "start"}
  PROVE  /\ \A g \in New : g.at # "start"
         /\ \A s : ~AtIn(New, "tell", s) /\ ~AtIn(Old, "tell", s)
         /\ \A t, at, d, r : ~ClaimsIn(Old, t, at, d, r) /\ ~ClaimsIn(New, t, at, d, r)
BY NoClaims DEF AtIn, ClaimsIn

(* A function of a script goes on, or calls the completion.                  *)
GoesOnAs(New, x, b) ==
  /\ \A g \in New : /\ g.at \in {"launch", "lock", "launched", "unlock"}
                    /\ g.at \in {"launch", "lock"} => g.at = b /\ g.s = x
  /\ compilers' = IF b = "compiler" THEN compilers \cup {x} ELSE compilers

LEMMA ScriptGoesOn ==
  ASSUME BuildAssumption, InOrder, InHand, Framed', Unmoved, calls' = calls,
         NEW t \in Thread, NEW R, NEW Old, NEW New, Swap(t, R, Old, New), NEW f, Old = {f},
         f.at \in {"check", "launch", "last"}, f.at = "last" => buildDeps[f.s] = {},
         NEW x \in Script, x = f.s, NEW b \in {"launch", "lock", "compiler"},
         GoesOnAs(New, x, b)
  PROVE  InHand'
<1>g. /\ \A g \in New : /\ g.at \in {"launch", "lock", "launched", "unlock"}
                        /\ g.at \in {"launch", "lock"} => g.at = b /\ g.s = x
      /\ compilers' = IF b = "compiler" THEN compilers \cup {x} ELSE compilers
  BY DEF GoesOnAs
<1>0. OneToken /\ TokensGoOn /\ CalledOnce /\ Here(f.at, x, t)
  BY DEF InHand, GoingOn, Swap, Here
<1>1. f.at \in TokenKinds /\ b \in TokenKinds /\ HasToken(f.at, x, t) /\ t \in Thread \cup {None}
  BY <1>0 DEF HasToken, TokenKinds
<1>2. PICK v \in Thread \cup {None} : v = IF b = "compiler" THEN None ELSE t
  OBVIOUS
<1>3. CalledOnce' /\ Called' = Called /\ \A d, r : Posted(d, r)' <=> Posted(d, r)
  BY <1>0, CallsSame
<1>4. \A s : \A a \in {"check", "launch", "lock", "tell", "last"} :
        AtIn(New, a, s) => a = b /\ s = x
  BY <1>g DEF AtIn
<1>5. \A a, s : AtIn(Old, a, s) <=> a = f.at /\ s = x
  BY DEF AtIn
<1>6. buildDeps' = buildDeps /\ beingBuilt' = beingBuilt
  BY DEF Unmoved
<1>7. ASSUME NEW s \in Script, NEW a \in {"check", "launch", "lock", "tell", "last"}, NEW u \in Thread,
             Here(a, s, u)'
      PROVE  \/ s = x /\ a = b /\ u = v
             \/ Here(a, s, u) /\ (s = x => a # f.at \/ u # t)
  <2>1. CASE u # t
    BY <1>7, <2>1, HereMoves
  <2>2. CASE u = t
    <3>1. AtIn(R, a, s) \/ AtIn(New, a, s)
      BY <1>7, <2>2, HereMoves
    <3>2. CASE AtIn(R, a, s)
      <4>1. Here(a, s, t) /\ a # f.at
        BY <3>2, HereMoves DEF CoveredKinds
      <4> QED BY <2>2, <4>1
    <3>3. CASE AtIn(New, a, s)
      BY <1>2, <1>4, <2>2, <3>3
    <3> QED BY <3>1, <3>2, <3>3
  <2> QED BY <2>1, <2>2
<1>8. ASSUME NEW s \in Script, NEW u \in Thread \cup {None}, NEW a \in TokenKinds, HasToken(a, s, u)'
      PROVE  \/ s = x /\ a = b /\ u = v
             \/ HasToken(a, s, u) /\ (s = x => a # f.at \/ u # t)
  <2>1. CASE a \in {"check", "launch", "lock", "tell", "last"}
    <3>1. u \in Thread /\ Here(a, s, u)' /\ (a = "last" => buildDeps[s] = {})
      BY <1>6, <1>8, <2>1 DEF HasToken
    <3> QED BY <1>7, <2>1, <3>1 DEF HasToken
  <2>2. CASE a = "compiler"
    BY <1>2, <1>8, <1>g, <2>2 DEF HasToken
  <2>3. CASE a \in {"finished", "self"}
    BY <1>3, <1>8, <2>3 DEF HasToken
  <2> QED BY <2>1, <2>2, <2>3 DEF TokenKinds
<1>9. OneToken' /\ TokensGoOn'
  <2>a. PICK a0 \in TokenKinds : a0 = f.at
    BY <1>1
  <2>1. \A s \in Script \ {x} : \A u \in Thread \cup {None} : \A a \in TokenKinds :
          HasToken(a, s, u)' => HasToken(a, s, u)
    BY <1>8
  <2>2. \A u \in Thread \cup {None} : \A a \in TokenKinds : HasToken(a, x, u)' =>
          (a = b /\ u = v) \/ (HasToken(a, x, u) /\ (a # a0 \/ u # t))
    BY <1>8, <2>a
  <2>3. a0 \notin {"lock", "tell"} /\ HasToken(a0, x, t)
    BY <1>1, <2>a
  <2> QED BY ONLY <1>0, <1>1, <1>6, <2>1, <2>2, <2>3, TokenMoves, x \in Script
<1>10. Flags' /\ NothingCanceled' /\ Claimed' /\ ProjectsWait'
  <2>1. \A g \in Old \cup New :
          g.at \notin AskKinds \cup {"deps", "work", "tell", "erase", "start"}
    BY <1>g DEF AskKinds
  <2>2. /\ \A g \in New : g.at # "start"
        /\ \A s \in Script : AtIn(New, "tell", s) <=> AtIn(Old, "tell", s)
        /\ \A d \in Script : \A r \in Requester : \A at \in ClaimKinds :
             ClaimsIn(Old, t, at, d, r) <=> ClaimsIn(New, t, at, d, r)
    BY <2>1, NobodyClaims
  <2>3. \A d \in Script : \A r \in Requester : Posted(d, r)' <=> Posted(d, r)
    BY <1>3
  <2> QED BY <2>2, <2>3, StayInHand
<1> QED BY <1>3, <1>9, <1>10 DEF InHand, GoingOn

(* Taking a mutex that is free takes it from nobody.                         *)
LEMMA CompilerLocked ==
  ASSUME BuildAssumption, InOrder, NEW t \in Thread, NEW s \in Script, compMutex[s] = None,
         compMutex' = [compMutex EXCEPT ![s] = t],
         buildMutex' = buildMutex, doneMutex' = doneMutex
  PROVE  /\ \A u \in Thread : \A h \in On(u) : KeepsHeld(u, h)
         /\ compMutex'[s] = t
<1>0. Types /\ Stacks /\ None \notin Thread /\ compMutex \in [Script -> Thread \cup {None}]
  BY DEF InOrder, Types, BuildAssumption, MutexesOK
<1>1. ASSUME NEW u \in Thread, NEW h \in On(u) PROVE KeepsHeld(u, h)
  <2>1. h.at \in {"launched", "unlock"} => h.s \in Script
    <3>1. h \in Frame
      BY <1>0, <1>1, OnFrames
    <3> QED BY <3>1 DEF Frame, WorkFrame, BuildFrame, CompileFrame, DoneFrame, ToldFrame, CancelFrame
  <2>2. h.at \in {"launched", "unlock"} /\ compMutex[h.s] = u => h.s # s
    BY <1>0
  <2>3. h.at \in {"launched", "unlock"} /\ compMutex[h.s] = u => compMutex'[h.s] = u
    BY <1>0, <2>1, <2>2
  <2> QED BY <2>3 DEF KeepsHeld
<1> QED BY <1>0, <1>1

LEMMA CompilerUnlocked ==
  ASSUME BuildAssumption, InOrder, InHand, NEW t \in Thread, NEW here \in {"launched", "unlock"},
         At(t, here), Return(t), compMutex' = [compMutex EXCEPT ![Top(t).s] = None],
         buildMutex' = buildMutex, doneMutex' = doneMutex,
         Unmoved, calls' = calls, compilers' = compilers
  PROVE  InHand'
<1>a. PICK f, Old, New, R : f = Top(t) /\ Old = {f} /\ New = {} /\ R = Rest(t)
  OBVIOUS
<1>1. f \in On(t) /\ f.at = here /\ R \subseteq On(t) /\ Framed /\ Types
  BY <1>a, TopKnown DEF InHand, InOrder
<1>2. f.s \in Script
  BY <1>a, <1>1, CompileFields
<1>3. Swap(t, R, Old, New) /\ Covered'
  BY <1>a, <1>1, ReturnSwaps DEF Framed
<1>4. \A s \in Script : s # f.s => compMutex'[s] = compMutex[s]
  BY <1>a, <1>1, <1>2 DEF Types, MutexesOK
<1>5. ASSUME NEW u \in Thread, NEW h \in On(u), u # t \/ h \in R PROVE KeepsHeld(u, h)
  <2>1. f.at \in {"launched", "unlock"} /\ Swap(t, R, {f}, New)
    BY <1>a, <1>1, <1>3
  <2>2. /\ h.at \in {"launched", "unlock"} => h.s # f.s
        /\ h.at \in BuildKinds \cup {"tell", "launched", "unlock"} => h.s \in Script
    <3>1. Framed /\ (u # t \/ h \in R)
      BY <1>1, <1>5
    <3>2. /\ f.at \in BuildKinds /\ h.at \in BuildKinds => h.s # f.s
          /\ f.at = "tell" /\ h.at = "tell" => h.s # f.s
          /\ f.at \in {"launched", "unlock"} /\ h.at \in {"launched", "unlock"} => h.s # f.s
          /\ h.at \in BuildKinds \cup {"tell", "launched", "unlock"} => h.s \in Script
      BY ONLY BuildAssumption, InOrder, <1>5, <2>1, <3>1, HeldByOthers
    <3> QED BY ONLY <2>1, <3>2
  <2> QED BY <1>4, <2>2 DEF KeepsHeld
<1>6. Framed'
  BY <1>a, <1>1, <1>3, <1>5, FramedStep
<1>7. \A d \in Script, r \in Requester :
         \/ \A at \in ClaimKinds : ClaimsIn(Old, t, at, d, r) <=> ClaimsIn(New, t, at, d, r)
         \/ Settled(d, r)'
  <2>1. \A at, d, r : ~FrameClaims(f, t, at, d, r)
    BY <1>1 DEF FrameClaims, AskKinds
  <2> QED BY <1>a, <2>1, ClaimsOfOne
<1>8. /\ \A s \in Script : AtIn(New, "tell", s) <=> AtIn(Old, "tell", s)
      /\ \A s \in Script : \A a \in {"check", "launch", "lock", "last"} :
            AtIn(New, a, s) => AtIn(Old, a, s)
  BY <1>a, <1>1 DEF AtIn
<1>9. \A g \in New : g.at # "start"
  BY <1>a
<1> QED BY <1>3, <1>6, <1>7, <1>8, <1>9, InHandQuiet

LEMMA SetCompilerPidInHand ==
  ASSUME BuildAssumption, InOrder, InHand, NEW t \in Thread, SetCompilerPid(t)
  PROVE  InHand'
<1>1. At(t, "launched") /\ Return(t) /\ compMutex' = [compMutex EXCEPT ![Top(t).s] = None]
  BY DEF SetCompilerPid
<1>2. /\ buildMutex' = buildMutex /\ doneMutex' = doneMutex
      /\ Unmoved /\ calls' = calls /\ compilers' = compilers
  BY DEF SetCompilerPid, Unmoved, flags, workspace
<1> QED BY <1>1, <1>2, CompilerUnlocked

LEMMA UnlockCompInHand ==
  ASSUME BuildAssumption, InOrder, InHand, NEW t \in Thread, UnlockComp(t)
  PROVE  InHand'
<1>1. At(t, "unlock") /\ Return(t) /\ compMutex' = [compMutex EXCEPT ![Top(t).s] = None]
  BY DEF UnlockComp
<1>2. /\ buildMutex' = buildMutex /\ doneMutex' = doneMutex
      /\ Unmoved /\ calls' = calls /\ compilers' = compilers
  BY DEF UnlockComp, Unmoved, flags, progress, workspace
<1> QED BY <1>1, <1>2, CompilerUnlocked

LEMMA CheckByteCodeInHand ==
  ASSUME BuildAssumption, InOrder, InHand, NEW t \in Thread, CheckByteCode(t)
  PROVE  InHand'
<1>a. PICK f, x, Old, R : f = Top(t) /\ x = f.s /\ Old = {f} /\ R = Rest(t)
  OBVIOUS
<1>0. At(t, "check") /\ Framed /\ Types /\ Covered
  BY DEF CheckByteCode, InHand, InOrder, Framed
<1>1. f \in On(t) /\ f.at = "check" /\ f \in CompileFrame /\ x \in Script
  BY <1>a, <1>0, TopKnown, CompileFields
<1>2. Unmoved /\ calls' = calls /\ compilers' = compilers /\ mutexes' = mutexes
  BY DEF CheckByteCode, Unmoved, flags, progress, workspace
<1>3. CASE Become(t, SetBuildCompleted(x, TRUE, None))
  <2>a. PICK k, New : k = SetBuildCompleted(x, TRUE, None) /\ New = {k}
    OBVIOUS
  <2>1. k \in Frame
    BY <1>1, <2>a, NewFrames
  <2>2. k.at = "lock" /\ k.s = x /\ k.pid = None
    BY <2>a DEF SetBuildCompleted
  <2>3. Swap(t, R, Old, New) /\ Covered'
    BY <1>0, <1>3, <1>a, <2>1, <2>a, BecomeSwaps
  <2>4. \A g \in New : Fits(g, t)' /\ Sound(g) /\ g.at \notin {"erase", "last"}
    BY <2>2, <2>a DEF Fits, Sound, AskKinds, BuildKinds, CancelKinds
  <2>5. Framed'
    BY <1>0, <1>2, <2>3, <2>4, FramedKept
  <2>6. PICK b : b = "lock"
    OBVIOUS
  <2>7. GoesOnAs(New, x, b)
    BY <1>2, <2>2, <2>6, <2>a DEF GoesOnAs
  <2>8. /\ f.at \in {"check", "launch", "last"} /\ f.at # "last" /\ x \in Script
        /\ x = f.s /\ Old = {f} /\ b \in {"launch", "lock", "compiler"}
    BY <1>1, <1>a, <2>6
  <2> QED BY ONLY BuildAssumption, InOrder, InHand, t \in Thread, <1>2, <2>3, <2>5, <2>7, <2>8,
                  ScriptGoesOn
<1>4. CASE GoTo(t, "launch")
  <2>a. PICK k, New : k = [f EXCEPT !.at = "launch"] /\ New = {k}
    OBVIOUS
  <2>1. k \in Frame
    BY <1>1, <2>a DEF Frame, CompileFrame
  <2>2. k.at = "launch" /\ k.s = x
    BY <1>1, <1>a, <2>a DEF CompileFrame
  <2>3. Swap(t, R, Old, New) /\ Covered'
    BY <1>0, <1>4, <1>a, <2>1, <2>a, GoToSwaps
  <2>4. \A g \in New : Fits(g, t)' /\ Sound(g) /\ g.at \notin {"erase", "last"}
    BY <2>2, <2>a DEF Fits, Sound, AskKinds, BuildKinds, CancelKinds
  <2>5. Framed'
    BY <1>0, <1>2, <2>3, <2>4, FramedKept
  <2>6. PICK b : b = "launch"
    OBVIOUS
  <2>7. GoesOnAs(New, x, b)
    BY <1>2, <2>2, <2>6, <2>a DEF GoesOnAs
  <2>8. /\ f.at \in {"check", "launch", "last"} /\ f.at # "last" /\ x \in Script
        /\ x = f.s /\ Old = {f} /\ b \in {"launch", "lock", "compiler"}
    BY <1>1, <1>a, <2>6
  <2> QED BY ONLY BuildAssumption, InOrder, InHand, t \in Thread, <1>2, <2>3, <2>5, <2>7, <2>8,
                  ScriptGoesOn
<1> QED BY <1>3, <1>4, <1>a DEF CheckByteCode

(* A script that goes on by itself has a work id, so it is never compiled in *)
(* the foreground.                                                           *)
LEMMA HasWorkId ==
  ASSUME InHand, NEW t \in Thread, NEW x \in Script, NEW a \in {"check", "launch", "lock", "tell"},
         Here(a, x, t)
  PROVE  x \in beingBuilt /\ workId[x] # None
<1>1. HasToken(a, x, t) /\ a \in TokenKinds /\ t \in Thread \cup {None}
  BY DEF HasToken, TokenKinds
<1> QED BY <1>1 DEF InHand, GoingOn, TokensGoOn, Flags

LEMMA LaunchCompilerInHand ==
  ASSUME BuildAssumption, InOrder, InHand, NEW t \in Thread, LaunchCompiler(t)
  PROVE  InHand'
<1>a. PICK f, x, Old, R, k, New, b :
        /\ f = Top(t) /\ x = f.s /\ Old = {f} /\ R = Rest(t)
        /\ k = [f EXCEPT !.at = "launched"] /\ New = {k} /\ b = "compiler"
  OBVIOUS
<1>0. At(t, "launch") /\ Framed /\ Types /\ Covered
  BY DEF LaunchCompiler, InHand, InOrder, Framed
<1>1. f \in On(t) /\ f.at = "launch" /\ f \in CompileFrame /\ x \in Script
  BY <1>a, <1>0, TopKnown, CompileFields
<1>2. workId[x] # None
  BY <1>1, <1>a, HasWorkId DEF Here
<1>3. /\ compMutex[x] = None /\ compMutex' = [compMutex EXCEPT ![x] = t]
      /\ compilers' = compilers \cup {x} /\ GoTo(t, "launched")
      /\ buildMutex' = buildMutex /\ doneMutex' = doneMutex
  BY <1>2, <1>a DEF LaunchCompiler
<1>4. Unmoved /\ calls' = calls
  BY DEF LaunchCompiler, Unmoved, flags, progress, workspace
<1>5. k \in Frame
  BY <1>1, <1>a DEF Frame, CompileFrame
<1>6. k.at = "launched" /\ k.s = x
  BY <1>1, <1>a DEF CompileFrame
<1>7. Swap(t, R, Old, New) /\ Covered'
  BY <1>0, <1>3, <1>5, <1>a, GoToSwaps
<1>8. /\ \A u \in Thread : \A h \in On(u) : KeepsHeld(u, h)
      /\ compMutex'[x] = t
  BY <1>1, <1>3, CompilerLocked
<1>9. \A g \in New : Fits(g, t)' /\ Sound(g) /\ g.at \notin {"erase", "last"}
  BY <1>6, <1>8, <1>a DEF Fits, Sound, AskKinds, BuildKinds, CancelKinds
<1>10. Framed'
  <2>1. \A h \in R : KeepsHeld(t, h)
    BY <1>7, <1>8 DEF Swap
  <2> QED BY <1>0, <1>7, <1>8, <1>9, <2>1, FramedStep
<1>11. GoesOnAs(New, x, b)
  BY <1>3, <1>6, <1>a DEF GoesOnAs
<1>12. /\ f.at \in {"check", "launch", "last"} /\ f.at # "last" /\ x \in Script
       /\ x = f.s /\ Old = {f} /\ b \in {"launch", "lock", "compiler"}
  BY <1>1, <1>a
<1> QED BY ONLY BuildAssumption, InOrder, InHand, t \in Thread, <1>4, <1>7, <1>10, <1>11, <1>12,
                ScriptGoesOn

LEMMA LaunchFailsInHand ==
  ASSUME BuildAssumption, InOrder, InHand, NEW t \in Thread, LaunchFails(t)
  PROVE  InHand'
<1>a. PICK f, x, Old, R, k, g, New, b :
        /\ f = Top(t) /\ x = f.s /\ Old = {f} /\ R = Rest(t)
        /\ k = SetBuildCompleted(x, FALSE, None) /\ g = [f EXCEPT !.at = "unlock"]
        /\ New = {k, g} /\ b = "lock"
  OBVIOUS
<1>0. At(t, "launch") /\ Framed /\ Types /\ Covered
  BY DEF LaunchFails, InHand, InOrder, Framed
<1>1. f \in On(t) /\ f.at = "launch" /\ f \in CompileFrame /\ x \in Script
  BY <1>a, <1>0, TopKnown, CompileFields
<1>3. /\ compMutex[x] = None /\ compMutex' = [compMutex EXCEPT ![x] = t]
      /\ compilers' = compilers /\ Enter(t, k, "unlock")
      /\ buildMutex' = buildMutex /\ doneMutex' = doneMutex
  BY <1>a DEF LaunchFails
<1>4. Unmoved /\ calls' = calls
  BY DEF LaunchFails, Unmoved, flags, progress, workspace
<1>5. k \in Frame /\ g \in Frame
  <2>1. k \in Frame
    BY <1>1, <1>a, NewFrames
  <2>2. g \in Frame
    BY <1>1, <1>a DEF Frame, CompileFrame
  <2> QED BY <2>1, <2>2
<1>6. g.at = "unlock" /\ g.s = x /\ g.at \in CoveredKinds /\ k.at = "lock" /\ k.s = x /\ k.pid = None
  <2>1. g.at = "unlock" /\ g.s = x /\ g.at \in CoveredKinds
    BY <1>1, <1>a DEF CompileFrame, CoveredKinds
  <2>2. k.at = "lock" /\ k.s = x /\ k.pid = None
    BY <1>a DEF SetBuildCompleted
  <2> QED BY <2>1, <2>2
<1>7. Swap(t, R, Old, New) /\ Covered'
  BY <1>0, <1>3, <1>5, <1>6, <1>a, EnterSwaps
<1>8. /\ \A u \in Thread : \A h \in On(u) : KeepsHeld(u, h)
      /\ compMutex'[x] = t
  BY <1>1, <1>3, CompilerLocked
<1>9. \A h \in New : Fits(h, t)' /\ Sound(h) /\ h.at \notin {"erase", "last"}
  BY <1>6, <1>8, <1>a DEF Fits, Sound, AskKinds, BuildKinds, CancelKinds
<1>10. Framed'
  <2>1. \A h \in R : KeepsHeld(t, h)
    BY <1>7, <1>8 DEF Swap
  <2> QED BY <1>0, <1>7, <1>8, <1>9, <2>1, FramedStep
<1>11. GoesOnAs(New, x, b)
  BY <1>3, <1>6, <1>a DEF GoesOnAs
<1>12. /\ f.at \in {"check", "launch", "last"} /\ f.at # "last" /\ x \in Script
       /\ x = f.s /\ Old = {f} /\ b \in {"launch", "lock", "compiler"}
  BY <1>1, <1>a
<1> QED BY ONLY BuildAssumption, InOrder, InHand, t \in Thread, <1>4, <1>7, <1>10, <1>11, <1>12,
                ScriptGoesOn

-----------------------------------------------------------------------------
(* Delayed calls are posted and made.                                        *)
LEMMA TokenGoes ==
  ASSUME OneToken, TokensGoOn, NEW x \in Script,
         NEW a0 \in TokenKinds \ {"lock", "tell"}, NEW u0 \in Thread \cup {None}, HasToken(a0, x, u0),
         NEW b \in TokenKinds, NEW v \in Thread \cup {None},
         \A s \in Script : \A u \in Thread \cup {None} : \A a \in TokenKinds :
           HasToken(a, s, u)' =>
             (s = x /\ a = b /\ u = v) \/ (HasToken(a, s, u) /\ (s = x => a # a0 \/ u # u0)),
         beingBuilt' = beingBuilt, buildDeps' = buildDeps
  PROVE  OneToken' /\ TokensGoOn'
<1>1. \A s \in Script \ {x} : \A u \in Thread \cup {None} : \A a \in TokenKinds :
        HasToken(a, s, u)' => HasToken(a, s, u)
  OBVIOUS
<1>2. \A u \in Thread \cup {None} : \A a \in TokenKinds : HasToken(a, x, u)' =>
        (a = b /\ u = v) \/ (HasToken(a, x, u) /\ (a # a0 \/ u # u0))
  OBVIOUS
<1>3. a0 \in TokenKinds /\ a0 \notin {"lock", "tell"}
  OBVIOUS
<1>4. beingBuilt' = beingBuilt /\ buildDeps' = buildDeps /\ HasToken(a0, x, u0)
  OBVIOUS
<1> QED BY ONLY OneToken, TokensGoOn, x \in Script, u0 \in Thread \cup {None}, b \in TokenKinds,
                v \in Thread \cup {None}, <1>1, <1>2, <1>3, <1>4, TokenMoves

(* A script has no other token than the one it has.                          *)
LEMMA NoOtherToken ==
  ASSUME OneToken, NEW x \in Script, NEW a \in TokenKinds, NEW u \in Thread \cup {None},
         HasToken(a, x, u)
  PROVE  /\ a # "self" => BuildSelfThread(x) \notin Called
         /\ a # "finished" => CompileFinished(x) \notin Called
         /\ a # "compiler" => x \notin compilers
<1>1. None \in Thread \cup {None} /\ {"self", "finished", "compiler"} \subseteq TokenKinds
  BY DEF TokenKinds
<1>2. /\ BuildSelfThread(x) \in Called => HasToken("self", x, None)
      /\ CompileFinished(x) \in Called => HasToken("finished", x, None)
      /\ x \in compilers => HasToken("compiler", x, None)
  BY DEF HasToken
<1> QED BY <1>1, <1>2 DEF OneToken

(* What is in hand when only calls are posted or made.                       *)
LEMMA StacksStay ==
  ASSUME InHand, stack' = stack, mutexes' = mutexes
  PROVE  Framed'
<1>1. Covered' /\ TellsApart' /\ Sounds'
  BY DEF InHand, Framed, Covered, TellsApart, Sounds, On
<1>2. Structure'
  BY DEF InHand, Framed, Structure, Fits, On, mutexes
<1> QED BY <1>1, <1>2 DEF Framed

LEMMA CompilerEndsInHand ==
  ASSUME BuildAssumption, InOrder, InHand, NEW x \in Script, CompilerEnds(x)
  PROVE  InHand'
<1>0. /\ OneToken /\ TokensGoOn /\ CalledOnce /\ Types /\ Flags /\ NothingCanceled
      /\ Claimed /\ ProjectsWait
  BY DEF InHand, GoingOn, InOrder
<1>1. /\ x \in compilers /\ compilers' = compilers \ {x} /\ stack' = stack /\ mutexes' = mutexes
      /\ Unmoved /\ Post(CompileFinished(x))
  BY DEF CompilerEnds, Unmoved, flags, progress, workspace
<1>2. HasToken("compiler", x, None) /\ None \in Thread \cup {None}
      /\ "compiler" \in TokenKinds \ {"lock", "tell"} /\ "finished" \in TokenKinds
  BY <1>1 DEF HasToken, TokenKinds
<1>3. CompileFinished(x) \notin Called
  BY <1>0, <1>2, NoOtherToken
<1>4. CompileFinished(x) \in DelayedCall
  BY DEF CompileFinished, DelayedCall
<1>5. CalledOnce' /\ Called' = Called \cup {CompileFinished(x)}
  BY <1>0, <1>1, <1>3, <1>4, CallPosted
<1>6. \A at, s, u : Here(at, s, u)' <=> Here(at, s, u)
  BY <1>1, HereSame
<1>7. ASSUME NEW s \in Script, NEW u \in Thread \cup {None}, NEW a \in TokenKinds, HasToken(a, s, u)'
      PROVE  \/ s = x /\ a = "finished" /\ u = None
             \/ HasToken(a, s, u) /\ (s = x => a # "compiler" \/ u # None)
  <2>1. CASE a \in {"check", "launch", "lock", "tell", "last"}
    BY <1>1, <1>6, <1>7, <2>1 DEF HasToken, Unmoved
  <2>2. CASE a = "compiler"
    BY <1>1, <1>7, <2>2 DEF HasToken
  <2>3. CASE a = "finished"
    <3>1. CompileFinished(s) \in Called \/ CompileFinished(s) = CompileFinished(x)
      BY <1>5, <1>7, <2>3 DEF HasToken
    <3>2. CompileFinished(s) = CompileFinished(x) => s = x
      BY DEF CompileFinished
    <3> QED BY <1>7, <2>3, <3>1, <3>2 DEF HasToken
  <2>4. CASE a = "self"
    <3>1. BuildSelfThread(s) \in Called \/ BuildSelfThread(s) = CompileFinished(x)
      BY <1>5, <1>7, <2>4 DEF HasToken
    <3>2. BuildSelfThread(s) # CompileFinished(x)
      BY DEF CompileFinished, BuildSelfThread
    <3> QED BY <1>7, <2>4, <3>1, <3>2 DEF HasToken
  <2> QED BY <2>1, <2>2, <2>3, <2>4 DEF TokenKinds
<1>8. OneToken' /\ TokensGoOn'
  BY <1>0, <1>1, <1>2, <1>7, TokenGoes DEF Unmoved
<1>9. Claimed'
  <2>1. ASSUME NEW d \in Script, NEW r \in Requester PROVE SameClaims(d, r)
    <3>1. ResourceWorkCompleted(d, r) # CompileFinished(x)
      BY DEF CompileFinished, ResourceWorkCompleted
    <3>2. Posted(d, r)' <=> Posted(d, r)
      BY <1>5, <3>1 DEF Posted
    <3>3. (Doing("tell", d)' <=> Doing("tell", d)) /\ \A at : InFrames(at, d, r)' <=> InFrames(at, d, r)
      BY <1>1, HereSame
    <3>4. (Notes(d, r)' <=> Notes(d, r)) /\ (Expects(r, d)' <=> Expects(r, d))
      BY <1>1, <3>3, UnmovedKeeps
    <3> QED BY <3>2, <3>3, <3>4 DEF SameClaims, HasClaim
  <2> QED BY <1>0, <2>1, ClaimedStep
<1>10. Flags' /\ NothingCanceled'
  BY <1>0, <1>1, UnmovedKeeps
<1>11. ProjectsWait'
  BY <1>0, <1>1 DEF ProjectsWait, Starting, On, Unmoved
<1>12. Framed'
  BY <1>1, StacksStay
<1> QED BY <1>5, <1>8, <1>9, <1>10, <1>11, <1>12 DEF InHand, GoingOn

(* A call that is made makes a script go on.                                 *)
CallOf(a, x) == IF a = "finished" THEN CompileFinished(x) ELSE BuildSelfThread(x)

StartsAs(New, x, b) ==
  \A g \in New : g.at \in {b, "unlock"} /\ (g.at = b => g.s = x)

LEMMA CallGoesOn ==
  ASSUME BuildAssumption, InOrder, InHand, Framed', Unmoved, compilers' = compilers,
         NEW t \in Thread, NEW R, NEW Old, NEW New, R = {}, Old = {}, Swap(t, R, Old, New),
         NEW x \in Script, NEW a0 \in {"finished", "self"}, Calling(CallOf(a0, x)),
         NEW b \in {"lock", "check"}, StartsAs(New, x, b)
  PROVE  InHand' /\ HasToken(a0, x, None)
<1>0. OneToken /\ TokensGoOn /\ CalledOnce /\ Types
  BY DEF InHand, GoingOn, InOrder
<1>a. PICK c : c = CallOf(a0, x)
  OBVIOUS
<1>1. /\ Calling(c) /\ c # WorkCompleted
      /\ \A s : c = CompileFinished(s) <=> a0 = "finished" /\ s = x
      /\ \A s : c = BuildSelfThread(s) <=> a0 = "self" /\ s = x
      /\ \A d, r : c # ResourceWorkCompleted(d, r)
  BY <1>a DEF CallOf, CompileFinished, BuildSelfThread, ResourceWorkCompleted, WorkCompleted
<1>2. CalledOnce' /\ Called' = Called \ {c} /\ c \in Called
  BY <1>0, <1>1, CallMade
<1>3. /\ HasToken(a0, x, None) /\ a0 \in TokenKinds \ {"lock", "tell"} /\ b \in TokenKinds
      /\ None \in Thread \cup {None} /\ t \in Thread \cup {None}
  BY <1>1, <1>2 DEF HasToken, TokenKinds
<1>4. \A g \in New : g.at \in {b, "unlock"} /\ (g.at = b => g.s = x)
  BY DEF StartsAs
<1>5. \A s : \A a \in {"check", "launch", "lock", "tell", "last"} : AtIn(New, a, s) => a = b /\ s = x
  BY <1>4 DEF AtIn
<1>6. ASSUME NEW s \in Script, NEW u \in Thread \cup {None}, NEW a \in TokenKinds, HasToken(a, s, u)'
      PROVE  \/ s = x /\ a = b /\ u = t
             \/ HasToken(a, s, u) /\ (s = x => a # a0 \/ u # None)
  <2>1. CASE a \in {"check", "launch", "lock", "tell", "last"}
    <3>1. u \in Thread /\ Here(a, s, u)' /\ (a = "last" => buildDeps[s] = {})
      BY <1>6, <2>1 DEF HasToken, Unmoved
    <3>2. CASE u # t
      BY <2>1, <3>1, <3>2, HereMoves DEF HasToken
    <3>3. CASE u = t
      <4>1. AtIn(New, a, s)
        BY <3>1, <3>3, HereMoves DEF AtIn
      <4> QED BY <1>5, <2>1, <3>3, <4>1
    <3> QED BY <3>2, <3>3
  <2>2. CASE a = "compiler"
    BY <1>6, <2>2 DEF HasToken
  <2>3. CASE a = "finished"
    <3>1. CompileFinished(s) \in Called /\ CompileFinished(s) # c
      BY <1>2, <1>6, <2>3 DEF HasToken
    <3> QED BY <1>1, <1>6, <2>3, <3>1 DEF HasToken
  <2>4. CASE a = "self"
    <3>1. BuildSelfThread(s) \in Called /\ BuildSelfThread(s) # c
      BY <1>2, <1>6, <2>4 DEF HasToken
    <3> QED BY <1>1, <1>6, <2>4, <3>1 DEF HasToken
  <2> QED BY <2>1, <2>2, <2>3, <2>4 DEF TokenKinds
<1>7. OneToken' /\ TokensGoOn'
  <2>1. beingBuilt' = beingBuilt /\ buildDeps' = buildDeps
    BY DEF Unmoved
  <2>2. \A s \in Script : \A u \in Thread \cup {None} : \A a \in TokenKinds :
           HasToken(a, s, u)' =>
             (s = x /\ a = b /\ u = t) \/ (HasToken(a, s, u) /\ (s = x => a # a0 \/ u # None))
    BY <1>6
  <2> QED BY ONLY <1>0, <1>3, <2>1, <2>2, x \in Script, TokenGoes
<1>8. Flags' /\ NothingCanceled' /\ Claimed' /\ ProjectsWait'
  <2>1. \A g \in Old \cup New :
          g.at \notin AskKinds \cup {"deps", "work", "tell", "erase", "start"}
    BY <1>4 DEF AskKinds
  <2>2. /\ \A g \in New : g.at # "start"
        /\ \A s \in Script : AtIn(New, "tell", s) <=> AtIn(Old, "tell", s)
        /\ \A d \in Script : \A r \in Requester : \A at \in ClaimKinds :
             ClaimsIn(Old, t, at, d, r) <=> ClaimsIn(New, t, at, d, r)
    BY <2>1, NobodyClaims
  <2>3. \A d \in Script : \A r \in Requester : Posted(d, r)' <=> Posted(d, r)
    BY <1>1, <1>2 DEF Posted
  <2> QED BY <2>2, <2>3, StayInHand
<1> QED BY <1>2, <1>3, <1>7, <1>8 DEF InHand, GoingOn

LEMMA StartBuildSelfThreadInHand ==
  ASSUME BuildAssumption, InOrder, InHand, NEW x \in Script, NEW p \in Pool,
         StartBuildSelfThread(x, p)
  PROVE  InHand'
<1>a. PICK k, New, R, Old, a0, b :
        k = BuildSelf(x) /\ New = {k} /\ R = {} /\ Old = {} /\ a0 = "self" /\ b = "check"
  OBVIOUS
<1>1. /\ Calling(CallOf(a0, x)) /\ stack[p] = <<>> /\ stack' = [stack EXCEPT ![p] = <<k>>]
      /\ Unmoved /\ compilers' = compilers /\ mutexes' = mutexes /\ p \in Thread
  BY <1>a DEF StartBuildSelfThread, CallOf, Unmoved, flags, progress, workspace, Thread
<1>2. k \in Frame
  BY <1>a, NewFrames
<1>3. k.at = "check" /\ k.s = x
  BY <1>a DEF BuildSelf
<1>4. Framed /\ Stacks
  BY DEF InHand, InOrder, Types
<1>5. Swap(p, R, Old, New) /\ Covered'
  BY <1>1, <1>2, <1>4, <1>a, StartSwaps DEF Framed
<1>6. \A g \in New : Fits(g, p)' /\ Sound(g) /\ g.at \notin {"erase", "last"}
  BY <1>3, <1>a DEF Fits, Sound, AskKinds, BuildKinds, CancelKinds
<1>7. Framed'
  BY <1>1, <1>4, <1>5, <1>6, FramedKept
<1>8. StartsAs(New, x, b) /\ R = {} /\ Old = {} /\ a0 \in {"finished", "self"} /\ b \in {"lock", "check"}
  BY <1>3, <1>a DEF StartsAs
<1>9. /\ p \in Thread /\ Unmoved /\ compilers' = compilers /\ Calling(CallOf(a0, x))
      /\ Swap(p, R, Old, New)
  BY <1>1, <1>5
<1>10. InHand' /\ HasToken(a0, x, None)
  BY ONLY BuildAssumption, InOrder, InHand, x \in Script, <1>7, <1>8, <1>9, CallGoesOn
<1> QED BY <1>10

LEMMA OnCompileFinishedInHand ==
  ASSUME BuildAssumption, InOrder, InHand, NEW x \in Script, OnCompileFinished(x)
  PROVE  InHand'
<1>a. PICK k, g, New, R, Old, a0, b :
        /\ k = SetBuildCompleted(x, x \in byteCode, x) /\ g = [at |-> "unlock", s |-> x]
        /\ New = {k, g} /\ R = {} /\ Old = {} /\ a0 = "finished" /\ b = "lock"
  OBVIOUS
<1>1. /\ Calling(CallOf(a0, x)) /\ stack[Gui] = <<>> /\ stack' = [stack EXCEPT ![Gui] = <<k, g>>]
      /\ compMutex[x] = None /\ compMutex' = [compMutex EXCEPT ![x] = Gui]
      /\ buildMutex' = buildMutex /\ doneMutex' = doneMutex
  BY <1>a DEF OnCompileFinished, CallOf, Calling, InHand, NothingCanceled
<1>2. Unmoved /\ compilers' = compilers /\ Gui \in Thread
  BY DEF OnCompileFinished, Unmoved, flags, progress, workspace, Thread
<1>3. k \in Frame /\ g \in Frame
  <2>1. (x \in byteCode) \in BOOLEAN /\ x \in Script \cup {None}
    OBVIOUS
  <2>2. k \in Frame
    BY <1>a, <2>1, NewFrames
  <2>3. g \in Frame
    BY <1>a, NewFrames
  <2> QED BY <2>2, <2>3
<1>4. k.at = "lock" /\ k.s = x /\ k.pid = x
  BY <1>a DEF SetBuildCompleted
<1>5. g.at = "unlock" /\ g.s = x /\ g.at \in CoveredKinds
  BY <1>a DEF CoveredKinds
<1>6. Framed /\ Stacks
  BY DEF InHand, InOrder, Types
<1>7. Swap(Gui, R, Old, New) /\ Covered'
  BY <1>1, <1>2, <1>3, <1>5, <1>6, <1>a, StartTwoSwaps DEF Framed
<1>8. /\ \A u \in Thread : \A h \in On(u) : KeepsHeld(u, h)
      /\ compMutex'[x] = Gui
  BY <1>1, <1>2, CompilerLocked
<1>9. \A h \in New : Fits(h, Gui)' /\ Sound(h) /\ h.at \notin {"erase", "last"}
  BY <1>4, <1>5, <1>8, <1>a DEF Fits, Sound, AskKinds, BuildKinds, CancelKinds
<1>10. Framed'
  <2>1. \A h \in R : KeepsHeld(Gui, h)
    BY <1>a
  <2>2. \A u \in Thread \ {Gui} : \A h \in On(u) : KeepsHeld(u, h)
    BY <1>8
  <2>3. \A h \in New : h.at \in {"erase", "last"} =>
          \/ \E f \in Old : f.at \in {"erase", "last"} /\ f.s = h.s
          \/ \A u \in Thread \ {Gui} : \A f \in On(u) : f.at \in {"erase", "last"} => f.s # h.s
    BY <1>9
  <2>4. \A h \in New : Fits(h, Gui)' /\ Sound(h)
    BY <1>9
  <2> QED BY ONLY <1>6, <1>7, <2>1, <2>2, <2>3, <2>4, FramedStep
<1>11. StartsAs(New, x, b) /\ R = {} /\ Old = {} /\ a0 \in {"finished", "self"} /\ b \in {"lock", "check"}
  BY <1>4, <1>5, <1>a DEF StartsAs
<1>12. Calling(CallOf(a0, x)) /\ Swap(Gui, R, Old, New)
  BY <1>1, <1>7
<1> QED BY ONLY BuildAssumption, InOrder, InHand, x \in Script, <1>2, <1>10, <1>11, <1>12,
                CallGoesOn

LEMMA LastDependencyInHand ==
  ASSUME BuildAssumption, InOrder, InHand, NEW t \in Thread, LastDependency(t)
  PROVE  InHand'
<1>a. PICK f, x, Old, R : f = Top(t) /\ x = f.s /\ Old = {f} /\ R = Rest(t)
  OBVIOUS
<1>0. At(t, "last") /\ Framed /\ Types /\ Covered /\ OneToken /\ TokensGoOn /\ CalledOnce
  BY DEF LastDependency, InHand, InOrder, Framed, GoingOn
<1>1. f \in On(t) /\ f.at = "last" /\ x \in Script
  BY <1>a, <1>0, TopKnown, ToldFields
<1>2. Unmoved /\ compilers' = compilers /\ mutexes' = mutexes
  BY DEF LastDependency, Unmoved, flags, progress, workspace
<1>3. CASE Return(t)
  <2>a. PICK New : New = {}
    OBVIOUS
  <2>1. Swap(t, R, Old, New) /\ Covered'
    BY <1>0, <1>3, <1>a, <2>a, ReturnSwaps
  <2>2. Framed'
    <3>1. /\ \A g \in New : Fits(g, t)' /\ Sound(g)
          /\ \A g \in New : g.at \in {"erase", "last"} =>
               \E h \in Old : h.at \in {"erase", "last"} /\ h.s = g.s
      BY <2>a
    <3> QED BY <1>0, <1>2, <2>1, <3>1, FramedKept
  <2>3. \A g \in Old \cup New :
          g.at \notin AskKinds \cup {"deps", "work", "tell", "erase", "start"}
    BY <1>1, <1>a, <2>a DEF AskKinds
  <2>4. /\ \A g \in New : g.at # "start"
        /\ \A s \in Script : AtIn(New, "tell", s) <=> AtIn(Old, "tell", s)
        /\ \A d \in Script : \A r \in Requester : \A at \in ClaimKinds :
             ClaimsIn(Old, t, at, d, r) <=> ClaimsIn(New, t, at, d, r)
    BY <2>3, NobodyClaims
  <2>5. CASE calls' = calls
    <3>1. /\ CalledOnce' /\ \A d, r : Posted(d, r)' <=> Posted(d, r)
          /\ Called' = Called
      BY <1>0, <2>5, CallsSame
    <3>2. Flags' /\ NothingCanceled' /\ Claimed' /\ ProjectsWait'
      BY <1>2, <2>1, <2>4, <3>1, StayInHand
    <3>3. \A s \in Script : \A u \in Thread \cup {None} : \A a \in TokenKinds :
            HasToken(a, s, u)' => HasToken(a, s, u)
      <4> SUFFICES ASSUME NEW s \in Script
                   PROVE  \A u \in Thread \cup {None} : \A a \in TokenKinds :
                            HasToken(a, s, u)' => HasToken(a, s, u)
        OBVIOUS
      <4>1. \A a \in {"check", "launch", "lock", "tell", "last"} : AtIn(New, a, s) => AtIn(Old, a, s)
        BY <2>a DEF AtIn
      <4>2. buildDeps' = buildDeps
        BY <1>2 DEF Unmoved
      <4> QED BY <1>2, <2>1, <3>1, <4>1, <4>2, TokensWithSwap
    <3>4. OneToken' /\ TokensGoOn'
      BY <1>0, <1>2, <3>3, TokensKept DEF Unmoved
    <3> QED BY <2>2, <3>1, <3>2, <3>4 DEF InHand, GoingOn
  <2>6. CASE buildDeps[x] = {} /\ Post(BuildSelfThread(x))
    <3>1. HasToken("last", x, t)
      BY <1>1, <1>a, <2>6 DEF HasToken, Here
    <3>2. /\ "last" \in TokenKinds \ {"lock", "tell"} /\ "last" \in TokenKinds
          /\ "self" \in TokenKinds /\ t \in Thread \cup {None} /\ None \in Thread \cup {None}
      BY DEF TokenKinds
    <3>3. BuildSelfThread(x) \notin Called
      BY <1>0, <1>1, <3>1, <3>2, NoOtherToken
    <3>4. BuildSelfThread(x) \in DelayedCall
      BY <1>1 DEF BuildSelfThread, DelayedCall
    <3>5. CalledOnce' /\ Called' = Called \cup {BuildSelfThread(x)}
      BY <1>0, <2>6, <3>3, <3>4, CallPosted
    <3>6. ASSUME NEW s \in Script, NEW u \in Thread \cup {None}, NEW a \in TokenKinds, HasToken(a, s, u)'
          PROVE  \/ s = x /\ a = "self" /\ u = None
                 \/ HasToken(a, s, u) /\ (s = x => a # "last" \/ u # t)
      <4>1. CASE a \in {"check", "launch", "lock", "tell", "last"}
        <5>1. u \in Thread /\ Here(a, s, u)' /\ (a = "last" => buildDeps[s] = {})
          BY <1>2, <3>6, <4>1 DEF HasToken, Unmoved
        <5>2. CASE u # t
          BY <2>1, <4>1, <5>1, <5>2, HereMoves DEF HasToken
        <5>3. CASE u = t
          <6>1. AtIn(R, a, s)
            BY <2>1, <2>a, <5>1, <5>3, HereMoves DEF AtIn
          <6>2. Here(a, s, t) /\ a # "last"
            BY <2>1, <6>1, HereMoves DEF CoveredKinds
          <6> QED BY <4>1, <5>1, <5>3, <6>2 DEF HasToken
        <5> QED BY <5>2, <5>3
      <4>2. CASE a = "compiler"
        BY <1>2, <3>6, <4>2 DEF HasToken
      <4>3. CASE a = "finished"
        <5>1. CompileFinished(s) \in Called \/ CompileFinished(s) = BuildSelfThread(x)
          BY <3>5, <3>6, <4>3 DEF HasToken
        <5>2. CompileFinished(s) # BuildSelfThread(x)
          BY DEF CompileFinished, BuildSelfThread
        <5> QED BY <3>6, <4>3, <5>1, <5>2 DEF HasToken
      <4>4. CASE a = "self"
        <5>1. BuildSelfThread(s) \in Called \/ BuildSelfThread(s) = BuildSelfThread(x)
          BY <3>5, <3>6, <4>4 DEF HasToken
        <5>2. BuildSelfThread(s) = BuildSelfThread(x) => s = x
          BY DEF BuildSelfThread
        <5> QED BY <3>6, <4>4, <5>1, <5>2 DEF HasToken
      <4> QED BY <4>1, <4>2, <4>3, <4>4 DEF TokenKinds
    <3>7. OneToken' /\ TokensGoOn'
      <4>1. beingBuilt' = beingBuilt /\ buildDeps' = buildDeps
        BY <1>2 DEF Unmoved
      <4>2. \A s \in Script : \A u \in Thread \cup {None} : \A a \in TokenKinds :
              HasToken(a, s, u)' =>
                \/ s = x /\ a = "self" /\ u = None
                \/ HasToken(a, s, u) /\ (s = x => a # "last" \/ u # t)
        BY <3>6
      <4> QED BY ONLY <1>0, <1>1, <3>1, <3>2, <4>1, <4>2, TokenGoes
    <3>8. Flags' /\ NothingCanceled' /\ Claimed' /\ ProjectsWait'
      <4>1. \A d, r : ResourceWorkCompleted(d, r) # BuildSelfThread(x)
        BY DEF ResourceWorkCompleted, BuildSelfThread
      <4>2. \A d \in Script : \A r \in Requester : Posted(d, r)' <=> Posted(d, r)
        BY <3>5, <4>1 DEF Posted
      <4> QED BY <1>2, <2>1, <2>4, <4>2, StayInHand
    <3> QED BY <2>2, <3>5, <3>7, <3>8 DEF InHand, GoingOn
  <2> QED BY <1>a, <1>3, <2>5, <2>6 DEF LastDependency
<1>4. CASE buildDeps[x] = {} /\ Become(t, SetBuildCompleted(x, FALSE, None)) /\ calls' = calls
  <2>a. PICK k, New, b : k = SetBuildCompleted(x, FALSE, None) /\ New = {k} /\ b = "lock"
    OBVIOUS
  <2>1. k \in Frame
    BY <1>1, <2>a, NewFrames
  <2>2. k.at = "lock" /\ k.s = x /\ k.pid = None
    BY <2>a DEF SetBuildCompleted
  <2>3. Swap(t, R, Old, New) /\ Covered'
    BY <1>0, <1>4, <1>a, <2>1, <2>a, BecomeSwaps
  <2>4. \A g \in New : Fits(g, t)' /\ Sound(g) /\ g.at \notin {"erase", "last"}
    BY <2>2, <2>a DEF Fits, Sound, AskKinds, BuildKinds, CancelKinds
  <2>5. Framed'
    BY <1>0, <1>2, <2>3, <2>4, FramedKept
  <2>7. GoesOnAs(New, x, b)
    BY <1>2, <2>2, <2>a DEF GoesOnAs
  <2>8. /\ f.at \in {"check", "launch", "last"} /\ buildDeps[f.s] = {} /\ x \in Script
        /\ x = f.s /\ Old = {f} /\ b \in {"launch", "lock", "compiler"} /\ calls' = calls
    BY <1>1, <1>4, <1>a, <2>a
  <2> QED BY ONLY BuildAssumption, InOrder, InHand, t \in Thread, <1>2, <2>3, <2>5, <2>7, <2>8,
                  ScriptGoesOn
<1> QED BY <1>3, <1>4, <1>a DEF LastDependency

-----------------------------------------------------------------------------
(* The list of those a script is to tell: its initiator, with the compiler,  *)
(* and its pseudo initiators.                                                *)
LEMMA TellListAt ==
  ASSUME Types, NEW s \in Script, NEW pid \in Script \cup {None}, NEW L, L = TellList(s, pid),
         NEW ps, ps = pseudoInitiators[s]
  PROVE  \E n \in {0, 1} :
           /\ n = 1 <=> initiator[s] # None
           /\ \A i \in DOMAIN L : \/ i = 1 /\ n = 1 /\ L[i] = <<initiator[s], pid>>
                                  \/ \E j \in DOMAIN ps : j + n = i /\ L[i] = <<ps[j], None>>
           /\ n = 1 => 1 \in DOMAIN L /\ L[1] = <<initiator[s], pid>>
           /\ \A j \in DOMAIN ps : j \in Nat /\ j > 0 /\ j + n \in DOMAIN L /\ L[j + n] = <<ps[j], None>>
<1>1. ps \in Seq(Requester)
  BY DEF Types, RequestsOK
<1>2. PICK pseudo : pseudo = [i \in DOMAIN ps |-> <<ps[i], None>>]
  OBVIOUS
<1>3. pseudo \in Seq(Requester \X {None}) /\ DOMAIN pseudo = DOMAIN ps /\ Len(pseudo) = Len(ps)
  BY <1>1, <1>2
<1>4. DOMAIN ps = 1..Len(ps) /\ Len(ps) \in Nat
  BY <1>1
<1>5. CASE initiator[s] = None
  <2>1. L = <<>> \o pseudo
    BY <1>2, <1>5 DEF TellList
  <2>2. L = pseudo
    BY <1>3, <2>1
  <2>3. \A j \in DOMAIN ps : j \in Nat /\ j > 0 /\ j + 0 = j
    BY <1>4
  <2>4. \A j \in DOMAIN ps : j \in DOMAIN L /\ L[j] = <<ps[j], None>>
    BY <1>2, <1>3, <2>2
  <2>5. \A i \in DOMAIN L : i \in DOMAIN ps
    BY <1>3, <2>2
  <2>6. \A i \in DOMAIN L : \E j \in DOMAIN ps : j + 0 = i /\ L[i] = <<ps[j], None>>
    BY <2>3, <2>4, <2>5
  <2>7. \A j \in DOMAIN ps :
          j \in Nat /\ j > 0 /\ j + 0 \in DOMAIN L /\ L[j + 0] = <<ps[j], None>>
    <3> TAKE j \in DOMAIN ps
    <3>1. j + 0 = j /\ j \in Nat /\ j > 0
      BY <2>3
    <3> QED BY <2>4, <3>1
  <2>8. 0 # 1 /\ 0 \in {0, 1}
    OBVIOUS
  <2> QED BY ONLY <1>5, <2>6, <2>7, <2>8
<1>6. CASE initiator[s] # None
  <2>1. PICK real, c : c = <<initiator[s], pid>> /\ real = <<c>>
    OBVIOUS
  <2>2. L = real \o pseudo
    BY <1>2, <1>6, <2>1 DEF TellList
  <2>3. /\ DOMAIN L = 1..(1 + Len(ps)) /\ L[1] = c
        /\ \A j \in DOMAIN ps : L[j + 1] = pseudo[j]
        /\ \A i \in DOMAIN L : i = 1 \/ \E j \in DOMAIN ps : j + 1 = i
    <3>1. PICK S : S = {c} \cup (Requester \X {None})
      OBVIOUS
    <3>2. real \in Seq(S) /\ pseudo \in Seq(S) /\ Len(real) = 1 /\ real[1] = c
      BY <1>3, <2>1, <3>1
    <3>3. /\ real \o pseudo \in Seq(S) /\ Len(real \o pseudo) = 1 + Len(ps)
          /\ \A i \in 1..(1 + Len(ps)) :
               (real \o pseudo)[i] = IF i <= 1 THEN real[i] ELSE pseudo[i - 1]
      <4>1. /\ real \o pseudo \in Seq(S) /\ Len(real \o pseudo) = Len(real) + Len(pseudo)
            /\ \A i \in 1..(Len(real) + Len(pseudo)) :
                 (real \o pseudo)[i] = IF i <= Len(real) THEN real[i] ELSE pseudo[i - Len(real)]
        BY ONLY <3>2, ConcatProperties
      <4> QED BY ONLY <1>3, <3>2, <4>1
    <3>4. DOMAIN L = 1..(1 + Len(ps)) /\ L[1] = c
      BY <1>4, <2>2, <3>2, <3>3
    <3>5. ASSUME NEW j \in DOMAIN ps PROVE L[j + 1] = pseudo[j]
      <4>1. j + 1 \in 1..(1 + Len(ps)) /\ ~(j + 1 <= 1) /\ (j + 1) - 1 = j
        BY <1>4
      <4> QED BY <2>2, <3>3, <4>1
    <3>6. ASSUME NEW i \in DOMAIN L, i # 1 PROVE \E j \in DOMAIN ps : j + 1 = i
      <4>1. i - 1 \in DOMAIN ps /\ (i - 1) + 1 = i
        BY <1>4, <3>4, <3>6
      <4> QED BY <4>1
    <3> QED BY <3>4, <3>5, <3>6
  <2>4. \A j \in DOMAIN ps : j \in Nat /\ j > 0 /\ j + 1 \in DOMAIN L /\ L[j + 1] = <<ps[j], None>>
    <3> TAKE j \in DOMAIN ps
    <3>1. j \in Nat /\ j > 0 /\ j + 1 \in 1..(1 + Len(ps))
      BY ONLY <1>4, j \in DOMAIN ps
    <3>2. pseudo[j] = <<ps[j], None>>
      BY <1>2
    <3> QED BY <2>3, <3>1, <3>2
  <2> QED BY <1>6, <2>1, <2>3, <2>4
<1> QED BY <1>5, <1>6

LEMMA TellListKnown ==
  ASSUME BuildAssumption, Types, Flags, NEW s \in beingBuilt, NEW pid \in Script \cup {None},
         NEW L, L = TellList(s, pid)
  PROVE  /\ \A r \in Requester : (\E i \in DOMAIN L : L[i][1] = r) <=>
              (r \in Script /\ workId[s] = r) \/ r \in Elems(pseudoInitiators[s])
         /\ \A i, j \in DOMAIN L : L[i][1] = L[j][1] => i = j
         /\ \A i \in DOMAIN L : L[i][2] = None \/ (L[i][2] = pid /\ L[i][1] = workId[s])
<1>0. s \in Script /\ None \notin Requester
  BY DEF Types, FlagsOK, BuildAssumption
<1>1. /\ workId[s] # None /\ initiator[s] = IF workId[s] \in Script THEN workId[s] ELSE None
      /\ Distinct(pseudoInitiators[s]) /\ workId[s] \notin Elems(pseudoInitiators[s])
      /\ pseudoInitiators[s] \in Seq(Requester)
  BY <1>0 DEF Flags, Types, RequestsOK
<1>2. PICK ps : ps = pseudoInitiators[s]
  OBVIOUS
<1>3. PICK n \in {0, 1} :
        /\ n = 1 <=> initiator[s] # None
        /\ \A i \in DOMAIN L : \/ i = 1 /\ n = 1 /\ L[i] = <<initiator[s], pid>>
                               \/ \E j \in DOMAIN ps : j + n = i /\ L[i] = <<ps[j], None>>
        /\ n = 1 => 1 \in DOMAIN L /\ L[1] = <<initiator[s], pid>>
        /\ \A j \in DOMAIN ps : j \in Nat /\ j > 0 /\ j + n \in DOMAIN L /\ L[j + n] = <<ps[j], None>>
  BY <1>0, <1>2, TellListAt
<1>4. Script \subseteq Requester
  BY DEF Requester
<1>5. ASSUME NEW r \in Requester
      PROVE  (\E i \in DOMAIN L : L[i][1] = r) <=> (r \in Script /\ workId[s] = r) \/ r \in Elems(ps)
  <2>1. ASSUME NEW i \in DOMAIN L, L[i][1] = r
        PROVE  (r \in Script /\ workId[s] = r) \/ r \in Elems(ps)
    <3>1. CASE i = 1 /\ n = 1 /\ L[i] = <<initiator[s], pid>>
      BY <1>0, <1>1, <2>1, <3>1
    <3>2. CASE \E j \in DOMAIN ps : j + n = i /\ L[i] = <<ps[j], None>>
      BY <2>1, <3>2 DEF Elems
    <3> QED BY <1>3, <3>1, <3>2
  <2>2. ASSUME r \in Script, workId[s] = r PROVE \E i \in DOMAIN L : L[i][1] = r
    BY <1>0, <1>1, <1>3, <1>4, <2>2
  <2>3. ASSUME r \in Elems(ps) PROVE \E i \in DOMAIN L : L[i][1] = r
    <3>1. PICK j \in DOMAIN ps : ps[j] = r
      BY <2>3 DEF Elems
    <3>2. j + n \in DOMAIN L /\ L[j + n][1] = r
      BY <1>3, <3>1
    <3> QED BY <3>2
  <2> QED BY <2>1, <2>2, <2>3
<1>6. ASSUME NEW i \in DOMAIN L, NEW j \in DOMAIN L, L[i][1] = L[j][1] PROVE i = j
  <2>1. ASSUME NEW k \in DOMAIN L
        PROVE  \/ k = 1 /\ n = 1 /\ L[k][1] = workId[s]
               \/ \E m \in DOMAIN ps : m + n = k /\ L[k][1] = ps[m] /\ ps[m] # workId[s]
    <3>1. CASE k = 1 /\ n = 1 /\ L[k] = <<initiator[s], pid>>
      BY <1>1, <1>3, <3>1
    <3>2. CASE \E m \in DOMAIN ps : m + n = k /\ L[k] = <<ps[m], None>>
      BY <1>1, <1>2, <3>2 DEF Elems
    <3> QED BY <1>3, <3>1, <3>2
  <2>2. \A k, m \in DOMAIN ps : ps[k] = ps[m] => k = m
    BY <1>1, <1>2 DEF Distinct
  <2> QED BY <1>6, <2>1, <2>2
<1>7. ASSUME NEW i \in DOMAIN L
      PROVE  L[i][2] = None \/ (L[i][2] = pid /\ L[i][1] = workId[s])
  <2>1. CASE i = 1 /\ n = 1 /\ L[i] = <<initiator[s], pid>>
    BY <1>1, <1>3, <2>1
  <2>2. CASE \E m \in DOMAIN ps : m + n = i /\ L[i] = <<ps[m], None>>
    BY <2>2
  <2> QED BY <1>3, <2>1, <2>2
<1> QED BY <1>2, <1>5, <1>6, <1>7

(* The project that has asked is told by a call.                             *)
LEMMA ProjectTold ==
  ASSUME BuildAssumption, Types, CalledOnce, NEW s \in Script, NEW q, PostAll(Told(s, q)),
         q \in Worker => ~Posted(s, q)
  PROVE  /\ CalledOnce'
         /\ \A x : /\ CompileFinished(x) \in Called' <=> CompileFinished(x) \in Called
                   /\ BuildSelfThread(x) \in Called' <=> BuildSelfThread(x) \in Called
         /\ \A d, r : Posted(d, r)' <=> Posted(d, r) \/ (d = s /\ r = q /\ q \in Worker)
<1>1. CASE q \in Worker
  <2>1. PICK c : c = ResourceWorkCompleted(s, q)
    OBVIOUS
  <2>2. c \in DelayedCall /\ c \notin Called
    BY <1>1, <2>1 DEF ResourceWorkCompleted, DelayedCall, Posted
  <2>3. Post(c)
    <3>1. calls' = calls \o <<c>> /\ calls \in Seq(DelayedCall)
      BY <1>1, <2>1 DEF PostAll, Told, Types, CallsOK
    <3> QED BY <2>2, <3>1 DEF Post
  <2>4. CalledOnce' /\ Called' = Called \cup {c}
    BY <2>2, <2>3, CallPosted
  <2>5. \A x : CompileFinished(x) # c /\ BuildSelfThread(x) # c
    BY <2>1 DEF CompileFinished, BuildSelfThread, ResourceWorkCompleted
  <2>6. \A d, r : ResourceWorkCompleted(d, r) = c <=> d = s /\ r = q
    BY <2>1 DEF ResourceWorkCompleted
  <2> QED BY <1>1, <2>4, <2>5, <2>6 DEF Posted
<1>2. CASE q \notin Worker
  <2>1. calls' = calls
    BY <1>2 DEF PostAll, Told, Types, CallsOK
  <2> QED BY <1>2, <2>1, CallsSame
<1> QED BY <1>1, <1>2

(* A script begins to tell: what it has noted is told or posted.             *)
LEMMA LockDoneInHand ==
  ASSUME BuildAssumption, InOrder, InHand, NEW t \in Thread, LockDone(t)
  PROVE  InHand'
<1>b. PICK f, x, L, Old, R :
        f = Top(t) /\ x = f.s /\ L = TellList(x, f.pid) /\ Old = {f} /\ R = Rest(t)
  OBVIOUS
<1>c. PICK k, New : k = [f EXCEPT !.at = "tell", !.tell = L] /\ New = {k}
  OBVIOUS
<1>a. /\ f = Top(t) /\ x = f.s /\ L = TellList(x, f.pid) /\ Old = {f} /\ R = Rest(t)
      /\ k = [f EXCEPT !.at = "tell", !.tell = L] /\ New = {k}
  BY <1>b, <1>c
<1>0. /\ At(t, "lock") /\ Framed /\ Types /\ Covered /\ OneToken /\ TokensGoOn /\ CalledOnce /\ Flags
      /\ NothingCanceled /\ Claimed /\ ProjectsWait
  BY DEF LockDone, InHand, InOrder, Framed, GoingOn
<1>1. f \in On(t) /\ f.at = "lock" /\ x \in Script /\ f \in DoneFrame /\ Sound(f) /\ R \subseteq On(t)
      /\ f.pid \in Script \cup {None}
  BY <1>a, <1>0, TopKnown, DoneFields
<1>2. /\ doneMutex[x] = None /\ doneMutex' = [doneMutex EXCEPT ![x] = t]
      /\ PostAll(Told(x, workId[x]))
      /\ buildMutex' = buildMutex /\ compMutex' = compMutex /\ compilers' = compilers
  BY <1>a DEF LockDone
<1>3. Unmoved
  BY DEF LockDone, Unmoved, flags, progress, workspace
<1>4. x \in beingBuilt /\ HasToken("lock", x, t) /\ Here("lock", x, t)
  BY <1>1, <1>a, <1>0 DEF Here, HasToken, TokensGoOn, TokenKinds
<1>5. /\ \A r \in Requester : (\E i \in DOMAIN L : L[i][1] = r) <=>
              (r \in Script /\ workId[x] = r) \/ r \in Elems(pseudoInitiators[x])
      /\ \A i, j \in DOMAIN L : L[i][1] = L[j][1] => i = j
      /\ \A i \in DOMAIN L : L[i][2] = None \/ (L[i][2] = f.pid /\ L[i][1] = workId[x])
      /\ L \in Seq(Requester \X (Script \cup {None}))
  <2>1. PICK pid : pid = f.pid
    OBVIOUS
  <2>2. x \in beingBuilt /\ pid \in Script \cup {None} /\ L = TellList(x, pid)
    BY <1>1, <1>4, <1>a, <2>1
  <2>3. /\ \A r \in Requester : (\E i \in DOMAIN L : L[i][1] = r) <=>
              (r \in Script /\ workId[x] = r) \/ r \in Elems(pseudoInitiators[x])
        /\ \A i, j \in DOMAIN L : L[i][1] = L[j][1] => i = j
        /\ \A i \in DOMAIN L : L[i][2] = None \/ (L[i][2] = pid /\ L[i][1] = workId[x])
    BY ONLY BuildAssumption, <1>0, <2>2, TellListKnown
  <2>4. L \in Seq(Requester \X (Script \cup {None}))
    BY <1>0, <1>1, <2>2, TellListIs
  <2> QED BY <2>1, <2>3, <2>4
<1>6. k \in Frame /\ k.at = "tell" /\ k.s = x /\ k.tell = L /\ k.pid = f.pid
  <2>1. f \in DoneFrame /\ x = f.s /\ k = [f EXCEPT !.at = "tell", !.tell = L]
    BY <1>1, <1>a
  <2>2. k \in DoneFrame /\ k.at = "tell" /\ k.s = x /\ k.tell = L /\ k.pid = f.pid
    BY ONLY <1>5, <2>1 DEF DoneFrame
  <2> QED BY <2>2 DEF Frame
<1>7. Swap(t, R, Old, New) /\ Covered'
  <2>1. stack[t] # <<>> /\ stack[t] \in Seq(Frame) /\ stack \in [Thread -> Seq(Frame)]
    BY <1>0, TopIsFrame DEF Types, Stacks
  <2>2. stack' = [stack EXCEPT ![t] = [stack[t] EXCEPT ![1] = k]]
    <3>1. stack' = [stack EXCEPT ![t] = [stack[t] EXCEPT ![1] =
                      [Top(t) EXCEPT !.at = "tell", !.tell = TellList(Top(t).s, Top(t).pid)]]]
      BY <2>1 DEF LockDone, TellList, Top
    <3> QED BY ONLY <1>a, <3>1
  <2>3. Become(t, k)
    BY <1>0, <1>6, <2>2, TopIsBecome DEF Types
  <2> QED BY <1>0, <1>6, <1>a, <2>3, BecomeSwaps
<1>8. \A u \in Thread : ~Here("tell", x, u)
  <2> SUFFICES ASSUME NEW u \in Thread, NEW h \in On(u), h.at = "tell", h.s = x PROVE FALSE
    BY DEF Here
  <2>1. doneMutex[x] = u
    BY <1>0 DEF Framed, Structure, Fits
  <2> QED BY <1>2, <2>1 DEF BuildAssumption
<1>9. Framed'
  <2>1. ASSUME NEW u \in Thread, NEW h \in On(u) PROVE KeepsHeld(u, h)
    <3>1. h.at = "tell" => h.s \in Script
      <4>1. h \in Frame
        BY <1>0, OnFrames DEF Types
      <4> QED BY <4>1 DEF Frame, WorkFrame, BuildFrame, CompileFrame, DoneFrame, ToldFrame, CancelFrame
    <3>2. h.at = "tell" => h.s # x
      BY <1>8 DEF Here
    <3>3. h.at = "tell" /\ doneMutex[h.s] = u => doneMutex'[h.s] = u
      BY <1>0, <1>1, <1>2, <3>1, <3>2 DEF Types, MutexesOK
    <3> QED BY <1>2, <3>3 DEF KeepsHeld
  <2>3. doneMutex'[x] = t
    BY <1>0, <1>1, <1>2 DEF Types, MutexesOK
  <2>4. Fits(k, t)'
    BY <1>6, <2>3 DEF Fits, AskKinds, BuildKinds
  <2>5. Sound(k)
    <3>1. f.pid \in {None, x}
      BY <1>1, <1>a DEF Sound
    <3>2. \A i \in DOMAIN L : L[i][2] \in {None, x}
      BY <1>5, <3>1
    <3> QED BY <1>5, <1>6, <3>1, <3>2 DEF Sound, CancelKinds
  <2>6. \A g \in New : Fits(g, t)' /\ Sound(g)
    BY <1>a, <2>4, <2>5
  <2>7. /\ \A u \in Thread \ {t} : \A h \in On(u) : KeepsHeld(u, h)
        /\ \A h \in R : KeepsHeld(t, h)
        /\ \A g \in New : g.at \in {"erase", "last"} =>
             \/ \E h \in Old : h.at \in {"erase", "last"} /\ h.s = g.s
             \/ \A u \in Thread \ {t} : \A h \in On(u) : h.at \in {"erase", "last"} => h.s # g.s
    BY <1>1, <1>6, <1>a, <2>1
  <2> QED BY ONLY <1>0, <1>7, <2>6, <2>7, FramedStep
<1>10. workId[x] \in Requester /\ (workId[x] \in Worker => ~Posted(x, workId[x])) /\ Notes(x, workId[x])
  <2>1. workId[x] \in Requester
    BY <1>0, <1>1, <1>4 DEF Flags, Types, RequestsOK
  <2>2. Notes(x, workId[x])
    BY <1>8 DEF Notes, Doing
  <2>3. ~Posted(x, workId[x])
    BY <1>0, <1>1, <2>1, <2>2 DEF Claimed, OneClaim, HasClaim, ClaimKinds
  <2> QED BY <2>1, <2>2, <2>3
<1>11. /\ CalledOnce'
       /\ \A s : /\ CompileFinished(s) \in Called' <=> CompileFinished(s) \in Called
                 /\ BuildSelfThread(s) \in Called' <=> BuildSelfThread(s) \in Called
       /\ \A d, r : Posted(d, r)' <=> Posted(d, r) \/ (d = x /\ r = workId[x] /\ workId[x] \in Worker)
  <2>1. PICK q : q = workId[x]
    OBVIOUS
  <2>2. PostAll(Told(x, q)) /\ (q \in Worker => ~Posted(x, q))
    BY <1>2, <1>10, <2>1
  <2> QED BY <1>0, <1>1, <2>1, <2>2, ProjectTold
<1>12. \A a, s : /\ AtIn(Old, a, s) <=> a = "lock" /\ s = x
                 /\ AtIn(New, a, s) <=> a = "tell" /\ s = x
  BY <1>1, <1>6, <1>a DEF AtIn
<1>13. OneToken' /\ TokensGoOn'
  <2>1. "tell" \in TokenKinds /\ "lock" \in TokenKinds /\ t \in Thread \cup {None}
    BY DEF TokenKinds
  <2>2. ASSUME NEW s \in Script, NEW u \in Thread \cup {None}, NEW a \in TokenKinds, HasToken(a, s, u)'
        PROVE  \/ s = x /\ a = "tell" /\ u = t
               \/ HasToken(a, s, u) /\ (s = x => a # "lock" \/ u # t)
    <3>1. CASE a \in {"check", "launch", "lock", "tell", "last"}
      <4>1. u \in Thread /\ Here(a, s, u)' /\ (a = "last" => buildDeps[s] = {})
        BY <1>3, <2>2, <3>1 DEF HasToken, Unmoved
      <4>2. CASE u # t
        BY <1>7, <3>1, <4>1, <4>2, HereMoves DEF HasToken
      <4>3. CASE u = t
        <5>1. AtIn(R, a, s) \/ AtIn(New, a, s)
          BY <1>7, <4>1, <4>3, HereMoves
        <5>2. ASSUME AtIn(R, a, s) PROVE Here(a, s, t) /\ a # "lock"
          BY <1>7, <5>2, HereMoves DEF CoveredKinds
        <5> QED BY <1>12, <3>1, <4>1, <4>3, <5>1, <5>2 DEF HasToken
      <4> QED BY <4>2, <4>3
    <3>2. CASE a \in {"compiler", "finished", "self"}
      BY <1>2, <1>11, <2>2, <3>2 DEF HasToken
    <3> QED BY <3>1, <3>2 DEF TokenKinds
  <2>3. \A u \in Thread \cup {None} : \A a \in TokenKinds : HasToken(a, x, u) => a = "lock" /\ u = t
    BY <1>0, <1>1, <1>4, <2>1 DEF OneToken
  <2>4. beingBuilt' = beingBuilt /\ buildDeps' = buildDeps
    BY <1>3 DEF Unmoved
  <2>5. x \notin Unresolvable => buildDeps[x] = {}
    BY <1>0, <1>1, <1>4, <2>1 DEF TokensGoOn
  <2>6. \A u \in Thread \cup {None} : \A a \in TokenKinds : HasToken(a, x, u)' =>
           /\ a = "tell" /\ u = t /\ x \in beingBuilt'
           /\ x \in Unresolvable => "tell" \in {"lock", "tell"}
           /\ x \notin Unresolvable => buildDeps'[x] = {}
    BY <1>1, <1>4, <2>2, <2>3, <2>4, <2>5
  <2>7. \A s \in Script \ {x} : \A u \in Thread \cup {None} : \A a \in TokenKinds :
           HasToken(a, s, u)' => HasToken(a, s, u)
    BY <2>2
  <2>8. \A s \in beingBuilt \ {x} : /\ s \in beingBuilt'
                                    /\ buildDeps[s] = {} => buildDeps'[s] = {}
    BY <2>4
  <2>9. OneToken /\ TokensGoOn /\ x \in Script
    BY <1>0, <1>1
  <2>10. PICK b \in TokenKinds, v \in Thread \cup {None} : b = "tell" /\ v = t
    BY <2>1
  <2>11. \A u \in Thread \cup {None} : \A a \in TokenKinds : HasToken(a, x, u)' =>
           /\ a = b /\ u = v /\ x \in beingBuilt'
           /\ x \in Unresolvable => b \in {"lock", "tell"}
           /\ x \notin Unresolvable => buildDeps'[x] = {}
    BY <2>6, <2>10
  <2> QED BY ONLY <2>9, b \in TokenKinds, v \in Thread \cup {None}, <2>7, <2>8, <2>11, TokenStep
<1>14. \A d \in Script : \A q \in Requester : \A at :
         /\ ~ClaimsIn(Old, t, at, d, q)
         /\ ClaimsIn(New, t, at, d, q) <=> at = "tell" /\ d = x /\
              ((q \in Script /\ workId[x] = q) \/ q \in Elems(pseudoInitiators[x]))
  <2> SUFFICES ASSUME NEW d \in Script, NEW q \in Requester, NEW at
      PROVE  /\ ~ClaimsIn(Old, t, at, d, q)
             /\ ClaimsIn(New, t, at, d, q) <=> at = "tell" /\ d = x /\
                  ((q \in Script /\ workId[x] = q) \/ q \in Elems(pseudoInitiators[x]))
    OBVIOUS
  <2>1. ~FrameClaims(f, t, at, d, q)
    BY <1>1, NoClaims DEF AskKinds
  <2>2. FrameClaims(k, t, at, d, q) <=>
          at = "tell" /\ x = d /\ \E i \in DOMAIN L : L[i][1] = q
    BY <1>6, KindClaims
  <2> QED BY <1>5, <1>a, <2>1, <2>2 DEF ClaimsIn
<1>15. Claimed'
  <2>1. ASSUME NEW d \in Script, NEW q \in Requester PROVE SameClaims(d, q) \/ Settled(d, q)'
    <3>1. Expects(q, d)' <=> Expects(q, d)
      BY <1>3, UnmovedKeeps
    <3>2. CASE d # x
      <4>1. Doing("tell", d)' <=> Doing("tell", d)
        BY <1>7, <1>12, <3>2, HereKept
      <4>2. (Notes(d, q)' <=> Notes(d, q)) /\ (Posted(d, q)' <=> Posted(d, q))
        BY <1>3, <1>11, <3>2, <4>1, UnmovedKeeps
      <4>3. \A at \in ClaimKinds : ClaimsIn(Old, t, at, d, q) <=> ClaimsIn(New, t, at, d, q)
        BY <1>14, <3>2
      <4> QED BY <1>7, <3>1, <4>2, <4>3, ClaimsSame
    <3>3. CASE d = x /\ ~(workId[x] = q \/ q \in Elems(pseudoInitiators[x]))
      <4>1. workId' = workId /\ pseudoInitiators' = pseudoInitiators
        BY <1>3 DEF Unmoved, requests
      <4>2. ~Notes(d, q) /\ ~Notes(d, q)' /\ (Posted(d, q)' <=> Posted(d, q))
        BY <1>11, <3>3, <4>1 DEF Notes
      <4>3. \A at \in ClaimKinds : ClaimsIn(Old, t, at, d, q) <=> ClaimsIn(New, t, at, d, q)
        BY <1>14, <3>3
      <4> QED BY <1>7, <3>1, <4>2, <4>3, ClaimsSame
    <3>4. CASE d = x /\ (workId[x] = q \/ q \in Elems(pseudoInitiators[x]))
      <4>1. Notes(d, q) /\ ~Posted(d, q)
        <5>1. Notes(d, q)
          BY <1>8, <3>4 DEF Notes, Doing
        <5> QED BY <1>0, <5>1 DEF Claimed, OneClaim, HasClaim, ClaimKinds
      <4>2. ~Notes(d, q)'
        <5>1. Here("tell", x, t)'
          BY <1>7, <1>12, HereMoves
        <5> QED BY <3>4, <5>1 DEF Notes, Doing
      <4>3. workId[x] \notin Elems(pseudoInitiators[x])
        BY <1>0, <1>1 DEF Flags
      <4>4. CASE q = workId[x] /\ q \in Worker
        <5>1. q \notin Script
          BY <4>4 DEF BuildAssumption
        <5>2. "posted" \in ClaimKinds /\ Posted(d, q)'
          BY <1>11, <3>4, <4>4 DEF ClaimKinds
        <5>3. \A at \in ClaimKinds : ClaimsIn(New, t, at, d, q) => at = "posted"
          BY <1>14, <4>3, <4>4, <5>1
        <5> QED BY <1>0, <1>7, <3>1, <4>1, <4>2, <5>2, <5>3, NotedMoves
      <4>5. CASE ~(q = workId[x] /\ q \in Worker)
        <5>1. ~Posted(d, q)'
          BY <1>11, <4>1, <4>5
        <5>2. ClaimsIn(New, t, "tell", d, q) /\ "tell" \in ClaimKinds
          BY <1>14, <3>4, <4>5 DEF ClaimKinds, Requester
        <5>3. \A at \in ClaimKinds : ClaimsIn(New, t, at, d, q) => at = "tell"
          BY <1>14
        <5> QED BY <1>0, <1>7, <3>1, <4>1, <4>2, <5>1, <5>2, <5>3, NotedMoves
      <4> QED BY <4>4, <4>5
    <3> QED BY <3>2, <3>3, <3>4
  <2> QED BY <1>0, <2>1, ClaimedStep
<1>16. Flags' /\ NothingCanceled'
  BY <1>0, <1>3, UnmovedKeeps
<1>17. ProjectsWait'
  <2>1. \A g \in New : g.at # "start"
    BY <1>6, <1>a
  <2> QED BY <1>0, <1>3, <1>7, <2>1, StartingMoves DEF ProjectsWait, Unmoved
<1> QED BY <1>9, <1>11, <1>13, <1>15, <1>16, <1>17 DEF InHand, GoingOn

(* The first of those to be told is told.                                    *)
FirstsDistinct(L) == \A i, j \in DOMAIN L : L[i][1] = L[j][1] => i = j

LEMMA FirstsOf ==
  ASSUME NEW L \in Seq(Requester \X (Script \cup {None})), L # <<>>, FirstsDistinct(L)
  PROVE  /\ 1 \in DOMAIN L /\ Head(L) = L[1] /\ Head(L)[1] \in Requester
         /\ Head(L)[2] \in Script \cup {None} /\ Tail(L) \in Seq(Requester \X (Script \cup {None}))
         /\ \A q : (\E i \in DOMAIN L : L[i][1] = q) <=>
                     q = Head(L)[1] \/ \E i \in DOMAIN Tail(L) : Tail(L)[i][1] = q
         /\ \A i \in DOMAIN Tail(L) : Tail(L)[i][1] # Head(L)[1]
         /\ FirstsDistinct(Tail(L))
         /\ \A i \in DOMAIN Tail(L) : \E j \in DOMAIN L : Tail(L)[i] = L[j]
<1>0. \A i, j \in DOMAIN L : L[i][1] = L[j][1] => i = j
  BY DEF FirstsDistinct
<1>1. 1 \in DOMAIN L /\ Head(L) = L[1] /\ Tail(L) \in Seq(Requester \X (Script \cup {None}))
  <2>1. PICK S : S = Requester \X (Script \cup {None})
    OBVIOUS
  <2>2. L \in Seq(S) /\ L # <<>>
    BY <2>1
  <2>3. 1 \in DOMAIN L /\ Head(L) = L[1] /\ Tail(L) \in Seq(S)
    BY ONLY <2>2
  <2> QED BY <2>1, <2>3
<1>2. Head(L)[1] \in Requester /\ Head(L)[2] \in Script \cup {None}
  BY <1>1
<1>3. \A i \in DOMAIN Tail(L) : /\ i \in Nat /\ i > 0 /\ i + 1 \in DOMAIN L /\ Tail(L)[i] = L[i + 1]
  <2>1. PICK S : S = Requester \X (Script \cup {None})
    OBVIOUS
  <2>2. L \in Seq(S) /\ L # <<>>
    BY <2>1
  <2> QED BY ONLY <2>2
<1>4. \A j \in DOMAIN L : j = 1 \/ \E i \in DOMAIN Tail(L) : j = i + 1
  <2>1. PICK S : S = Requester \X (Script \cup {None})
    OBVIOUS
  <2>2. L \in Seq(S) /\ L # <<>>
    BY <2>1
  <2>3. ASSUME NEW j \in DOMAIN L, j # 1 PROVE \E i \in DOMAIN Tail(L) : j = i + 1
    <3>1. j - 1 \in DOMAIN Tail(L) /\ j = (j - 1) + 1
      BY ONLY <2>2, <2>3
    <3> QED BY <3>1
  <2> QED BY <2>3
<1>5. \A q : (\E i \in DOMAIN L : L[i][1] = q) <=>
               q = Head(L)[1] \/ \E i \in DOMAIN Tail(L) : Tail(L)[i][1] = q
  BY <1>1, <1>3, <1>4
<1>6. \A i \in DOMAIN Tail(L) : Tail(L)[i][1] # Head(L)[1]
  BY <1>0, <1>1, <1>3
<1>7. ASSUME NEW i \in DOMAIN Tail(L), NEW j \in DOMAIN Tail(L), Tail(L)[i][1] = Tail(L)[j][1]
      PROVE  i = j
  <2>1. i + 1 = j + 1
    BY <1>0, <1>3, <1>7
  <2> QED BY <1>3, <2>1
<1>8. FirstsDistinct(Tail(L))
  BY <1>7 DEF FirstsDistinct
<1> QED BY <1>1, <1>2, <1>3, <1>5, <1>6, <1>8

LEMMA TellRequesterInHand ==
  ASSUME BuildAssumption, InOrder, InHand, NEW t \in Thread, TellRequester(t), ~spoilt'
  PROVE  InHand'
<1>b. PICK f, x, L, Old, R :
        f = Top(t) /\ x = f.s /\ L = f.tell /\ Old = {f} /\ R = Rest(t)
  OBVIOUS
<1>c. PICK r, pid, tl : r = Head(L)[1] /\ pid = Head(L)[2] /\ tl = Tail(L)
  OBVIOUS
<1>d. PICK g, k, New :
        /\ g = [f EXCEPT !.tell = tl] /\ k = SetInitiatedBuildIsCompleted(r, x, f.ok, pid)
        /\ New = IF r \in beingBuilt THEN {k, g} ELSE {g}
  OBVIOUS
<1>0. /\ At(t, "tell") /\ Framed /\ Types /\ Covered /\ OneToken /\ TokensGoOn /\ CalledOnce /\ Flags
      /\ NothingCanceled /\ Claimed /\ ProjectsWait
  BY DEF TellRequester, InHand, InOrder, Framed, GoingOn
<1>1. /\ f \in On(t) /\ f.at = "tell" /\ x \in Script /\ f \in DoneFrame /\ Sound(f) /\ Fits(f, t)
      /\ FrameUses(f) /\ f.ok \in BOOLEAN /\ L \in Seq(Requester \X (Script \cup {None})) /\ L # <<>>
  BY <1>b, <1>0, TopKnown, DoneFields DEF TellRequester
<1>2. Unmoved /\ mutexes' = mutexes /\ compilers' = compilers
  BY DEF TellRequester, Unmoved, flags, progress, workspace
<1>3. /\ \A i, j \in DOMAIN L : L[i][1] = L[j][1] => i = j
      /\ \A i \in DOMAIN L : L[i][2] \in {None, x}
      /\ \A i \in DOMAIN L : L[i][1] \in Script => x \in Uses[L[i][1]]
      /\ f.pid \in {None, x}
  BY <1>1, <1>b DEF Sound, FrameUses
<1>4. /\ 1 \in DOMAIN L /\ Head(L) = L[1] /\ r \in Requester
      /\ pid \in Script \cup {None} /\ tl \in Seq(Requester \X (Script \cup {None}))
      /\ \A q : (\E i \in DOMAIN L : L[i][1] = q) <=> q = r \/ \E i \in DOMAIN tl : tl[i][1] = q
      /\ \A i \in DOMAIN tl : tl[i][1] # r
      /\ \A i, j \in DOMAIN tl : tl[i][1] = tl[j][1] => i = j
      /\ \A i \in DOMAIN tl : \E j \in DOMAIN L : tl[i] = L[j]
  <2>1. L \in Seq(Requester \X (Script \cup {None})) /\ L # <<>> /\ FirstsDistinct(L)
    BY <1>1, <1>3 DEF FirstsDistinct
  <2>2. /\ 1 \in DOMAIN L /\ Head(L) = L[1] /\ Head(L)[1] \in Requester
        /\ Head(L)[2] \in Script \cup {None} /\ Tail(L) \in Seq(Requester \X (Script \cup {None}))
        /\ \A q : (\E i \in DOMAIN L : L[i][1] = q) <=>
                    q = Head(L)[1] \/ \E i \in DOMAIN Tail(L) : Tail(L)[i][1] = q
        /\ \A i \in DOMAIN Tail(L) : Tail(L)[i][1] # Head(L)[1]
        /\ FirstsDistinct(Tail(L))
        /\ \A i \in DOMAIN Tail(L) : \E j \in DOMAIN L : Tail(L)[i] = L[j]
    BY ONLY <2>1, FirstsOf
  <2> QED BY <1>c, <2>2 DEF FirstsDistinct
<1>5. g \in Frame /\ g.at = "tell" /\ g.s = x /\ g.tell = tl /\ g.pid = f.pid /\ g.at \in CoveredKinds
  <2>1. f \in DoneFrame /\ x = f.s /\ g = [f EXCEPT !.tell = tl] /\ f.at = "tell"
    BY <1>1, <1>b, <1>d
  <2>2. g \in DoneFrame /\ g.at = "tell" /\ g.s = x /\ g.tell = tl /\ g.pid = f.pid
    BY ONLY <1>4, <2>1 DEF DoneFrame
  <2> QED BY <2>2 DEF Frame, CoveredKinds
<1>6. r \in beingBuilt => k \in Frame /\ k.at = "erase" /\ k.s = r /\ k.dep = x /\ k.pid = pid
  <2> SUFFICES ASSUME r \in beingBuilt PROVE k \in Frame /\ k.at = "erase" /\ k.s = r /\ k.dep = x /\ k.pid = pid
    OBVIOUS
  <2>1. r \in Script
    BY <1>0 DEF Types, FlagsOK
  <2>2. k \in Frame
    BY <1>1, <1>4, <1>d, <2>1, NewFrames
  <2> QED BY <1>d, <2>2 DEF SetInitiatedBuildIsCompleted
<1>7. Swap(t, R, Old, New) /\ Covered'
  <2>1. CASE r \in beingBuilt
    <3>1. stack' = [stack EXCEPT ![t] = <<k, g>> \o Tail(stack[t])]
      BY <1>b, <1>c, <1>d, <2>1 DEF TellRequester
    <3>2. New = {k, g}
      BY <1>d, <2>1
    <3> QED BY <1>0, <1>5, <1>6, <1>b, <2>1, <3>1, <3>2, CallSwaps
  <2>2. CASE r \notin beingBuilt
    <3>1. Become(t, g)
      BY <1>b, <1>c, <1>d, <2>2 DEF TellRequester, Become
    <3>2. New = {g}
      BY <1>d, <2>2
    <3> QED BY <1>0, <1>5, <1>b, <3>1, <3>2, BecomeSwaps
  <2> QED BY <2>1, <2>2
<1>8. g \in New /\ \A h \in New : h = g \/ (h = k /\ r \in beingBuilt)
  BY <1>d
<1>9. Framed'
  <2>1. Fits(g, t)' /\ Sound(g)
    <3>1. doneMutex'[x] = t
      BY <1>1, <1>2, <1>b DEF Fits, mutexes
    <3>2. \A i \in DOMAIN tl : tl[i][2] \in {None, x}
      BY <1>3, <1>4
    <3> QED BY <1>3, <1>4, <1>5, <3>1, <3>2 DEF Fits, Sound, CancelKinds, AskKinds, BuildKinds
  <2>2. r \in beingBuilt => Fits(k, t)' /\ Sound(k)
    <3> SUFFICES ASSUME r \in beingBuilt PROVE Fits(k, t)' /\ Sound(k)
      OBVIOUS
    <3>1. g \in On(t)'
      BY <1>7, <1>8 DEF Swap
    <3>2. r \in Script
      BY <1>0 DEF Types, FlagsOK
    <3>3. x \in Uses[r] /\ pid \in {None, x}
      BY <1>3, <1>4, <1>c, <3>2
    <3> QED BY <1>5, <1>6, <3>1, <3>3 DEF Fits, Sound, CancelKinds, AskKinds, BuildKinds
  <2>3. \A h \in New : Fits(h, t)' /\ Sound(h)
    BY <1>8, <2>1, <2>2
  <2>4. ASSUME r \in beingBuilt, NEW u \in Thread, NEW e \in On(u), e.at \in {"erase", "last"}
        PROVE  e.s # r
    <3>1. ~IsToldBy(u, r)
      BY <1>b, <1>c, <2>4 DEF TellRequester
    <3> QED BY <2>4, <3>1 DEF IsToldBy, On, Elems
  <2>5. \A h \in New : h.at \in {"erase", "last"} =>
          \/ \E e \in Old : e.at \in {"erase", "last"} /\ e.s = h.s
          \/ \A u \in Thread \ {t} : \A e \in On(u) : e.at \in {"erase", "last"} => e.s # h.s
    BY <1>5, <1>6, <1>8, <2>4
  <2>6. \A u, h : KeepsHeld(u, h)
    BY <1>2, KeepsAllHeld
  <2> QED BY ONLY <1>0, <1>7, <2>3, <2>5, <2>6, FramedStep
<1>10. \A d \in Script : \A q \in Requester : \A at :
         /\ ClaimsIn(Old, t, at, d, q) <=>
              at = "tell" /\ d = x /\ (q = r \/ \E i \in DOMAIN tl : tl[i][1] = q)
         /\ ClaimsIn(New, t, at, d, q) <=>
              \/ at = "tell" /\ d = x /\ \E i \in DOMAIN tl : tl[i][1] = q
              \/ at = "erase" /\ d = x /\ q = r /\ r \in beingBuilt
  <2> SUFFICES ASSUME NEW d \in Script, NEW q \in Requester, NEW at
      PROVE  /\ ClaimsIn(Old, t, at, d, q) <=>
                  at = "tell" /\ d = x /\ (q = r \/ \E i \in DOMAIN tl : tl[i][1] = q)
             /\ ClaimsIn(New, t, at, d, q) <=>
                  \/ at = "tell" /\ d = x /\ \E i \in DOMAIN tl : tl[i][1] = q
                  \/ at = "erase" /\ d = x /\ q = r /\ r \in beingBuilt
    OBVIOUS
  <2>1. FrameClaims(f, t, at, d, q) <=> at = "tell" /\ x = d /\ \E i \in DOMAIN L : L[i][1] = q
    BY <1>1, <1>b, KindClaims
  <2>2. FrameClaims(g, t, at, d, q) <=> at = "tell" /\ x = d /\ \E i \in DOMAIN tl : tl[i][1] = q
    BY <1>5, KindClaims
  <2>3. r \in beingBuilt => (FrameClaims(k, t, at, d, q) <=> at = "erase" /\ r = q /\ x = d)
    BY <1>6, KindClaims
  <2>4. ClaimsIn(Old, t, at, d, q) <=> FrameClaims(f, t, at, d, q)
    BY <1>b DEF ClaimsIn
  <2>5. ClaimsIn(New, t, at, d, q) <=>
          FrameClaims(g, t, at, d, q) \/ (r \in beingBuilt /\ FrameClaims(k, t, at, d, q))
    BY <1>d DEF ClaimsIn
  <2> QED BY <1>4, <2>1, <2>2, <2>3, <2>4, <2>5
<1>11. ClaimsIn(Old, t, "tell", x, r) /\ "tell" \in ClaimKinds
  BY <1>1, <1>4, <1>10 DEF ClaimKinds
<1>12. ~Notes(x, r) /\ ~Posted(x, r) /\ Expects(r, x)
  <2>1. ~Notes(x, r) /\ ~Posted(x, r) /\ HasClaim("tell", x, r)
    BY <1>0, <1>1, <1>4, <1>7, <1>11, OnlyClaim DEF Claimed
  <2> QED BY <1>0, <1>1, <1>4, <1>11, <2>1 DEF Claimed, ClaimsExpected
<1>13. /\ r \in Script => r \in beingBuilt
       /\ r \in beingBuilt => r \notin Worker
  BY <1>0, <1>12 DEF Expects, Types, FlagsOK, BuildAssumption
<1>14. /\ CalledOnce'
       /\ \A s : /\ CompileFinished(s) \in Called' <=> CompileFinished(s) \in Called
                 /\ BuildSelfThread(s) \in Called' <=> BuildSelfThread(s) \in Called
       /\ \A d, q : Posted(d, q)' <=> Posted(d, q) \/ (d = x /\ q = r /\ r \in Worker)
  <2>1. PostAll(Told(x, r)) /\ (r \in Worker => ~Posted(x, r))
    BY <1>12, <1>b, <1>c DEF TellRequester
  <2> QED BY <1>0, <1>1, <2>1, ProjectTold
<1>15. \A a, s : a # "erase" => (AtIn(New, a, s) <=> AtIn(Old, a, s))
  <2> SUFFICES ASSUME NEW a, NEW s, a # "erase" PROVE AtIn(New, a, s) <=> AtIn(Old, a, s)
    OBVIOUS
  <2>1. AtIn(Old, a, s) <=> a = "tell" /\ s = x
    BY <1>1, <1>b DEF AtIn
  <2>2. AtIn(New, a, s) <=> a = "tell" /\ s = x
    BY <1>5, <1>6, <1>8 DEF AtIn
  <2> QED BY <2>1, <2>2
<1>16. OneToken' /\ TokensGoOn'
  <2>1. \A s \in Script : \A u \in Thread \cup {None} : \A a \in TokenKinds :
          HasToken(a, s, u)' => HasToken(a, s, u)
    <3> SUFFICES ASSUME NEW s \in Script
                 PROVE  \A u \in Thread \cup {None} : \A a \in TokenKinds :
                          HasToken(a, s, u)' => HasToken(a, s, u)
      OBVIOUS
    <3>1. \A a \in {"check", "launch", "lock", "tell", "last"} : AtIn(New, a, s) => AtIn(Old, a, s)
      BY <1>15
    <3>2. buildDeps' = buildDeps
      BY <1>2 DEF Unmoved
    <3> QED BY <1>2, <1>7, <1>14, <3>1, <3>2, TokensWithSwap
  <2>2. beingBuilt' = beingBuilt /\ buildDeps' = buildDeps
    BY <1>2 DEF Unmoved
  <2> QED BY <1>0, <2>1, <2>2, TokensKept
<1>17. Claimed'
  <2>1. ASSUME NEW d \in Script, NEW q \in Requester PROVE SameClaims(d, q) \/ Settled(d, q)'
    <3>1. Expects(q, d)' <=> Expects(q, d)
      BY <1>2, UnmovedKeeps
    <3>2. CASE ~(d = x /\ q = r)
      <4>1. Doing("tell", d)' <=> Doing("tell", d)
        BY <1>7, <1>15, HereKept
      <4>2. (Notes(d, q)' <=> Notes(d, q)) /\ (Posted(d, q)' <=> Posted(d, q))
        BY <1>2, <1>14, <3>2, <4>1, UnmovedKeeps
      <4>3. \A at \in ClaimKinds : ClaimsIn(Old, t, at, d, q) <=> ClaimsIn(New, t, at, d, q)
        BY <1>10, <3>2
      <4> QED BY <1>7, <3>1, <4>2, <4>3, ClaimsSame
    <3>3. CASE d = x /\ q = r
      <4>1. ~Notes(d, q)'
        <5>1. Here("tell", x, t)'
          BY <1>5, <1>7, <1>8 DEF Here, Swap
        <5> QED BY <3>3, <5>1 DEF Notes, Doing
      <4>2. PICK b \in ClaimKinds : b = IF r \in Script THEN "erase" ELSE "posted"
        BY DEF ClaimKinds
      <4>3. \A at \in ClaimKinds : ClaimsIn(New, t, at, d, q) => at = b
        BY <1>4, <1>10, <1>13, <3>3, <4>2 DEF Requester
      <4>4. Posted(d, q)' <=> b = "posted"
        BY <1>12, <1>13, <1>14, <3>3, <4>2 DEF Requester
      <4>5. ClaimsIn(New, t, b, d, q) \/ (b = "posted" /\ Posted(d, q)')
        BY <1>10, <1>13, <3>3, <4>2, <4>4
      <4>6. ClaimsIn(Old, t, "tell", d, q)
        BY <1>11, <3>3
      <4> QED BY <1>0, <1>7, <1>11, <3>1, <4>1, <4>3, <4>4, <4>5, <4>6, ClaimMoves
    <3> QED BY <3>2, <3>3
  <2> QED BY <1>0, <2>1, ClaimedStep
<1>18. Flags' /\ NothingCanceled'
  BY <1>0, <1>2, UnmovedKeeps
<1>19. ProjectsWait'
  <2>1. \A h \in New : h.at # "start"
    BY <1>5, <1>6, <1>8
  <2> QED BY <1>0, <1>2, <1>7, <2>1, StartingMoves DEF ProjectsWait, Unmoved
<1> QED BY <1>9, <1>14, <1>16, <1>17, <1>18, <1>19 DEF InHand, GoingOn

(* A script is told by one thread at a time, of one dependency.              *)
LEMMA OneTold ==
  ASSUME InOrder, Framed, NEW t \in Thread, NEW f \in On(t), f.at \in {"erase", "last"},
         NEW u \in Thread, NEW g \in On(u), g.at \in {"erase", "last"}, f.s = g.s
  PROVE  t = u /\ f = g /\ f = Top(t) /\ At(t, f.at)
<1>1. t = u
  BY DEF Framed, TellsApart
<1>2. Covered
  BY DEF Framed
<1>3. f = Top(t) /\ At(t, f.at)
  BY <1>2, IsTop DEF CoveredKinds
<1>4. g = Top(u)
  BY <1>2, IsTop DEF CoveredKinds
<1> QED BY <1>1, <1>3, <1>4

LEMMA BuildIsCompletedInHand ==
  ASSUME BuildAssumption, InOrder, InHand, NEW t \in Thread, BuildIsCompleted(t)
  PROVE  InHand'
<1>a. PICK f, x, Old, R, New :
        f = Top(t) /\ x = f.s /\ Old = {f} /\ R = Rest(t) /\ New = {}
  OBVIOUS
<1>0. /\ At(t, "tell") /\ Framed /\ Types /\ Covered /\ OneToken /\ TokensGoOn /\ CalledOnce /\ Flags
      /\ NothingCanceled /\ Claimed /\ ProjectsWait
  BY DEF BuildIsCompleted, InHand, InOrder, Framed, GoingOn
<1>1. /\ f \in On(t) /\ f.at = "tell" /\ x \in Script /\ f.tell = <<>>
  BY <1>a, <1>0, TopKnown, DoneFields DEF BuildIsCompleted
<1>2. /\ workId' = [workId EXCEPT ![x] = None] /\ initiator' = [initiator EXCEPT ![x] = None]
      /\ pseudoInitiators' = [pseudoInitiators EXCEPT ![x] = <<>>]
      /\ buildDeps' = [buildDeps EXCEPT ![x] = {}] /\ beingBuilt' = beingBuilt \ {x}
      /\ doneMutex' = [doneMutex EXCEPT ![x] = None] /\ buildMutex' = buildMutex /\ compMutex' = compMutex
      /\ Return(t) /\ calls' = calls /\ compilers' = compilers /\ buildCanceled' = buildCanceled
      /\ stopWorker' = stopWorker /\ working' = working /\ busy' = busy
  BY <1>a DEF BuildIsCompleted, ClearBuildInformation, workspace
<1>3. /\ \A s \in Script : s # x => /\ workId'[s] = workId[s] /\ initiator'[s] = initiator[s]
                                    /\ pseudoInitiators'[s] = pseudoInitiators[s]
                                    /\ buildDeps'[s] = buildDeps[s] /\ doneMutex'[s] = doneMutex[s]
      /\ workId'[x] = None /\ initiator'[x] = None /\ pseudoInitiators'[x] = <<>>
      /\ buildDeps'[x] = {}
  BY <1>0, <1>1, <1>2 DEF Types, RequestsOK, ProgressOK, MutexesOK
<1>4. Swap(t, R, Old, New) /\ Covered'
  BY <1>0, <1>2, <1>a, ReturnSwaps
<1>5. Framed'
  <2>1. ASSUME NEW u \in Thread, NEW h \in On(u), u # t \/ h \in R PROVE KeepsHeld(u, h)
    <3>1. f.at = "tell" /\ Swap(t, R, {f}, New)
      BY <1>a, <1>1, <1>4
    <3>2. Swap(t, R, {f}, New) /\ Framed /\ (u # t \/ h \in R)
      BY <1>0, <2>1, <3>1
    <3>3. /\ f.at \in BuildKinds /\ h.at \in BuildKinds => h.s # f.s
          /\ f.at = "tell" /\ h.at = "tell" => h.s # f.s
          /\ f.at \in {"launched", "unlock"} /\ h.at \in {"launched", "unlock"} => h.s # f.s
          /\ h.at \in BuildKinds \cup {"tell", "launched", "unlock"} => h.s \in Script
      BY ONLY BuildAssumption, InOrder, u \in Thread, h \in On(u), <3>2, HeldByOthers
    <3> QED BY <1>2, <1>3, <1>a, <3>1, <3>3 DEF KeepsHeld
  <2>2. R \subseteq On(t)
    BY <1>4 DEF Swap
  <2> QED BY <1>0, <1>4, <1>a, <2>1, <2>2, FramedStep
<1>6. HasToken("tell", x, t) /\ "tell" \in TokenKinds /\ t \in Thread \cup {None}
  BY <1>1, <1>a DEF HasToken, Here, TokenKinds
<1>7. x \in beingBuilt /\ (x \notin Unresolvable => buildDeps[x] = {})
  BY <1>0, <1>1, <1>6 DEF TokensGoOn
<1>8. ASSUME NEW u \in Thread, NEW h \in On(u), h.at = "last" PROVE h.s # x
  <2>1. SUFFICES ASSUME h.s = x PROVE FALSE
    OBVIOUS
  <2>2. buildDeps[x] = {}
    BY <1>0, <1>7, <1>8, <2>1 DEF Framed, Sounds, Sound
  <2>3. HasToken("last", x, u) /\ "last" \in TokenKinds /\ u \in Thread \cup {None}
    BY <1>8, <2>1, <2>2 DEF HasToken, Here, TokenKinds
  <2> QED BY <1>0, <1>1, <1>6, <2>3 DEF OneToken
<1>9. \A s : \A u \in Thread : \A a \in {"check", "launch", "lock", "tell", "last"} :
        Here(a, s, u)' => /\ Here(a, s, u) /\ (s = x => a # "last")
                          /\ s = x => a # "tell" \/ u # t
  <2> SUFFICES ASSUME NEW s, NEW u \in Thread,
                      NEW a \in {"check", "launch", "lock", "tell", "last"}, Here(a, s, u)'
               PROVE  /\ Here(a, s, u) /\ (s = x => a # "last")
                      /\ s = x => a # "tell" \/ u # t
    OBVIOUS
  <2>1. Here(a, s, u)
    BY <1>4, <1>a, HereMoves DEF AtIn
  <2>2. s = x => a # "last"
    BY <1>8, <2>1 DEF Here
  <2>3. ~(s = x /\ a = "tell" /\ u = t)
    <3>1. SUFFICES ASSUME s = x, a = "tell", u = t PROVE FALSE
      OBVIOUS
    <3>2. PICK h \in R : h.at = "tell" /\ h.s = x
      BY <1>4, <1>a, <3>1, HereMoves DEF AtIn
    <3>3. Under(h, f)
      BY <1>4, <1>a DEF Swap
    <3> QED BY <1>1, <1>a, <3>2, <3>3 DEF Under
  <2> QED BY <2>1, <2>2, <2>3
<1>10. CalledOnce' /\ Called' = Called /\ \A d, q : Posted(d, q)' <=> Posted(d, q)
  BY <1>0, <1>2, CallsSame
<1>11. \A s \in Script : \A u \in Thread \cup {None} : \A a \in TokenKinds :
         HasToken(a, s, u)' => HasToken(a, s, u) /\ (s = x => a # "tell" \/ u # t)
  <2> SUFFICES ASSUME NEW s \in Script, NEW u \in Thread \cup {None}, NEW a \in TokenKinds,
                      HasToken(a, s, u)'
               PROVE  HasToken(a, s, u) /\ (s = x => a # "tell" \/ u # t)
    OBVIOUS
  <2>1. CASE a \in {"check", "launch", "lock", "tell", "last"}
    <3>1. u \in Thread /\ Here(a, s, u)'
      BY <2>1 DEF HasToken
    <3>2. /\ Here(a, s, u) /\ (s = x => a # "last")
          /\ s = x => a # "tell" \/ u # t
      BY <1>9, <2>1, <3>1
    <3>3. a = "last" => buildDeps[s] = {}
      BY <1>3, <2>1, <3>2 DEF HasToken
    <3> QED BY <2>1, <3>1, <3>2, <3>3 DEF HasToken
  <2>2. CASE a \in {"compiler", "finished", "self"}
    BY <1>2, <1>10, <2>2 DEF HasToken
  <2> QED BY <2>1, <2>2 DEF TokenKinds
<1>12. OneToken' /\ TokensGoOn'
  <2>1. \A s \in Script \ {x} : \A u \in Thread \cup {None} : \A a \in TokenKinds :
          HasToken(a, s, u)' => HasToken(a, s, u)
    BY <1>11
  <2>2. PICK b \in TokenKinds, v \in Thread \cup {None} : b = "tell" /\ v = t
    BY <1>6
  <2>3. \A u \in Thread \cup {None} : \A a \in TokenKinds : ~HasToken(a, x, u)'
    <3>1. \A u \in Thread \cup {None} : \A a \in TokenKinds :
            HasToken(a, x, u) => a = "tell" /\ u = t
      BY <1>0, <1>1, <1>6 DEF OneToken
    <3> QED BY <1>1, <1>11, <3>1
  <2>4. \A u \in Thread \cup {None} : \A a \in TokenKinds : HasToken(a, x, u)' =>
           /\ a = b /\ u = v /\ x \in beingBuilt'
           /\ x \in Unresolvable => b \in {"lock", "tell"}
           /\ x \notin Unresolvable => buildDeps'[x] = {}
    BY <2>3
  <2>5. \A s \in beingBuilt \ {x} : /\ s \in beingBuilt'
                                    /\ buildDeps[s] = {} => buildDeps'[s] = {}
    BY <1>0, <1>2, <1>3 DEF Types, FlagsOK
  <2>6. OneToken /\ TokensGoOn /\ x \in Script
    BY <1>0, <1>1
  <2> QED BY ONLY <2>6, b \in TokenKinds, v \in Thread \cup {None}, <2>1, <2>4, <2>5, TokenStep
<1>13. Claimed'
  <2>1. ASSUME NEW d \in Script, NEW q \in Requester PROVE SameClaims(d, q)
    <3>1. \A at : ~ClaimsIn(Old, t, at, d, q) /\ ~ClaimsIn(New, t, at, d, q)
      <4>1. \A at : ~FrameClaims(f, t, at, d, q)
        BY <1>1, KindClaims
      <4> QED BY <1>a, <4>1 DEF ClaimsIn
    <3>2. Notes(d, q)' <=> Notes(d, q)
      <4>1. CASE d = x
        <5>1. ~Notes(d, q)
          BY <1>6, <4>1 DEF Notes, Doing, HasToken
        <5>2. q # None
          BY DEF BuildAssumption
        <5>3. Elems(<<>>) = {}
          BY DEF Elems
        <5> QED BY <1>3, <4>1, <5>1, <5>2, <5>3 DEF Notes
      <4>2. CASE d # x
        <5>1. ~AtIn(Old, "tell", d) /\ ~AtIn(New, "tell", d)
          BY <1>a, <4>2 DEF AtIn
        <5>2. Doing("tell", d)' <=> Doing("tell", d)
          BY <1>4, <5>1, HereKept
        <5> QED BY <1>3, <4>2, <5>2 DEF Notes
      <4> QED BY <4>1, <4>2
    <3>3. Expects(q, d)' <=> Expects(q, d)
      BY <1>2, <1>3, <1>7 DEF Expects
    <3> QED BY <1>4, <1>10, <3>1, <3>2, <3>3, ClaimsSame
  <2> QED BY <1>0, <2>1, ClaimedStep
<1>14. Flags' /\ NothingCanceled'
  <2>1. Elems(<<>>) = {} /\ Distinct(<<>>)
    BY DEF Elems, Distinct
  <2>2. ASSUME NEW s \in Script
        PROVE  /\ s \notin beingBuilt' =>
                    /\ workId'[s] = None /\ initiator'[s] = None /\ pseudoInitiators'[s] = <<>>
                    /\ buildDeps'[s] = {}
               /\ s \in beingBuilt' => /\ workId'[s] # None
                                       /\ initiator'[s] = IF workId'[s] \in Script THEN workId'[s] ELSE None
               /\ Distinct(pseudoInitiators'[s]) /\ workId'[s] \notin Elems(pseudoInitiators'[s])
    BY <1>0, <1>2, <1>3, <2>1 DEF Flags
  <2>3. Flags'
    BY <2>2 DEF Flags
  <2>4. NothingCanceled'
    BY <1>0, <1>2 DEF NothingCanceled
  <2> QED BY <2>3, <2>4
<1>15. ProjectsWait'
  <2>1. \A g \in New : g.at # "start"
    BY <1>a
  <2> QED BY <1>0, <1>2, <1>4, <2>1, StartingMoves DEF ProjectsWait
<1> QED BY <1>5, <1>10, <1>12, <1>13, <1>14, <1>15 DEF InHand, GoingOn

(* The dependency is removed from the list of the script that waits for it.  *)
LEMMA EraseDependencyInHand ==
  ASSUME BuildAssumption, InOrder, InHand, NEW t \in Thread, EraseDependency(t)
  PROVE  InHand'
<1>b. PICK f, x, y, Old, R :
        f = Top(t) /\ x = f.s /\ y = f.dep /\ Old = {f} /\ R = Rest(t)
  OBVIOUS
<1>c. PICK g, New : g = [f EXCEPT !.at = "last"] /\ New = {g}
  OBVIOUS
<1>0. /\ At(t, "erase") /\ Framed /\ Types /\ Covered /\ OneToken /\ TokensGoOn /\ CalledOnce /\ Flags
      /\ NothingCanceled /\ Claimed /\ ProjectsWait
  BY DEF EraseDependency, InHand, InOrder, Framed, GoingOn
<1>1. /\ f \in On(t) /\ f.at = "erase" /\ x \in Script /\ y \in Script /\ f \in ToldFrame
      /\ Fits(f, t) /\ Sound(f)
  BY <1>b, <1>0, TopKnown, ToldFields
<1>2. /\ buildDeps' = [buildDeps EXCEPT ![x] = @ \ {y}] /\ beingBuilt' = beingBuilt
      /\ requests' = requests /\ GoTo(t, "last") /\ calls' = calls /\ compilers' = compilers
      /\ mutexes' = mutexes /\ buildCanceled' = buildCanceled
      /\ stopWorker' = stopWorker /\ working' = working /\ busy' = busy
  BY <1>b DEF EraseDependency, flags, workspace
<1>3. /\ \A s \in Script : s # x => buildDeps'[s] = buildDeps[s]
      /\ buildDeps'[x] = buildDeps[x] \ {y}
      /\ workId' = workId /\ initiator' = initiator /\ pseudoInitiators' = pseudoInitiators
  BY <1>0, <1>1, <1>2 DEF Types, ProgressOK, requests
<1>4. g \in Frame /\ g.at = "last" /\ g.s = x /\ g.dep = y
  <2>1. g \in ToldFrame /\ g.at = "last" /\ g.s = x /\ g.dep = y
    BY <1>1, <1>b, <1>c DEF ToldFrame
  <2> QED BY <2>1 DEF Frame
<1>5. Swap(t, R, Old, New) /\ Covered'
  BY <1>0, <1>2, <1>4, <1>b, <1>c, GoToSwaps
<1>6. Framed'
  <2>1. Fits(g, t)'
    <3>1. PICK h \in On(t) : h.at = "tell" /\ h.s = y
      BY <1>1, <1>b DEF Fits
    <3>2. h \in On(t)'
      BY <1>1, <1>5, <1>b, <3>1 DEF Swap
    <3> QED BY <1>4, <3>1, <3>2 DEF Fits, AskKinds, BuildKinds
  <2>2. Sound(g)
    <3>1. x \notin Unresolvable
      <4>1. FrameClaims(f, t, "erase", y, x)
        BY <1>1, <1>b DEF FrameClaims
      <4>2. HasClaim("erase", y, x) /\ x \in Requester /\ "erase" \in ClaimKinds
        BY <1>1, <4>1 DEF HasClaim, InFrames, Requester, ClaimKinds
      <4>3. Expects(x, y)
        BY <1>0, <1>1, <4>2 DEF Claimed, ClaimsExpected
      <4> QED BY <1>1, <4>3 DEF Expects
    <3> QED BY <1>1, <1>4, <1>b, <3>1 DEF Sound, CancelKinds
  <2>3. /\ \A h \in New : Fits(h, t)' /\ Sound(h)
        /\ \A h \in New : h.at \in {"erase", "last"} =>
             \E e \in Old : e.at \in {"erase", "last"} /\ e.s = h.s
    BY <1>1, <1>4, <1>b, <1>c, <2>1, <2>2
  <2> QED BY ONLY <1>0, <1>2, <1>5, <2>3, FramedKept
<1>7. \A d \in Script : \A q \in Requester : \A at :
         /\ ClaimsIn(Old, t, at, d, q) <=> at = "erase" /\ x = q /\ y = d
         /\ ~ClaimsIn(New, t, at, d, q)
  <2> SUFFICES ASSUME NEW d \in Script, NEW q \in Requester, NEW at
      PROVE  /\ ClaimsIn(Old, t, at, d, q) <=> at = "erase" /\ x = q /\ y = d
             /\ ~ClaimsIn(New, t, at, d, q)
    OBVIOUS
  <2>1. FrameClaims(f, t, at, d, q) <=> at = "erase" /\ x = q /\ y = d
    BY <1>1, <1>b, KindClaims
  <2>2. ~FrameClaims(g, t, at, d, q)
    BY <1>4, NoClaims DEF AskKinds
  <2> QED BY <1>b, <1>c, <2>1, <2>2 DEF ClaimsIn
<1>8. /\ \A at \in ClaimKinds : ~Others(t, R, at, y, x)
      /\ ~Notes(y, x) /\ ~Posted(y, x) /\ HasClaim("erase", y, x) /\ Expects(x, y)
  <2>1. "erase" \in ClaimKinds /\ x \in Requester /\ ClaimsIn(Old, t, "erase", y, x)
    BY <1>1, <1>7 DEF ClaimKinds, Requester
  <2>2. /\ \A at \in ClaimKinds : ~Others(t, R, at, y, x)
        /\ ~Notes(y, x) /\ ~Posted(y, x) /\ HasClaim("erase", y, x)
    BY <1>0, <1>1, <1>5, <2>1, OnlyClaim DEF Claimed
  <2> QED BY <1>0, <1>1, <2>1, <2>2 DEF Claimed, ClaimsExpected
<1>9. x \in beingBuilt /\ x \notin Unresolvable /\ y \in buildDeps[x]
  BY <1>1, <1>8 DEF Expects
<1>10. CalledOnce' /\ Called' = Called /\ \A d, q : Posted(d, q)' <=> Posted(d, q)
  BY <1>0, <1>2, CallsSame
<1>11. \A a, s : a \notin {"erase", "last"} => (AtIn(New, a, s) <=> AtIn(Old, a, s))
  BY <1>1, <1>4, <1>b, <1>c DEF AtIn
<1>12. \A a, s : a # "erase" /\ (a = "last" => s # x) => (AtIn(New, a, s) <=> AtIn(Old, a, s))
  BY <1>1, <1>4, <1>b, <1>c DEF AtIn
<1>13. \A s : \A u \in Thread : \A a \in {"check", "launch", "lock", "tell", "last"} :
         (a = "last" /\ s = x) \/ (Here(a, s, u)' => Here(a, s, u))
  <2> SUFFICES ASSUME NEW s, NEW u \in Thread,
                      NEW a \in {"check", "launch", "lock", "tell", "last"},
                      ~(a = "last" /\ s = x), Here(a, s, u)'
               PROVE  Here(a, s, u)
    OBVIOUS
  <2>1. AtIn(New, a, s) <=> AtIn(Old, a, s)
    BY <1>12
  <2> QED BY <1>5, <2>1, HereKept
<1>14. OneToken' /\ TokensGoOn'
  <2>1. \A s \in Script \ {x} : \A u \in Thread \cup {None} : \A a \in TokenKinds :
          HasToken(a, s, u)' => HasToken(a, s, u)
    <3> SUFFICES ASSUME NEW s \in Script \ {x}
                 PROVE  \A u \in Thread \cup {None} : \A a \in TokenKinds :
                          HasToken(a, s, u)' => HasToken(a, s, u)
      OBVIOUS
    <3>1. \A a \in {"check", "launch", "lock", "tell", "last"} : \A u \in Thread :
            Here(a, s, u)' => Here(a, s, u)
      BY <1>13
    <3>2. buildDeps'[s] = {} => buildDeps[s] = {}
      BY <1>3
    <3> QED BY <1>2, <1>10, <3>1, <3>2, TokensSame
  <2>2. \A u \in Thread \cup {None} : \A a \in TokenKinds : HasToken(a, x, u)' =>
           /\ a = "last" /\ u = t /\ buildDeps'[x] = {}
    <3> SUFFICES ASSUME NEW u \in Thread \cup {None}, NEW a \in TokenKinds, HasToken(a, x, u)'
                 PROVE  a = "last" /\ u = t /\ buildDeps'[x] = {}
      OBVIOUS
    <3>1. ~HasToken(a, x, u)
      BY <1>0, <1>1, <1>9 DEF TokensGoOn
    <3>2. a = "last"
      <4>1. SUFFICES ASSUME a # "last" PROVE FALSE
        OBVIOUS
      <4>2. CASE a \in {"check", "launch", "lock", "tell"}
        <5>1. u \in Thread /\ Here(a, x, u)'
          BY <4>2 DEF HasToken
        <5>2. Here(a, x, u)
          BY <1>13, <4>1, <4>2, <5>1
        <5> QED BY <3>1, <4>2, <5>1, <5>2 DEF HasToken
      <4>3. CASE a \in {"compiler", "finished", "self"}
        BY <1>2, <1>10, <3>1, <4>3 DEF HasToken
      <4> QED BY <4>1, <4>2, <4>3 DEF TokenKinds
    <3>3. u \in Thread /\ Here("last", x, u)' /\ buildDeps'[x] = {}
      BY <3>2 DEF HasToken
    <3>4. u = t
      <4>1. SUFFICES ASSUME u # t PROVE FALSE
        OBVIOUS
      <4>2. PICK h \in On(u) : h.at = "last" /\ h.s = x
        BY <1>5, <3>3, <4>1 DEF Here, Swap
      <4> QED BY <1>0, <1>1, <1>b, <3>3, <4>1, <4>2, OneTold
    <3> QED BY <3>2, <3>3, <3>4
  <2>3. PICK b \in TokenKinds, v \in Thread \cup {None} : b = "last" /\ v = t
    BY DEF TokenKinds
  <2>4. \A u \in Thread \cup {None} : \A a \in TokenKinds : HasToken(a, x, u)' =>
           /\ a = b /\ u = v /\ x \in beingBuilt'
           /\ x \in Unresolvable => b \in {"lock", "tell"}
           /\ x \notin Unresolvable => buildDeps'[x] = {}
    BY <1>2, <1>9, <2>2, <2>3
  <2>5. \A s \in beingBuilt \ {x} : /\ s \in beingBuilt'
                                    /\ buildDeps[s] = {} => buildDeps'[s] = {}
    BY <1>0, <1>2, <1>3 DEF Types, FlagsOK
  <2>6. OneToken /\ TokensGoOn /\ x \in Script
    BY <1>0, <1>1
  <2> QED BY ONLY <2>6, b \in TokenKinds, v \in Thread \cup {None}, <2>1, <2>4, <2>5, TokenStep
<1>15. \A d, q : Notes(d, q)' <=> Notes(d, q)
  <2> SUFFICES ASSUME NEW d, NEW q PROVE Notes(d, q)' <=> Notes(d, q)
    OBVIOUS
  <2>1. AtIn(New, "tell", d) <=> AtIn(Old, "tell", d)
    BY <1>11
  <2>2. Doing("tell", d)' <=> Doing("tell", d)
    BY <1>5, <2>1, HereKept
  <2> QED BY <1>3, <2>2 DEF Notes
<1>16. Claimed'
  <2>1. ASSUME NEW d \in Script, NEW q \in Requester PROVE SameClaims(d, q) \/ Settled(d, q)'
    <3>1. CASE ~(d = y /\ q = x)
      <4>1. Expects(q, d)' <=> Expects(q, d)
        BY <1>2, <1>3, <3>1 DEF Expects
      <4>2. \A at \in ClaimKinds : ClaimsIn(Old, t, at, d, q) <=> ClaimsIn(New, t, at, d, q)
        BY <1>7, <3>1
      <4> QED BY <1>5, <1>10, <1>15, <4>1, <4>2, ClaimsSame
    <3>2. CASE d = y /\ q = x
      <4>1. ~Expects(q, d)'
        BY <1>1, <1>3, <3>2 DEF Expects
      <4>2. \A at \in ClaimKinds : ~InFrames(at, d, q)'
        BY <1>5, <1>7, <1>8, <3>2, ClaimsMove
      <4>3. \A at \in ClaimKinds : ~HasClaim(at, d, q)'
        BY <1>8, <1>10, <1>15, <3>2, <4>2 DEF HasClaim
      <4> QED BY <4>1, <4>3, SettledNot
    <3> QED BY <3>1, <3>2
  <2> QED BY <1>0, <2>1, ClaimedStep
<1>17. Flags' /\ NothingCanceled'
  <2>1. ASSUME NEW s \in Script
        PROVE  /\ s \notin beingBuilt' =>
                    /\ workId'[s] = None /\ initiator'[s] = None /\ pseudoInitiators'[s] = <<>>
                    /\ buildDeps'[s] = {}
               /\ s \in beingBuilt' => /\ workId'[s] # None
                                       /\ initiator'[s] = IF workId'[s] \in Script THEN workId'[s] ELSE None
               /\ Distinct(pseudoInitiators'[s]) /\ workId'[s] \notin Elems(pseudoInitiators'[s])
    BY <1>0, <1>2, <1>3, <1>9 DEF Flags
  <2>2. Flags'
    BY <2>1 DEF Flags
  <2>3. NothingCanceled'
    BY <1>0, <1>2 DEF NothingCanceled
  <2> QED BY <2>2, <2>3
<1>18. ProjectsWait'
  <2>1. \A h \in New : h.at # "start"
    BY <1>4, <1>c
  <2> QED BY <1>0, <1>2, <1>5, <2>1, StartingMoves DEF ProjectsWait
<1> QED BY <1>6, <1>10, <1>14, <1>16, <1>17, <1>18 DEF InHand, GoingOn

(* A project is told that one of its scripts is done; the last one ends the  *)
(* build, and everybody is told.                                             *)
LEMMA CallsAfter ==
  ASSUME Types, CalledOnce, NEW c, calls # <<>>, Head(calls) = c, c # WorkCompleted, NEW over,
         calls' = Tail(calls) \o (IF over THEN <<WorkCompleted>> ELSE <<>>)
  PROVE  /\ CalledOnce'
         /\ Called' \subseteq (Called \ {c}) \cup {WorkCompleted} /\ Called \ {c} \subseteq Called'
<1>1. calls \in Seq(DelayedCall) /\ Tail(calls) \in Seq(DelayedCall) /\ Once(calls)
  BY DEF Types, CallsOK, CalledOnce, Once
<1>2. PICK rest : rest = Tail(calls)
  OBVIOUS
<1>3. /\ Once(rest) /\ Called = {c} \cup Elems(rest) /\ c \notin Elems(rest)
      /\ rest \in Seq(DelayedCall)
  BY <1>1, <1>2, OnceTail DEF Called
<1>4. CASE over
  <2>1. calls' = Append(rest, WorkCompleted)
    BY <1>2, <1>3, <1>4, AppendIsConcat
  <2>2. WorkCompleted \in DelayedCall
    BY NewCalls
  <2>3. /\ Once(Append(rest, WorkCompleted))
        /\ Elems(Append(rest, WorkCompleted)) = Elems(rest) \cup {WorkCompleted}
    BY <1>3, <2>2, OnceAppend
  <2> QED BY <1>3, <2>1, <2>3 DEF Called, CalledOnce, Once
<1>5. CASE ~over
  <2>1. calls' = rest
    BY <1>2, <1>3, <1>5
  <2> QED BY <1>3, <2>1 DEF Called, CalledOnce, Once
<1> QED BY <1>4, <1>5

LEMMA OnResourceWorkCompletedInHand ==
  ASSUME BuildAssumption, InOrder, InHand, NEW x \in Script, NEW w \in Worker,
         OnResourceWorkCompleted(x, w)
  PROVE  InHand'
<1>a. PICK c, over : /\ c = ResourceWorkCompleted(x, w)
                     /\ over <=> busy /\ working[w] = {x} /\ \A v \in Worker \ {w} : ~Waits(v)
                     /\ busy' = (busy /\ ~over)
                     /\ calls' = Tail(calls) \o (IF over THEN <<WorkCompleted>> ELSE <<>>)
                     /\ over \in BOOLEAN
  <2> DEFINE ov == busy /\ working[w] = {x} /\ \A v \in Worker \ {w} : ~Waits(v)
  <2>1. /\ busy' = (busy /\ ~ov) /\ ov \in BOOLEAN
        /\ calls' = Tail(calls) \o (IF ov THEN <<WorkCompleted>> ELSE <<>>)
    BY DEF OnResourceWorkCompleted
  <2> HIDE DEF ov
  <2>2. ov <=> busy /\ working[w] = {x} /\ \A v \in Worker \ {w} : ~Waits(v)
    BY DEF ov
  <2> QED BY <2>1, <2>2
<1>0. /\ OneToken /\ TokensGoOn /\ CalledOnce /\ Types /\ Flags /\ NothingCanceled
      /\ Claimed /\ ProjectsWait /\ busy \in BOOLEAN /\ Framed /\ Covered
  BY DEF InHand, GoingOn, InOrder, Types, WorkspaceOK, Framed
<1>1. /\ calls # <<>> /\ Head(calls) = c /\ stack' = stack /\ mutexes' = mutexes
      /\ beingBuilt' = beingBuilt /\ buildCanceled' = buildCanceled /\ stopWorker' = stopWorker
      /\ requests' = requests /\ buildDeps' = buildDeps /\ compilers' = compilers
      /\ working' = [working EXCEPT ![w] = @ \ {x}]
  BY <1>a DEF OnResourceWorkCompleted, flags, progress
<1>2. c # WorkCompleted /\ w \in Requester /\ w \notin Script
  BY <1>a, CallKinds DEF BuildAssumption, Requester
<1>3. /\ CalledOnce'
      /\ Called' \subseteq (Called \ {c}) \cup {WorkCompleted} /\ Called \ {c} \subseteq Called'
  BY <1>0, <1>1, <1>2, <1>a, CallsAfter
<1>4. /\ c \in Called
  <2>1. calls \in Seq(DelayedCall)
    BY <1>0 DEF Types, CallsOK
  <2> QED BY <1>1, <2>1, ElemsIn DEF Called
<1>5. /\ working'[w] = working[w] \ {x}
      /\ \A v \in Worker : v # w => working'[v] = working[v]
  BY <1>0, <1>1 DEF Types, WorkspaceOK
<1>6. Framed'
  BY <1>1, StacksStay
<1>7. \A at, s, u : Here(at, s, u)' <=> Here(at, s, u)
  BY <1>1, HereSame
<1>8. OneToken' /\ TokensGoOn'
  <2>1. ASSUME NEW s \in Script
        PROVE  \A u \in Thread \cup {None} : \A a \in TokenKinds : HasToken(a, s, u)' => HasToken(a, s, u)
    <3>1. /\ CompileFinished(s) \in Called' => CompileFinished(s) \in Called
          /\ BuildSelfThread(s) \in Called' => BuildSelfThread(s) \in Called
      <4>1. CompileFinished(s) # WorkCompleted /\ BuildSelfThread(s) # WorkCompleted
        BY DEF CompileFinished, BuildSelfThread, WorkCompleted
      <4> QED BY <1>3, <4>1
    <3>2. \A a \in {"check", "launch", "lock", "tell", "last"} : \A u \in Thread :
            Here(a, s, u)' => Here(a, s, u)
      BY <1>7
    <3> QED BY <1>1, <3>1, <3>2, TokensSame
  <2>2. \A s \in beingBuilt : s \in beingBuilt' /\ (buildDeps[s] = {} => buildDeps'[s] = {})
    BY <1>1
  <2> QED BY <1>0, <2>1, <2>2, TokensKept
<1>9. \A d, q : Notes(d, q)' <=> Notes(d, q)
  BY <1>1, HereSame DEF Notes, requests
<1>10. \A at, d, q : InFrames(at, d, q)' <=> InFrames(at, d, q)
  BY <1>1, HereSame
<1>11. Claimed'
  <2>1. ASSUME NEW d \in Script, NEW q \in Requester PROVE SameClaims(d, q) \/ Settled(d, q)'
    <3>1. CASE ~(d = x /\ q = w)
      <4>1. Expects(q, d)' <=> Expects(q, d)
        BY <1>1, <1>5, <3>1 DEF Expects, Requester
      <4>2. ResourceWorkCompleted(d, q) # c /\ ResourceWorkCompleted(d, q) # WorkCompleted
        BY <1>a, <3>1 DEF ResourceWorkCompleted, WorkCompleted
      <4>3. Posted(d, q)' <=> Posted(d, q)
        BY <1>3, <4>2 DEF Posted
      <4> QED BY <1>9, <1>10, <4>1, <4>3 DEF SameClaims, HasClaim
    <3>2. CASE d = x /\ q = w
      <4>1. ~Expects(q, d)'
        BY <1>2, <1>5, <3>2 DEF Expects
      <4>2. "posted" \in ClaimKinds /\ HasClaim("posted", d, q)
        BY <1>4, <1>a, <3>2 DEF HasClaim, Posted, ClaimKinds
      <4>3. \A at \in ClaimKinds : HasClaim(at, d, q) => at = "posted"
        BY <1>0, <4>2 DEF Claimed, OneClaim
      <4>4. ~Posted(d, q)'
        BY <1>2, <1>3, <1>a, <3>2 DEF Posted
      <4>5. ~InFrames("posted", d, q)
        BY DEF InFrames, FrameClaims
      <4>6. ASSUME NEW at \in ClaimKinds, HasClaim(at, d, q)' PROVE FALSE
        <5>1. InFrames(at, d, q)' \/ (at = "noted" /\ Notes(d, q)')
          BY <4>4, <4>6 DEF HasClaim
        <5>2. InFrames(at, d, q) \/ (at = "noted" /\ Notes(d, q))
          BY <5>1, <1>9, <1>10
        <5>3. at = "posted"
          BY <4>3, <5>2 DEF HasClaim
        <5> QED BY <4>5, <5>2, <5>3
      <4>7. \A at \in ClaimKinds : ~HasClaim(at, d, q)'
        BY <4>6
      <4> QED BY <4>1, <4>7, SettledNot
    <3> QED BY <3>1, <3>2
  <2> QED BY <1>0, <2>1, ClaimedStep
<1>12. Flags'
  BY <1>0, <1>1 DEF Flags, requests
<1>13. NothingCanceled'
  BY <1>0, <1>1 DEF NothingCanceled
<1>14. ProjectsWait'
  <2>1. SUFFICES ASSUME NEW v \in Worker
                 PROVE  /\ Starting(v)' => working'[v] = {} /\ busy'
                        /\ ~busy' => working'[v] = {}
    BY DEF ProjectsWait
  <2>2. /\ Starting(v) => working[v] = {} /\ busy
        /\ ~busy => working[v] = {}
    BY <1>0 DEF ProjectsWait
  <2>3. Starting(v)' <=> Starting(v)
    BY <1>1 DEF Starting, On
  <2>4. Starting(v) => At(v, "start")
    <3> SUFFICES ASSUME Starting(v) PROVE At(v, "start")
      OBVIOUS
    <3>1. PICK f \in On(v) : f.at = "start"
      BY DEF Starting
    <3>2. v \in Thread /\ f.at \notin CoveredKinds
      BY <3>1 DEF CoveredKinds, Thread
    <3>3. At(v, f.at)
      BY <1>0, <3>2, IsTop
    <3> QED BY <3>1, <3>3
  <2>5. CASE over
    <3>1. working'[v] = {} /\ ~Starting(v)
      <4>1. CASE v = w
        BY <1>5, <1>a, <2>2, <2>5, <4>1
      <4>2. CASE v # w
        BY <1>5, <1>a, <2>4, <2>5, <4>2 DEF Waits
      <4> QED BY <4>1, <4>2
    <3> QED BY <2>3, <3>1
  <2>6. CASE ~over
    <3>1. busy' = busy /\ (working[v] = {} => working'[v] = {})
      BY <1>0, <1>5, <1>a, <2>6
    <3> QED BY <2>2, <2>3, <3>1
  <2> QED BY <2>5, <2>6
<1> QED BY <1>3, <1>6, <1>8, <1>11, <1>12, <1>13, <1>14 DEF InHand, GoingOn

(* Everybody has been told that the build is over.                           *)
LEMMA OnWorkCompletedInHand ==
  ASSUME BuildAssumption, InOrder, InHand, OnWorkCompleted
  PROVE  InHand'
<1>0. /\ OneToken /\ TokensGoOn /\ CalledOnce /\ Types /\ Flags /\ NothingCanceled
      /\ Claimed /\ ProjectsWait
  BY DEF InHand, GoingOn, InOrder
<1>1. /\ calls # <<>> /\ Head(calls) = WorkCompleted /\ calls' = Tail(calls)
      /\ stack' = stack /\ mutexes' = mutexes /\ Unmoved /\ compilers' = compilers
  BY DEF OnWorkCompleted, Calling, Unmoved, progress, workspace
<1>2. calls \in Seq(DelayedCall) /\ Once(calls)
  BY <1>0 DEF Types, CallsOK, CalledOnce, Once
<1>3. Once(calls') /\ Called = {WorkCompleted} \cup Called'
  <2>1. PICK rest : rest = Tail(calls)
    OBVIOUS
  <2>2. Once(rest) /\ Elems(calls) = {WorkCompleted} \cup Elems(rest)
    BY <1>1, <1>2, <2>1, OnceTail
  <2> QED BY <1>1, <2>1, <2>2 DEF Called
<1>4. CalledOnce'
  BY <1>3 DEF CalledOnce, Once
<1>5. \A at, s, u : Here(at, s, u)' <=> Here(at, s, u)
  BY <1>1, HereSame
<1>6. OneToken' /\ TokensGoOn'
  <2>1. ASSUME NEW s \in Script
        PROVE  \A u \in Thread \cup {None} : \A a \in TokenKinds : HasToken(a, s, u)' => HasToken(a, s, u)
    <3>1. /\ CompileFinished(s) \in Called' => CompileFinished(s) \in Called
          /\ BuildSelfThread(s) \in Called' => BuildSelfThread(s) \in Called
      BY <1>3
    <3>2. \A a \in {"check", "launch", "lock", "tell", "last"} : \A u \in Thread :
            Here(a, s, u)' => Here(a, s, u)
      BY <1>5
    <3> QED BY <1>1, <3>1, <3>2, TokensSame DEF Unmoved
  <2>2. \A s \in beingBuilt : s \in beingBuilt' /\ (buildDeps[s] = {} => buildDeps'[s] = {})
    BY <1>1 DEF Unmoved
  <2> QED BY <1>0, <2>1, <2>2, TokensKept
<1>7. Claimed'
  <2>1. ASSUME NEW d \in Script, NEW q \in Requester PROVE SameClaims(d, q)
    <3>1. ResourceWorkCompleted(d, q) # WorkCompleted
      BY CallKinds
    <3>2. Posted(d, q)' <=> Posted(d, q)
      BY <1>3, <3>1 DEF Posted
    <3>3. (Doing("tell", d)' <=> Doing("tell", d)) /\ \A at : InFrames(at, d, q)' <=> InFrames(at, d, q)
      BY <1>1, HereSame
    <3>4. (Notes(d, q)' <=> Notes(d, q)) /\ (Expects(q, d)' <=> Expects(q, d))
      BY <1>1, <3>3, UnmovedKeeps
    <3> QED BY <3>2, <3>3, <3>4 DEF SameClaims, HasClaim
  <2> QED BY <1>0, <2>1, ClaimedStep
<1>8. Framed' /\ Flags' /\ NothingCanceled'
  BY <1>0, <1>1, StacksStay, UnmovedKeeps
<1>9. ProjectsWait'
  BY <1>0, <1>1 DEF ProjectsWait, Unmoved, Starting, On
<1> QED BY <1>4, <1>6, <1>7, <1>8, <1>9 DEF InHand, GoingOn

(* A project's worker notes the scripts it waits for: it is to ask them.     *)
LEMMA WorkStartsInHand ==
  ASSUME BuildAssumption, InOrder, InHand, NEW w \in Worker, WorkStarts(w)
  PROVE  InHand'
<1>a. PICK f, k, Old, New, R : /\ f = Top(w) /\ k = Work(Children[w]) /\ Old = {f} /\ New = {k}
                               /\ R = Rest(w)
  OBVIOUS
<1>0. /\ At(w, "start") /\ Framed /\ Types /\ Covered /\ OneToken /\ TokensGoOn /\ CalledOnce /\ Flags
      /\ NothingCanceled /\ Claimed /\ ProjectsWait /\ w \in Thread
  BY DEF WorkStarts, InHand, InOrder, Framed, GoingOn, Thread
<1>1. /\ working' = [working EXCEPT ![w] = ChildrenOf(w)] /\ Become(w, k)
      /\ beingBuilt' = beingBuilt /\ buildCanceled' = buildCanceled /\ requests' = requests
      /\ buildDeps' = buildDeps /\ stopWorker' = stopWorker /\ busy' = busy
      /\ calls' = calls /\ compilers' = compilers /\ mutexes' = mutexes
  BY <1>a DEF WorkStarts, flags, progress
<1>2. /\ f \in On(w) /\ f.at = "start"
  BY <1>0, <1>a, TopKnown
<1>3. Starting(w) /\ working[w] = {} /\ busy
  BY <1>0, <1>2 DEF Starting, ProjectsWait
<1>4. Children[w] \in Seq(Script) /\ Distinct(Children[w]) /\ ChildrenOf(w) = Elems(Children[w])
  BY DEF BuildAssumption, Distinct, ChildrenOf, Elems
<1>5. k \in Frame
  BY <1>4, <1>a, NewFrames
<1>6. k.at = "work" /\ k.children = Children[w]
  BY <1>a DEF Work
<1>7. Swap(w, R, Old, New) /\ Covered'
  BY <1>0, <1>1, <1>5, <1>a, BecomeSwaps
<1>8. Framed'
  <2>1. Fits(k, w)'
    BY <1>6 DEF Fits, AskKinds, BuildKinds
  <2>2. Sound(k)
    BY <1>4, <1>6 DEF Sound, CancelKinds
  <2>3. /\ \A h \in New : Fits(h, w)' /\ Sound(h)
        /\ \A h \in New : h.at \in {"erase", "last"} =>
             \E e \in Old : e.at \in {"erase", "last"} /\ e.s = h.s
    BY <1>6, <1>a, <2>1, <2>2
  <2> QED BY ONLY <1>0, <1>1, <1>7, <2>3, FramedKept
<1>9. CalledOnce' /\ Called' = Called /\ \A d, q : Posted(d, q)' <=> Posted(d, q)
  BY <1>0, <1>1, CallsSame
<1>10. \A a, s : a \notin {"start", "work"} => ~AtIn(New, a, s) /\ ~AtIn(Old, a, s)
  BY <1>2, <1>6, <1>a DEF AtIn
<1>11. OneToken' /\ TokensGoOn'
  <2>1. ASSUME NEW s \in Script
        PROVE  \A u \in Thread \cup {None} : \A a \in TokenKinds : HasToken(a, s, u)' => HasToken(a, s, u)
    <3>1. \A a \in {"check", "launch", "lock", "tell", "last"} : AtIn(New, a, s) => AtIn(Old, a, s)
      BY <1>10
    <3> QED BY <1>1, <1>7, <1>9, <3>1, TokensWithSwap
  <2>2. \A s \in beingBuilt : s \in beingBuilt' /\ (buildDeps[s] = {} => buildDeps'[s] = {})
    BY <1>1
  <2> QED BY <1>0, <2>1, <2>2, TokensKept
<1>12. \A d, q : Notes(d, q)' <=> Notes(d, q)
  <2> SUFFICES ASSUME NEW d, NEW q PROVE Notes(d, q)' <=> Notes(d, q)
    OBVIOUS
  <2>1. AtIn(New, "tell", d) <=> AtIn(Old, "tell", d)
    BY <1>10
  <2>2. Doing("tell", d)' <=> Doing("tell", d)
    BY <1>7, <2>1, HereKept
  <2> QED BY <1>1, <2>2 DEF Notes, requests
<1>13. \A at, d, q : /\ ~ClaimsIn(Old, w, at, d, q)
                     /\ ClaimsIn(New, w, at, d, q) <=> at = "todo" /\ q = w /\ d \in ChildrenOf(w)
  <2> SUFFICES ASSUME NEW at, NEW d, NEW q
               PROVE  /\ ~ClaimsIn(Old, w, at, d, q)
                      /\ ClaimsIn(New, w, at, d, q) <=> at = "todo" /\ q = w /\ d \in ChildrenOf(w)
    OBVIOUS
  <2>1. ~FrameClaims(f, w, at, d, q)
    BY <1>2, NoClaims DEF AskKinds
  <2>2. FrameClaims(k, w, at, d, q) <=> at = "todo" /\ w = q /\ d \in Elems(Children[w])
    BY <1>6, KindClaims
  <2> QED BY <1>4, <1>a, <2>1, <2>2 DEF ClaimsIn
<1>14. /\ working'[w] = ChildrenOf(w) /\ w \notin Script /\ w \in Requester
       /\ \A v \in Worker : v # w => working'[v] = working[v]
  BY <1>0, <1>1 DEF Types, WorkspaceOK, BuildAssumption, Requester
<1>15. Claimed'
  <2>1. ASSUME NEW d \in Script, NEW q \in Requester PROVE SameClaims(d, q) \/ Settled(d, q)'
    <3>1. CASE q # w
      <4>1. Expects(q, d)' <=> Expects(q, d)
        BY <1>1, <1>14, <3>1 DEF Expects, Requester
      <4>2. \A at \in ClaimKinds : ClaimsIn(Old, w, at, d, q) <=> ClaimsIn(New, w, at, d, q)
        BY <1>13, <3>1
      <4> QED BY <1>7, <1>9, <1>12, <4>1, <4>2, ClaimsSame
    <3>2. CASE q = w
      <4>1. ~Expects(q, d) /\ (Expects(q, d)' <=> d \in ChildrenOf(w))
        BY <1>3, <1>14, <3>2 DEF Expects
      <4>2. \A at \in ClaimKinds : ~HasClaim(at, d, q)
        BY <1>0, <4>1, NoClaimUnexpected
      <4>3. ASSUME NEW at \in ClaimKinds
            PROVE  HasClaim(at, d, q)' <=> at = "todo" /\ d \in ChildrenOf(w)
        <5>1. InFrames(at, d, q)' <=> InFrames(at, d, q) \/ (at = "todo" /\ d \in ChildrenOf(w))
          BY <1>7, <1>13, <3>2, ClaimsMove
        <5>2. ~HasClaim(at, d, q)
          BY <4>2
        <5> QED BY <1>9, <1>12, <5>1, <5>2 DEF HasClaim
      <4>4. CASE d \in ChildrenOf(w)
        <5>1. PICK b \in ClaimKinds : b = "todo"
          BY DEF ClaimKinds
        <5>2. (\A at \in ClaimKinds : HasClaim(at, d, q)' => at = b) /\ HasClaim(b, d, q)'
          BY <4>3, <4>4, <5>1
        <5> QED BY <4>1, <4>4, <5>2, SettledAt
      <4>5. CASE d \notin ChildrenOf(w)
        BY <4>1, <4>3, <4>5, SettledNot
      <4> QED BY <4>4, <4>5
    <3> QED BY <3>1, <3>2
  <2> QED BY <1>0, <2>1, ClaimedStep
<1>16. Flags' /\ NothingCanceled'
  <2>1. Flags'
    BY <1>0, <1>1 DEF Flags, requests
  <2>2. NothingCanceled'
    BY <1>0, <1>1 DEF NothingCanceled
  <2> QED BY <2>1, <2>2
<1>17. ProjectsWait'
  <2>1. SUFFICES ASSUME NEW v \in Worker
                 PROVE  /\ Starting(v)' => working'[v] = {} /\ busy'
                        /\ ~busy' => working'[v] = {}
    BY DEF ProjectsWait
  <2>2. CASE v # w
    <3>1. \A g \in New : g.at # "start"
      BY <1>6, <1>a
    <3>2. Starting(v)' => Starting(v)
      BY <1>7, <3>1, StartingMoves
    <3> QED BY <1>0, <1>1, <1>14, <2>2, <3>2 DEF ProjectsWait
  <2>3. CASE v = w
    <3>1. R = {}
      BY <1>0, <1>a, WorkAlone
    <3>2. On(w)' = {k}
      BY <1>7, <1>a, <3>1 DEF Swap
    <3>3. ~Starting(v)'
      BY <1>6, <2>3, <3>2 DEF Starting
    <3> QED BY <1>1, <1>3, <3>3
  <2> QED BY <2>2, <2>3
<1> QED BY <1>8, <1>9, <1>11, <1>15, <1>16, <1>17 DEF InHand, GoingOn

(* The next build starts when every thread has come to rest.                 *)
LEMMA StartWorkingInHand ==
  ASSUME BuildAssumption, InOrder, InHand, StartWorking
  PROVE  InHand'
<1>0. /\ Framed /\ Types /\ Covered /\ OneToken /\ TokensGoOn /\ CalledOnce /\ Flags
      /\ NothingCanceled /\ Claimed /\ ProjectsWait
  BY DEF InHand, InOrder, Framed, GoingOn
<1>1. /\ ~busy /\ busy' = TRUE /\ \A t \in Thread : stack[t] = <<>>
      /\ stack' = [t \in Thread |-> IF t \in Worker THEN <<WorkThread>> ELSE <<>>]
      /\ beingBuilt' = beingBuilt /\ buildCanceled' = buildCanceled /\ requests' = requests
      /\ buildDeps' = buildDeps /\ stopWorker' = stopWorker /\ working' = working
      /\ calls' = calls /\ compilers' = compilers
  BY DEF StartWorking, progress
<1>2. ASSUME NEW t \in Thread
      PROVE  On(t) = {} /\ \A h \in On(t)' : h = WorkThread /\ t \in Worker
  <2>1. On(t) = {}
    BY <1>1 DEF On, Elems
  <2>2. Elems(<<WorkThread>>) = {WorkThread} /\ Elems(<<>>) = {}
    BY ElemsOne DEF Elems
  <2> QED BY <1>1, <2>1, <2>2 DEF On
<1>3. WorkThread.at = "start"
  BY DEF WorkThread
<1>4. Framed'
  <2>1. Covered'
    <3>1. SUFFICES ASSUME NEW t \in Thread, stack'[t] # <<>>
                   PROVE  \A f \in Elems(Tail(stack'[t])) : f.at \in CoveredKinds
      BY DEF Covered
    <3>2. stack'[t] = <<WorkThread>>
      BY <1>1, <3>1
    <3>3. Tail(<<WorkThread>>) = <<>>
      <4>1. PICK w : w = WorkThread
        OBVIOUS
      <4>2. Tail(<<w>>) = <<>>
        OBVIOUS
      <4> QED BY <4>1, <4>2
    <3> QED BY <3>2, <3>3 DEF Elems
  <2>2. Structure'
    <3>1. SUFFICES ASSUME NEW t \in Thread, NEW h \in On(t)' PROVE Fits(h, t)'
      BY DEF Structure
    <3>2. h.at = "start" /\ t \in Worker
      BY <1>2, <1>3
    <3> QED BY <3>2 DEF Fits, BuildKinds, AskKinds
  <2>3. TellsApart'
    BY <1>2, <1>3 DEF TellsApart
  <2>4. Sounds'
    <3>1. SUFFICES ASSUME NEW t \in Thread, NEW h \in On(t)' PROVE Sound(h)
      BY DEF Sounds
    <3>2. h.at = "start"
      BY <1>2, <1>3
    <3> QED BY <3>2 DEF Sound, CancelKinds
  <2> QED BY <2>1, <2>2, <2>3, <2>4 DEF Framed
<1>5. \A a, s : \A u \in Thread : a # "start" => ~Here(a, s, u)' /\ ~Here(a, s, u)
  BY <1>2, <1>3 DEF Here
<1>6. \A at, d, q : ~InFrames(at, d, q)' /\ ~InFrames(at, d, q)
  <2> SUFFICES ASSUME NEW at, NEW d, NEW q PROVE ~InFrames(at, d, q)' /\ ~InFrames(at, d, q)
    OBVIOUS
  <2>1. \A t : ~FrameClaims(WorkThread, t, at, d, q)
    BY <1>3, NoClaims DEF AskKinds
  <2> QED BY <1>2, <2>1 DEF InFrames
<1>7. CalledOnce' /\ Called' = Called /\ \A d, q : Posted(d, q)' <=> Posted(d, q)
  BY <1>0, <1>1, CallsSame
<1>8. OneToken' /\ TokensGoOn'
  <2>1. ASSUME NEW s \in Script
        PROVE  \A u \in Thread \cup {None} : \A a \in TokenKinds : HasToken(a, s, u)' => HasToken(a, s, u)
    <3>1. \A a \in {"check", "launch", "lock", "tell", "last"} : \A u \in Thread :
            Here(a, s, u)' => Here(a, s, u)
      BY <1>5
    <3> QED BY <1>1, <1>7, <3>1, TokensSame
  <2>2. \A s \in beingBuilt : s \in beingBuilt' /\ (buildDeps[s] = {} => buildDeps'[s] = {})
    BY <1>1
  <2> QED BY <1>0, <2>1, <2>2, TokensKept
<1>9. Claimed'
  <2>1. ASSUME NEW d \in Script, NEW q \in Requester PROVE SameClaims(d, q)
    <3>1. Notes(d, q)' <=> Notes(d, q)
      BY <1>1, <1>5 DEF Notes, Doing, requests
    <3>2. Expects(q, d)' <=> Expects(q, d)
      BY <1>1 DEF Expects
    <3> QED BY <1>6, <1>7, <3>1, <3>2 DEF SameClaims, HasClaim
  <2> QED BY <1>0, <2>1, ClaimedStep
<1>10. Flags' /\ NothingCanceled'
  <2>1. Flags'
    BY <1>0, <1>1 DEF Flags, requests
  <2>2. NothingCanceled'
    BY <1>0, <1>1 DEF NothingCanceled
  <2> QED BY <2>1, <2>2
<1>11. ProjectsWait'
  BY <1>0, <1>1 DEF ProjectsWait
<1> QED BY <1>4, <1>7, <1>8, <1>9, <1>10, <1>11 DEF InHand, GoingOn

-----------------------------------------------------------------------------
(* Cancelation: it is in hand of the thread of the user interface alone.     *)
LEMMA CancelingIs == Canceling <=> \E f \in On(Gui) : f.at \in {"cancel", "reset", "join"}
BY DEF Canceling, On, Elems

LEMMA TopMoves ==
  ASSUME Stacks, NEW t \in Thread, NEW where, At(t, where)
  PROVE  /\ Return(t) => On(t)' = Rest(t)
         /\ \A f \in Frame : Become(t, f) => On(t)' = {f} \cup Rest(t)
         /\ \A f, g \in Frame : stack' = [stack EXCEPT ![t] = <<f, g>> \o Tail(stack[t])] =>
              On(t)' = {f, g} \cup Rest(t)
<1>1. PICK tl : tl = Tail(stack[t]) /\ tl \in Seq(Frame)
  BY TopIsFrame
<1>2. stack \in [Thread -> Seq(Frame)] /\ Rest(t) = Elems(tl)
  BY <1>1 DEF Stacks, Rest
<1>3. Return(t) => On(t)' = Rest(t)
  BY <1>1, <1>2 DEF Return, On
<1>4. ASSUME NEW f \in Frame, Become(t, f) PROVE On(t)' = {f} \cup Rest(t)
  <2>1. stack'[t] = Push(f, tl)
    BY <1>1, <1>2, <1>4 DEF Become, Push
  <2>2. Elems(Push(f, tl)) = {f} \cup Elems(tl)
    BY <1>1, ElemsPush
  <2> QED BY <1>2, <2>1, <2>2 DEF On
<1>5. ASSUME NEW f \in Frame, NEW g \in Frame, stack' = [stack EXCEPT ![t] = <<f, g>> \o Tail(stack[t])]
      PROVE  On(t)' = {f, g} \cup Rest(t)
  <2>1. stack'[t] = PushTwo(f, g, tl)
    BY <1>1, <1>2, <1>5 DEF PushTwo
  <2>2. Elems(PushTwo(f, g, tl)) = {f, g} \cup Elems(tl)
    <3>1. PICK S : S = Frame
      OBVIOUS
    <3>2. tl \in Seq(S) /\ f \in S /\ g \in S
      BY <1>1, <3>1
    <3> QED BY ONLY <3>2, ElemsPushTwo
  <2> QED BY <1>2, <2>1, <2>2 DEF On
<1> QED BY <1>3, <1>4, <1>5

(* What a thread does is no matter of the stacks of others, nor of builds.   *)
LEMMA BuildElsewhere ==
  ASSUME Stacks, NEW t \in Thread, Build(t)
  PROVE  session' = session /\ busy' = busy /\ \A u \in Thread \ {t} : stack'[u] = stack[u]
<1>1. CASE LockBuild(t) \/ TestUpToDate(t) \/ AddBuildPseudoInitiator(t)
  BY <1>1 DEF Stacks, LockBuild, TestUpToDate, AddBuildPseudoInitiator, GoTo, Enter, workspace
<1>2. CASE StartBuild(t)
  BY <1>2 DEF Stacks, StartBuild, Enter, workspace
<1>3. CASE BuildDependency(t) \/ LeaveBuild(t) \/ CheckByteCode(t)
  BY <1>3 DEF Stacks, BuildDependency, LeaveBuild, CheckByteCode, Return, Become, GoTo, workspace
<1>4. CASE LaunchCompiler(t) \/ LaunchFails(t) \/ SetCompilerPid(t)
  BY <1>4 DEF Stacks, LaunchCompiler, LaunchFails, SetCompilerPid, Return, Enter, GoTo, workspace
<1>5. CASE LockDone(t) \/ TellRequester(t) \/ BuildIsCompleted(t)
  BY <1>5 DEF Stacks, LockDone, TellRequester, BuildIsCompleted, Return, workspace
<1>6. CASE EraseDependency(t) \/ LastDependency(t) \/ UnlockComp(t)
  BY <1>6 DEF Stacks, EraseDependency, LastDependency, UnlockComp, Return, Become, GoTo, workspace
<1> QED BY <1>1, <1>2, <1>3, <1>4, <1>5, <1>6 DEF Build

(* The steps of a cancelation keep it alone, until the build is over.        *)
LEMMA CancelGoesOn ==
  ASSUME BuildAssumption, InOrder, CancelsAlone, busy, Canceling, CancelStep
  PROVE  session' = session /\ CancelsAlone' /\ (busy' => Canceling')
<1>0. Stacks /\ Types /\ Gui \in Thread /\ \A f \in On(Gui) : f.at \in CancelKinds
  BY GuiIsThread DEF InOrder, Types, CancelsAlone
<1>1. SUFFICES session' = session
               /\ (busy' => /\ \A f \in On(Gui)' : f.at \in CancelKinds
                            /\ \E f \in On(Gui)' : f.at \in {"cancel", "reset", "join"})
  BY CancelingIs DEF CancelsAlone, Canceling, On, Elems
<1>2. \A f : Elems(<<f>>) = {f}
  BY ElemsOne
<1>3. ASSUME NEW where \in {"reset", "join"}, At(Gui, where), GoTo(Gui, "cancel")
      PROVE  /\ \A f \in On(Gui)' : f.at \in CancelKinds
             /\ \E f \in On(Gui)' : f.at \in {"cancel", "reset", "join"}
  <2>1. PICK f, g : f = Top(Gui) /\ g = [f EXCEPT !.at = "cancel"]
    OBVIOUS
  <2>2. f \in Frame /\ f.at = where /\ On(Gui) = Rest(Gui) \cup {f}
    BY <1>0, <1>3, <2>1, TopOn
  <2>3. g \in Frame
    BY <2>1, <2>2, FramesGoOn
  <2>4. Become(Gui, g)
    BY <1>0, <1>3, <2>1, <2>3, GoToIsBecome
  <2>5. On(Gui)' = {g} \cup Rest(Gui)
    BY <1>0, <1>3, <2>3, <2>4, TopMoves
  <2>6. g.at = "cancel"
    <3>1. f \in CancelFrame
      BY <2>2, FrameKinds
    <3> QED BY <2>1, <3>1 DEF CancelFrame
  <2> QED BY <1>0, <2>2, <2>5, <2>6 DEF CancelKinds
<1>4. ASSUME NEW s \in Script, CancelScript(s) PROVE session' = session
               /\ (busy' => /\ \A f \in On(Gui)' : f.at \in CancelKinds
                            /\ \E f \in On(Gui)' : f.at \in {"cancel", "reset", "join"})
  <2>1. PICK f, g : f = Terminate(s) /\ g = [at |-> "reset", left |-> Tail(Top(Gui).left)]
    OBVIOUS
  <2>2. stack'[Gui] = <<f, g>> /\ session' = session
    BY <1>0, <1>4, <2>1 DEF CancelScript, Stacks, workspace
  <2>3. On(Gui)' = {f, g}
    BY <2>2 DEF On, Elems
  <2> QED BY <2>1, <2>2, <2>3 DEF CancelKinds, Terminate
<1>5. ASSUME NEW w \in Worker, CancelProject(w) PROVE session' = session
               /\ (busy' => /\ \A f \in On(Gui)' : f.at \in CancelKinds
                            /\ \E f \in On(Gui)' : f.at \in {"cancel", "reset", "join"})
  <2>1. PICK g : g = [at |-> "join", left |-> Tail(Top(Gui).left)]
    OBVIOUS
  <2>2. stack'[Gui] = <<g>> /\ session' = session
    BY <1>0, <1>5, <2>1 DEF CancelProject, Stacks
  <2>3. On(Gui)' = {g}
    BY <1>2, <2>2 DEF On
  <2> QED BY <2>1, <2>2, <2>3 DEF CancelKinds
<1>6. CASE ResetUpToDate \/ JoinWorker
  BY <1>3, <1>6 DEF ResetUpToDate, JoinWorker, workspace
<1>7. CASE WorkCanceled
  BY <1>7 DEF WorkCanceled
<1>8. ASSUME NEW where \in {"terminate", "terminating"}, At(Gui, where),
             NEW New, On(Gui)' = New \cup Rest(Gui),
             \A f \in New : f.at \in {"terminate", "terminating"}
      PROVE  /\ \A f \in On(Gui)' : f.at \in CancelKinds
             /\ \E f \in On(Gui)' : f.at \in {"cancel", "reset", "join"}
  <2>1. On(Gui) = Rest(Gui) \cup {Top(Gui)} /\ Top(Gui).at = where
    BY <1>0, <1>8, TopOn
  <2>2. PICK f \in On(Gui) : f.at \in {"cancel", "reset", "join"}
    BY CancelingIs
  <2>3. f \in Rest(Gui)
    BY <2>1, <2>2
  <2> QED BY <1>0, <1>8, <2>1, <2>2, <2>3 DEF CancelKinds
<1>9. CASE TerminateCompilers(Gui)
  <2>a. Top(Gui).s \in Script /\ At(Gui, "terminate")
    BY <1>0, <1>9, TerminateFields DEF TerminateCompilers
  <2>b. PICK f, todo : /\ f = Top(Gui)
                       /\ todo = IF pids[Top(Gui).s] = {} THEN {} ELSE buildDeps[Top(Gui).s]
    OBVIOUS
  <2>c. PICK g : g = [f EXCEPT !.at = "terminating", !.todo = todo]
    OBVIOUS
  <2>1. todo \subseteq Script /\ stack' = [stack EXCEPT ![Gui] = [stack[Gui] EXCEPT ![1] = g]]
    <3>1. todo \subseteq Script
      BY <1>0, <2>a, <2>b DEF Types, ProgressOK
    <3>2. stack[Gui][1] = f
      BY <1>0, <2>a, <2>b DEF Stacks, Top, At
    <3>3. stack' = [stack EXCEPT ![Gui][1] = [stack[Gui][1] EXCEPT !.at = "terminating", !.todo = todo]]
      BY <1>9, <2>b DEF TerminateCompilers
    <3>4. [stack[Gui][1] EXCEPT !.at = "terminating", !.todo = todo] = g
      BY <2>c, <3>2
    <3> QED BY <3>1, <3>3, <3>4
  <2>2. At(Gui, "terminate") /\ session' = session
    BY <1>9 DEF TerminateCompilers, workspace
  <2>3. f \in [at : {"terminate", "terminating"}, s : Script, todo : SUBSET Script]
    BY <1>0, <2>b, <2>2, TerminateFields
  <2>4. g \in Frame /\ g.at = "terminating"
    BY <2>1, <2>c, <2>3 DEF Frame, CancelFrame
  <2>5. Become(Gui, g)
    <3>1. stack' = [stack EXCEPT ![Gui] = [stack[Gui] EXCEPT ![1] = g]]
      BY <2>1
    <3> QED BY <1>0, <2>2, <2>4, <3>1, TopIsBecome
  <2>6. On(Gui)' = {g} \cup Rest(Gui)
    BY <1>0, <2>2, <2>4, <2>5, TopMoves
  <2>7. PICK New : New = {g}
    OBVIOUS
  <2>8. On(Gui)' = New \cup Rest(Gui) /\ \A h \in New : h.at \in {"terminate", "terminating"}
    BY <2>4, <2>6, <2>7
  <2> QED BY <1>8, <2>2, <2>8
<1>10. CASE TerminateDependency(Gui)
  <2>1. PICK d \in Top(Gui).todo :
          stack' = [stack EXCEPT ![Gui] =
                     <<Terminate(d), [Top(Gui) EXCEPT !.todo = @ \ {d}]>> \o Tail(@)]
    BY <1>10 DEF TerminateDependency
  <2>2. PICK f, k, g : f = Top(Gui) /\ k = Terminate(d) /\ g = [f EXCEPT !.todo = @ \ {d}]
    OBVIOUS
  <2>3. At(Gui, "terminating") /\ session' = session
    BY <1>10 DEF TerminateDependency, workspace
  <2>4. f \in [at : {"terminate", "terminating"}, s : Script, todo : SUBSET Script]
        /\ f.at = "terminating" /\ d \in Script
    BY <1>0, <2>1, <2>2, <2>3, TerminateFields, TopIsFrame
  <2>5. g \in Frame /\ g.at = "terminating"
    BY <2>2, <2>4 DEF Frame, CancelFrame
  <2>6. k \in Frame /\ k.at = "terminate"
    BY <2>2, <2>4, NewFrames DEF Terminate
  <2>7. stack' = [stack EXCEPT ![Gui] = <<k, g>> \o Tail(stack[Gui])]
    BY <2>1, <2>2
  <2>8. On(Gui)' = {k, g} \cup Rest(Gui)
    BY <1>0, <2>3, <2>5, <2>6, <2>7, TopMoves
  <2>9. PICK New : New = {k, g}
    OBVIOUS
  <2>10. On(Gui)' = New \cup Rest(Gui) /\ \A h \in New : h.at \in {"terminate", "terminating"}
    BY <2>5, <2>6, <2>8, <2>9
  <2> QED BY <1>8, <2>3, <2>10
<1>11. CASE LeaveTerminate(Gui)
  <2>1. At(Gui, "terminating") /\ session' = session /\ Return(Gui)
    BY <1>11 DEF LeaveTerminate, workspace
  <2>2. On(Gui)' = Rest(Gui)
    BY <1>0, <2>1, TopMoves
  <2>3. PICK New : New = {}
    OBVIOUS
  <2>4. On(Gui)' = New \cup Rest(Gui) /\ \A h \in New : h.at \in {"terminate", "terminating"}
    BY <2>2, <2>3
  <2> QED BY <1>8, <2>1, <2>4
<1> QED BY <1>4, <1>5, <1>6, <1>7, <1>9, <1>10, <1>11 DEF CancelStep

-----------------------------------------------------------------------------
(* The invariant: the first state, every step, and what it says.             *)
LEMMA InitInHand ==
  ASSUME BuildAssumption, Init
  PROVE  InHand /\ CancelsAlone
<1>1. /\ \A t \in Thread : stack[t] = <<>> /\ On(t) = {}
      /\ Called = {} /\ calls = <<>> /\ compilers = {} /\ beingBuilt = {}
      /\ buildCanceled = {} /\ stopWorker = {} /\ ~busy
  BY DEF Init, On, Elems, Called
<1>2. \A s \in Script : /\ workId[s] = None /\ initiator[s] = None /\ pseudoInitiators[s] = <<>>
                        /\ buildDeps[s] = {}
  BY DEF Init
<1>3. \A w \in Worker : working[w] = {}
  BY DEF Init
<1>4. None \notin Requester
  BY DEF BuildAssumption
<1>5. Framed
  <2>1. Covered
    BY <1>1 DEF Covered
  <2>2. Structure /\ TellsApart /\ Sounds
    BY <1>1 DEF Structure, TellsApart, Sounds
  <2> QED BY <2>1, <2>2 DEF Framed
<1>6. Flags
  <2>1. \A s \in Script : DOMAIN pseudoInitiators[s] = {}
    BY <1>2
  <2> QED BY <1>1, <1>2, <2>1 DEF Flags, Distinct, Elems
<1>7. NothingCanceled
  BY <1>1 DEF NothingCanceled
<1>8. GoingOn
  <2>1. \A at, s, t : t \in Thread => ~Here(at, s, t)
    BY <1>1 DEF Here
  <2>2. \A a, s, t : ~HasToken(a, s, t)
    BY <1>1, <2>1 DEF HasToken
  <2>3. CalledOnce
    BY <1>1 DEF CalledOnce
  <2> QED BY <2>2, <2>3 DEF GoingOn, OneToken, TokensGoOn
<1>9. Claimed
  <2>1. ASSUME NEW d \in Script, NEW r \in Requester PROVE Settled(d, r)
    <3>1. \A at : ~InFrames(at, d, r)
      BY <1>1 DEF InFrames
    <3>2. ~Notes(d, r)
      BY <1>2, <1>4 DEF Notes, Elems
    <3>3. ~Posted(d, r)
      BY <1>1 DEF Posted
    <3>4. ~Expects(r, d)
      BY <1>1, <1>3 DEF Expects, Requester
    <3> QED BY <3>1, <3>2, <3>3, <3>4 DEF Settled, HasClaim
  <2> QED BY <2>1, ClaimedIs
<1>10. ProjectsWait
  BY <1>1, <1>3 DEF ProjectsWait, Starting, Thread
<1>11. CancelsAlone
  BY <1>1 DEF CancelsAlone
<1> QED BY <1>5, <1>6, <1>7, <1>8, <1>9, <1>10, <1>11 DEF InHand

LEMMA NothingHappens ==
  ASSUME UNCHANGED vars
  PROVE  (InHand => InHand') /\ (Live => Live') /\ (Live' => Live) /\ (CancelsAlone => CancelsAlone')
<1>1. /\ stack' = stack /\ calls' = calls /\ compilers' = compilers
      /\ beingBuilt' = beingBuilt /\ buildCanceled' = buildCanceled
      /\ workId' = workId /\ initiator' = initiator /\ pseudoInitiators' = pseudoInitiators
      /\ buildDeps' = buildDeps
      /\ buildMutex' = buildMutex /\ doneMutex' = doneMutex /\ compMutex' = compMutex
      /\ working' = working /\ stopWorker' = stopWorker /\ session' = session /\ busy' = busy
  BY DEF vars, flags, requests, progress, mutexes, workspace
<1>2. ASSUME NEW t PROVE On(t)' = On(t)
  BY <1>1 DEF On
<1>3. Called' = Called
  BY <1>1 DEF Called
<1>4. Canceling' <=> Canceling
  BY <1>1 DEF Canceling
<1>5. Framed => Framed'
  BY <1>1, <1>2 DEF Framed, Covered, Structure, TellsApart, Sounds, Fits
<1>6. \A a, s, t : Here(a, s, t)' <=> Here(a, s, t)
  BY <1>2 DEF Here
<1>7. GoingOn => GoingOn'
  BY <1>1, <1>3, <1>6 DEF GoingOn, CalledOnce, OneToken, TokensGoOn, HasToken
<1>8. Claimed => Claimed'
  <2> SUFFICES ASSUME Claimed PROVE Claimed'
    OBVIOUS
  <2>1. ASSUME NEW d \in Script, NEW r \in Requester PROVE SameClaims(d, r)
    BY <1>1, <1>2, <1>3, <1>6 DEF SameClaims, HasClaim, InFrames, Notes, Doing, Posted, Expects
  <2> QED BY <2>1, ClaimedStep
<1>9. (Flags => Flags') /\ (NothingCanceled => NothingCanceled')
  BY <1>1 DEF Flags, NothingCanceled
<1>10. ProjectsWait => ProjectsWait'
  BY <1>1, <1>2 DEF ProjectsWait, Starting
<1>11. InHand => InHand'
  BY <1>5, <1>7, <1>8, <1>9, <1>10 DEF InHand
<1>12. (Live => Live') /\ (Live' => Live)
  BY <1>1, <1>4 DEF Live, Working
<1>13. CancelsAlone => CancelsAlone'
  BY <1>1, <1>2, <1>4 DEF CancelsAlone
<1> QED BY <1>11, <1>12, <1>13

(* Where everything is in hand nobody cancels.                               *)
LEMMA NobodyCancels ==
  ASSUME BuildAssumption, InOrder, InHand
  PROVE  ~Canceling /\ CancelsAlone /\ \A where \in CancelKinds : ~At(Gui, where)
<1>1. \A f \in On(Gui) : f.at \notin CancelKinds
  BY GuiIsThread DEF InHand, Framed, Sounds, Sound
<1>2. ~Canceling
  BY <1>1, CancelingIs DEF CancelKinds
<1>3. ASSUME NEW where \in CancelKinds, At(Gui, where) PROVE FALSE
  <2>1. Top(Gui) \in On(Gui) /\ Top(Gui).at = where
    BY <1>3, TopKnown, GuiIsThread
  <2> QED BY <1>1, <2>1
<1> QED BY <1>2, <1>3 DEF CancelsAlone

LEMMA NextInHand ==
  ASSUME BuildAssumption, InOrder, InHand, Next, ~CancelWork, ~spoilt'
  PROVE  InHand'
<1>1. ASSUME NEW t \in Thread, Build(t) PROVE InHand'
  <2>1. CASE LockBuild(t) \/ TestUpToDate(t) \/ AddBuildPseudoInitiator(t) \/ StartBuild(t)
    BY <2>1, LockBuildInHand, TestUpToDateInHand, AddBuildPseudoInitiatorInHand, StartBuildInHand
  <2>2. CASE BuildDependency(t) \/ LeaveBuild(t) \/ CheckByteCode(t) \/ LaunchCompiler(t)
    BY <2>2, BuildDependencyInHand, LeaveBuildInHand, CheckByteCodeInHand, LaunchCompilerInHand
  <2>3. CASE LaunchFails(t) \/ SetCompilerPid(t) \/ LockDone(t) \/ TellRequester(t)
    BY <2>3, LaunchFailsInHand, SetCompilerPidInHand, LockDoneInHand, TellRequesterInHand
  <2>4. CASE BuildIsCompleted(t) \/ EraseDependency(t) \/ LastDependency(t) \/ UnlockComp(t)
    BY <2>4, BuildIsCompletedInHand, EraseDependencyInHand, LastDependencyInHand, UnlockCompInHand
  <2> QED BY <1>1, <2>1, <2>2, <2>3, <2>4 DEF Build
<1>2. ASSUME NEW w \in Worker, WorkStarts(w) \/ AskNext(w) PROVE InHand'
  BY <1>2, WorkStartsInHand, AskNextInHand
<1>3. ASSUME NEW s \in Script, CompilerEnds(s) PROVE InHand'
  BY <1>3, CompilerEndsInHand
<1>4. CASE MakeCall
  BY <1>4, OnCompileFinishedInHand, OnResourceWorkCompletedInHand, StartBuildSelfThreadInHand,
     OnWorkCompletedInHand DEF MakeCall
<1>5. CASE StartWorking
  BY <1>5, StartWorkingInHand
<1>6. ~CancelStep
  <2>1. \A where \in CancelKinds : ~At(Gui, where)
    BY NobodyCancels
  <2> QED BY <2>1 DEF CancelStep, CancelKinds, CancelScript, CancelProject, Signals, ResetUpToDate,
                      JoinWorker, WorkCanceled, TerminateCompilers, TerminateDependency, LeaveTerminate
<1> QED BY <1>1, <1>2, <1>3, <1>4, <1>5, <1>6 DEF Next

(* Where a thread is that builds.                                            *)
LEMMA BuildsAt ==
  ASSUME NEW t, Build(t)
  PROVE  \E where : At(t, where) /\ where \notin CancelKinds
<1>1. CASE LockBuild(t) \/ TestUpToDate(t) \/ AddBuildPseudoInitiator(t) \/ StartBuild(t)
  <2>1. LockBuild(t) => At(t, "enter")
    BY DEF LockBuild
  <2>2. TestUpToDate(t) => At(t, "test")
    BY DEF TestUpToDate
  <2>3. AddBuildPseudoInitiator(t) \/ StartBuild(t) => At(t, "progress")
    BY DEF AddBuildPseudoInitiator, StartBuild
  <2> QED BY <1>1, <2>1, <2>2, <2>3 DEF CancelKinds
<1>2. CASE BuildDependency(t) \/ LeaveBuild(t) \/ CheckByteCode(t) \/ LaunchCompiler(t)
  <2>1. BuildDependency(t) => At(t, "deps")
    BY DEF BuildDependency
  <2>2. LeaveBuild(t) => At(t, "leave") \/ At(t, "deps") \/ At(t, "unresolved")
    BY DEF LeaveBuild
  <2>3. CheckByteCode(t) => At(t, "check")
    BY DEF CheckByteCode
  <2>4. LaunchCompiler(t) => At(t, "launch")
    BY DEF LaunchCompiler
  <2> QED BY <1>2, <2>1, <2>2, <2>3, <2>4 DEF CancelKinds
<1>3. CASE LaunchFails(t) \/ SetCompilerPid(t) \/ LockDone(t) \/ TellRequester(t)
  <2>1. LaunchFails(t) => At(t, "launch")
    BY DEF LaunchFails
  <2>2. SetCompilerPid(t) => At(t, "launched")
    BY DEF SetCompilerPid
  <2>3. LockDone(t) => At(t, "lock")
    BY DEF LockDone
  <2>4. TellRequester(t) => At(t, "tell")
    BY DEF TellRequester
  <2> QED BY <1>3, <2>1, <2>2, <2>3, <2>4 DEF CancelKinds
<1>4. CASE BuildIsCompleted(t) \/ EraseDependency(t) \/ LastDependency(t) \/ UnlockComp(t)
  <2>1. BuildIsCompleted(t) => At(t, "tell")
    BY DEF BuildIsCompleted
  <2>2. EraseDependency(t) => At(t, "erase")
    BY DEF EraseDependency
  <2>3. LastDependency(t) => At(t, "last")
    BY DEF LastDependency
  <2>4. UnlockComp(t) => At(t, "unlock")
    BY DEF UnlockComp
  <2> QED BY <1>4, <2>1, <2>2, <2>3, <2>4 DEF CancelKinds
<1> QED BY <1>1, <1>2, <1>3, <1>4 DEF Build

(* Once the last build is over or is being canceled, that is how it stays.   *)
LEMMA AfterLast ==
  ASSUME BuildAssumption, InOrder, CancelsAlone, ~Live, Next
  PROVE  ~Live' /\ CancelsAlone'
<1>0. /\ Types /\ Stacks /\ Gui \in Thread /\ Gui \notin Worker /\ Worker \subseteq Thread
      /\ session \in 0..MaxSessions /\ MaxSessions \in Nat /\ busy \in BOOLEAN
  BY GuiIsThread DEF InOrder, Types, WorkspaceOK, BuildAssumption, Thread
<1>1. session = MaxSessions /\ (busy => Canceling)
  BY <1>0 DEF Live, Working
<1>2. SUFFICES session' = session /\ CancelsAlone' /\ (busy' => Canceling')
  BY <1>1 DEF Live, Working
<1>3. ~StartWorking
  BY <1>0, <1>1 DEF StartWorking
<1>4. CASE ~busy
  <2>1. SUFFICES session' = session /\ ~busy'
    BY DEF CancelsAlone
  <2>2. ASSUME NEW t \in Thread, Build(t) PROVE session' = session /\ ~busy'
    BY <1>0, <1>4, <2>2, BuildElsewhere
  <2>3. \A w \in Worker : WorkStarts(w) \/ AskNext(w) => session' = session /\ ~busy'
    BY <1>4 DEF WorkStarts, AskNext, workspace
  <2>4. \A s \in Script : CompilerEnds(s) => session' = session /\ ~busy'
    BY <1>4 DEF CompilerEnds, workspace
  <2>5. ASSUME MakeCall PROVE session' = session /\ ~busy'
    <3>1. ASSUME NEW s \in Script, NEW w \in Worker, OnResourceWorkCompleted(s, w)
          PROVE  session' = session /\ ~busy'
      BY <1>4, <3>1 DEF OnResourceWorkCompleted
    <3>2. ASSUME NEW s \in Script, OnCompileFinished(s) PROVE session' = session /\ ~busy'
      BY <1>4, <3>2 DEF OnCompileFinished, workspace
    <3>3. ASSUME NEW s \in Script, NEW p \in Pool, StartBuildSelfThread(s, p)
          PROVE  session' = session /\ ~busy'
      BY <1>4, <3>3 DEF StartBuildSelfThread, workspace
    <3>4. OnWorkCompleted => session' = session /\ ~busy'
      BY <1>4 DEF OnWorkCompleted, workspace
    <3> QED BY <2>5, <3>1, <3>2, <3>3, <3>4 DEF MakeCall
  <2>6. ASSUME CancelStep PROVE session' = session /\ ~busy'
    <3>1. CASE \/ \E s \in Script : CancelScript(s)
               \/ \E w \in Worker : CancelProject(w)
      BY <1>4, <3>1 DEF CancelScript, CancelProject, workspace
    <3>2. CASE ResetUpToDate \/ JoinWorker \/ WorkCanceled
      BY <1>4, <3>2 DEF ResetUpToDate, JoinWorker, WorkCanceled, workspace
    <3>3. CASE TerminateCompilers(Gui) \/ TerminateDependency(Gui) \/ LeaveTerminate(Gui)
      BY <1>4, <3>3 DEF TerminateCompilers, TerminateDependency, LeaveTerminate, workspace
    <3> QED BY <2>6, <3>1, <3>2, <3>3 DEF CancelStep
  <2>7. ~CancelWork
    BY <1>4 DEF CancelWork
  <2> QED BY <1>3, <2>2, <2>3, <2>4, <2>5, <2>6, <2>7 DEF Next
<1>5. CASE busy
  <2>0. /\ Canceling /\ \A f \in On(Gui) : f.at \in CancelKinds
        /\ stack[Gui] # <<>>
    BY <1>1, <1>5 DEF CancelsAlone, Canceling
  <2>1. ASSUME stack'[Gui] = stack[Gui], session' = session
        PROVE  session' = session /\ CancelsAlone' /\ (busy' => Canceling')
    <3>1. On(Gui)' = On(Gui) /\ (Canceling' <=> Canceling)
      BY <2>1 DEF On, Canceling
    <3> QED BY <2>0, <2>1, <3>1 DEF CancelsAlone
  <2>2. ASSUME NEW t \in Thread, Build(t)
        PROVE  stack'[Gui] = stack[Gui] /\ session' = session
    <3>1. t # Gui
      <4>1. SUFFICES ASSUME t = Gui PROVE FALSE
        OBVIOUS
      <4>2. Top(Gui) \in On(Gui)
        BY <1>0, <2>0, TopOn DEF At
      <4>3. \A where : where \notin CancelKinds => ~At(Gui, where)
        BY <2>0, <4>2 DEF At, Top
      <4>4. Build(Gui)
        BY <2>2, <4>1
      <4> QED BY <4>3, <4>4, BuildsAt
    <3> QED BY <1>0, <2>2, <3>1, BuildElsewhere
  <2>3. ASSUME NEW w \in Worker, WorkStarts(w) \/ AskNext(w)
        PROVE  stack'[Gui] = stack[Gui] /\ session' = session
    BY <1>0, <2>3 DEF WorkStarts, AskNext, Become, Return, Stacks, workspace
  <2>4. ASSUME NEW s \in Script, CompilerEnds(s)
        PROVE  stack'[Gui] = stack[Gui] /\ session' = session
    BY <2>4 DEF CompilerEnds, workspace
  <2>5. ~MakeCall /\ ~CancelWork
    BY <2>0 DEF MakeCall, OnCompileFinished, OnResourceWorkCompleted, StartBuildSelfThread,
                OnWorkCompleted, Calling, CancelWork
  <2>6. CASE CancelStep
    BY <1>5, <2>0, <2>6, CancelGoesOn
  <2> QED BY <1>3, <2>1, <2>2, <2>3, <2>4, <2>5, <2>6 DEF Next
<1> QED BY <1>0, <1>4, <1>5

(* CancelWork puts one function on the stack of the thread of the user       *)
(* interface.                                                                *)
LEMMA CancelBegins ==
  ASSUME BuildAssumption, InOrder, CancelWork
  PROVE  ~Live' /\ CancelsAlone'
<1>0. stack \in [Thread -> Seq(Frame)] /\ Gui \in Thread /\ MaxSessions \in Nat
  BY GuiIsThread DEF InOrder, Types, Stacks, BuildAssumption
<1>1. PICK f : f = Cancel(Listeners)
  OBVIOUS
<1>2. /\ session' = MaxSessions /\ f.at = "cancel"
      /\ stack' = [stack EXCEPT ![Gui] = <<f>>]
  BY <1>1 DEF CancelWork, workspace, Cancel
<1>3. stack'[Gui] = <<f>>
  BY <1>0, <1>2
<1>4. On(Gui)' = {f}
  BY <1>3, ElemsOne DEF On
<1>5. Canceling'
  BY <1>2, <1>3 DEF Canceling
<1> QED BY <1>0, <1>2, <1>4, <1>5 DEF Live, Working, CancelsAlone, CancelKinds

(* The invariant holds until something spoils the build.                     *)
Sane      == (Live => InHand) /\ CancelsAlone
Invariant == InOrder /\ (spoilt \/ Sane)

(* A build that is spoilt remains so.                                        *)
LEMMA SpoiltStays ==
  ASSUME spoilt \in BOOLEAN, spoilt, [Next]_vars
  PROVE  spoilt'
<1>1. CASE UNCHANGED vars
  BY <1>1 DEF vars, workspace
<1>2. ASSUME NEW t \in Thread, Build(t) PROVE spoilt'
  <2>1. CASE LockBuild(t) \/ TestUpToDate(t) \/ AddBuildPseudoInitiator(t) \/ StartBuild(t)
    <3>1. TestUpToDate(t) => spoilt'
      BY Zenon DEF TestUpToDate
    <3> QED BY <2>1, <3>1 DEF LockBuild, AddBuildPseudoInitiator, StartBuild, workspace
  <2>2. CASE BuildDependency(t) \/ LeaveBuild(t) \/ CheckByteCode(t) \/ LaunchCompiler(t)
    BY <2>2 DEF BuildDependency, LeaveBuild, CheckByteCode, LaunchCompiler, workspace
  <2>3. CASE LaunchFails(t) \/ SetCompilerPid(t) \/ LockDone(t) \/ TellRequester(t)
    <3>1. TellRequester(t) => spoilt'
      BY Zenon DEF TellRequester
    <3> QED BY <2>3, <3>1 DEF LaunchFails, SetCompilerPid, LockDone, workspace
  <2>4. CASE BuildIsCompleted(t) \/ EraseDependency(t) \/ LastDependency(t) \/ UnlockComp(t)
    BY <2>4 DEF BuildIsCompleted, EraseDependency, LastDependency, UnlockComp, workspace
  <2> QED BY <1>2, <2>1, <2>2, <2>3, <2>4 DEF Build
<1>3. ASSUME NEW w \in Worker, WorkStarts(w) \/ AskNext(w) PROVE spoilt'
  BY <1>3 DEF WorkStarts, AskNext, workspace
<1>4. ASSUME NEW s \in Script, CompilerEnds(s) PROVE spoilt'
  BY <1>4 DEF CompilerEnds, workspace
<1>5. CASE MakeCall
  <2>1. \A s \in Script : OnCompileFinished(s) => spoilt'
    BY DEF OnCompileFinished, workspace
  <2>2. \A s \in Script, w \in Worker : OnResourceWorkCompleted(s, w) => spoilt'
    BY DEF OnResourceWorkCompleted
  <2>3. \A s \in Script, p \in Pool : StartBuildSelfThread(s, p) => spoilt'
    BY DEF StartBuildSelfThread, workspace
  <2>4. OnWorkCompleted => spoilt'
    BY DEF OnWorkCompleted, workspace
  <2> QED BY <1>5, <2>1, <2>2, <2>3, <2>4 DEF MakeCall
<1>6. CASE CancelStep
  <2>1. \A s \in Script : CancelScript(s) => spoilt'
    BY DEF CancelScript, workspace
  <2>2. \A w \in Worker : CancelProject(w) => spoilt'
    BY DEF CancelProject
  <2>3. ResetUpToDate \/ JoinWorker \/ WorkCanceled => spoilt'
    BY DEF ResetUpToDate, JoinWorker, WorkCanceled, workspace
  <2>4. TerminateCompilers(Gui) \/ TerminateDependency(Gui) \/ LeaveTerminate(Gui) => spoilt'
    BY DEF TerminateCompilers, TerminateDependency, LeaveTerminate, workspace
  <2> QED BY <1>6, <2>1, <2>2, <2>3, <2>4 DEF CancelStep
<1>7. CASE StartWorking \/ CancelWork
  BY <1>7 DEF StartWorking, CancelWork, workspace
<1> QED BY <1>1, <1>2, <1>3, <1>4, <1>5, <1>6, <1>7 DEF Next

LEMMA NextSane ==
  ASSUME BuildAssumption, InOrder, Sane, [Next]_vars, ~spoilt'
  PROVE  Sane'
<1>0. (Live => InHand) /\ CancelsAlone
  BY DEF Sane
<1>1. CASE UNCHANGED vars
  BY <1>0, <1>1, NothingHappens DEF Sane
<1>2. CASE Next /\ ~Live
  BY <1>0, <1>2, AfterLast DEF Sane
<1>3. CASE CancelWork
  BY <1>0, <1>3, CancelBegins DEF Sane
<1>4. CASE Next /\ Live /\ ~CancelWork
  <2>1. InHand'
    BY <1>0, <1>4, NextInHand
  <2>2. CancelsAlone'
    <3>1. \A f \in On(Gui)' : f.at \notin CancelKinds
      BY <2>1, GuiIsThread DEF InHand, Framed, Sounds, Sound
    <3>2. ~Canceling'
      BY <3>1 DEF Canceling, On, Elems, CancelKinds
    <3> QED BY <3>2 DEF CancelsAlone
  <2> QED BY <2>1, <2>2 DEF Sane
<1>5. UNCHANGED vars \/ (Next /\ ~Live) \/ CancelWork \/ (Next /\ Live /\ ~CancelWork)
  OBVIOUS
<1> QED BY <1>1, <1>2, <1>3, <1>4, <1>5

LEMMA NextInvariant ==
  ASSUME BuildAssumption, Invariant, [Next]_vars
  PROVE  Invariant'
<1>0. InOrder /\ (spoilt \/ Sane) /\ spoilt \in BOOLEAN
  <2>1. InOrder /\ (spoilt \/ Sane)
    BY Zenon DEF Invariant
  <2>2. WorkspaceOK
    BY <2>1 DEF InOrder, Types
  <2>3. spoilt \in BOOLEAN
    BY <2>2 DEF WorkspaceOK
  <2> QED BY <2>1, <2>3, Zenon
<1>1. InOrder'
  BY <1>0, NextOrder
<1>2. CASE spoilt
  <2>1. spoilt'
    BY <1>0, <1>2, SpoiltStays
  <2> QED BY <1>1, <2>1, Zenon DEF Invariant
<1>3. CASE Sane
  <2>1. ~spoilt' => Sane'
    BY <1>0, <1>3, NextSane
  <2> QED BY <1>1, <2>1, Zenon DEF Invariant
<1> QED BY <1>0, <1>2, <1>3, Zenon

-----------------------------------------------------------------------------
(* What the invariant says of requests: a claim is one of the ways in which  *)
(* a dependency knows who waits for it.                                      *)
LEMMA ClaimIsOwed ==
  ASSUME BuildAssumption, InOrder, InHand, NEW d \in Script, NEW s \in Script,
         NEW a \in ClaimKinds, HasClaim(a, d, s)
  PROVE  Owes(d, s)
<1>0. /\ Types /\ Script \cap Worker = {} /\ None \notin Requester /\ None # s
      /\ Structure /\ Flags
  BY DEF BuildAssumption, InOrder, InHand, Framed, Requester
<1>1. CASE InFrames(a, d, s)
  <2>0. PICK t \in Thread : \E f \in On(t) : FrameClaims(f, t, a, d, s)
    BY <1>1 DEF InFrames
  <2>1. PICK f \in On(t) : FrameClaims(f, t, a, d, s)
    BY <2>0
  <2>2. PICK i \in DOMAIN stack[t] : stack[t][i] = f
    BY DEF On, Elems
  <2>3. ~(f.at = "work" /\ t = s)
    BY <1>0 DEF Structure, Fits
  <2>4. CASE f.at = "deps" /\ f.s = s /\ d \in f.todo
    BY <2>2, <2>4 DEF Owes
  <2>5. CASE f.at \in AskKinds /\ f.s = d /\ f.for = s
    BY <2>2, <2>5 DEF Owes, AskKinds
  <2>6. CASE f.at = "tell" /\ f.s = d /\ \E j \in DOMAIN f.tell : f.tell[j][1] = s
    BY <2>2, <2>6 DEF Owes
  <2>7. CASE f.at = "erase" /\ f.s = s /\ f.dep = d
    BY <2>2, <2>7 DEF Owes
  <2> QED BY <2>1, <2>3, <2>4, <2>5, <2>6, <2>7 DEF FrameClaims
<1>2. CASE Notes(d, s)
  <2>1. CASE workId[d] = s
    <3>1. d \in beingBuilt /\ initiator[d] = s
      BY <1>0, <2>1 DEF Flags
    <3> QED BY <3>1 DEF Owes
  <2>2. CASE s \in Elems(pseudoInitiators[d])
    <3>1. PICK i \in DOMAIN pseudoInitiators[d] : pseudoInitiators[d][i] = s
      BY <2>2 DEF Elems
    <3>2. d \in beingBuilt
      BY <1>0, <3>1 DEF Flags
    <3> QED BY <3>1, <3>2 DEF Owes
  <2> QED BY <1>2, <2>1, <2>2 DEF Notes
<1>3. ~Posted(d, s)
  <2>1. SUFFICES ASSUME Posted(d, s) PROVE FALSE
    OBVIOUS
  <2>2. calls \in Seq(DelayedCall)
    BY <1>0 DEF Types, CallsOK
  <2>3. PICK c \in DelayedCall : c = ResourceWorkCompleted(d, s)
    BY <2>1, <2>2 DEF Posted, Called, Elems
  <2>4. c.call = "completed" /\ c.for = s
    BY <2>3 DEF ResourceWorkCompleted
  <2>5. s \in Worker
    BY <2>4 DEF DelayedCall
  <2> QED BY <1>0, <2>5
<1> QED BY <1>1, <1>2, <1>3 DEF HasClaim

(* And of what makes a script go on: the continuations are tokens.           *)
LEMMA AtMostOne ==
  ASSUME NEW S, \A x, y \in S : x = y
  PROVE  Cardinality(S) = IF S = {} THEN 0 ELSE 1
<1>1. CASE S = {}
  BY <1>1, FS_EmptySet
<1>2. CASE S # {}
  <2>1. PICK x : x \in S
    BY <1>2
  <2>2. S = {x}
    BY <2>1
  <2> QED BY <1>2, <2>2, FS_Singleton
<1> QED BY <1>1, <1>2

CallsFor(c) == {i \in DOMAIN calls : calls[i] = c}
GoingOnFrame(f, s) == f.at \in {"check", "launch"} /\ f.s = s
ThreadsGoingOn(s) == {t \in Thread : \E i \in DOMAIN stack[t] : GoingOnFrame(stack[t][i], s)}

LEMMA OnceContinued ==
  ASSUME GoingOn, NEW s \in Script
  PROVE  Continuations(s) <= 1
<1>0. CalledOnce /\ OneToken
  BY DEF GoingOn
<1>1. PICK A, B, C, D :
        /\ A = CallsFor(BuildSelfThread(s)) /\ B = ThreadsGoingOn(s)
        /\ C = compilers \cap {s} /\ D = CallsFor(CompileFinished(s))
  OBVIOUS
<1>2. Continuations(s) = Cardinality(A) + Cardinality(B) + Cardinality(C) + Cardinality(D)
  BY <1>1 DEF Continuations, CallsFor, ThreadsGoingOn, GoingOnFrame
<1>3. (A # {} => HasToken("self", s, None)) /\ \A x, y \in A : x = y
  BY <1>0, <1>1 DEF CallsFor, HasToken, Called, Elems, CalledOnce, BuildSelfThread, WorkCompleted
<1>4. (D # {} => HasToken("finished", s, None)) /\ \A x, y \in D : x = y
  BY <1>0, <1>1 DEF CallsFor, HasToken, Called, Elems, CalledOnce, CompileFinished, WorkCompleted
<1>5. (C # {} => HasToken("compiler", s, None)) /\ \A x, y \in C : x = y
  BY <1>1 DEF HasToken
<1>6. \A t \in B : t \in Thread /\ \E a \in {"check", "launch"} : HasToken(a, s, t)
  <2> SUFFICES ASSUME NEW t \in B PROVE t \in Thread /\ \E a \in {"check", "launch"} : HasToken(a, s, t)
    OBVIOUS
  <2>1. t \in Thread
    BY <1>1 DEF ThreadsGoingOn
  <2>2. PICK f \in On(t) : f.at \in {"check", "launch"} /\ f.s = s
    BY <1>1 DEF ThreadsGoingOn, GoingOnFrame, On, Elems
  <2> QED BY <2>1, <2>2 DEF HasToken, Here
<1>7. \A a, b \in TokenKinds : \A t, u \in Thread \cup {None} :
        HasToken(a, s, t) /\ HasToken(b, s, u) => a = b /\ t = u
  BY <1>0 DEF OneToken
<1>8. \A x, y \in B : x = y
  BY <1>6, <1>7 DEF TokenKinds
<1>9. /\ A # {} => B = {} /\ C = {} /\ D = {}
      /\ B # {} => C = {} /\ D = {}
      /\ C # {} => D = {}
  BY <1>3, <1>4, <1>5, <1>6, <1>7 DEF TokenKinds
<1>10. /\ Cardinality(A) = IF A = {} THEN 0 ELSE 1
       /\ Cardinality(B) = IF B = {} THEN 0 ELSE 1
       /\ Cardinality(C) = IF C = {} THEN 0 ELSE 1
       /\ Cardinality(D) = IF D = {} THEN 0 ELSE 1
  <2>1. Cardinality(A) = IF A = {} THEN 0 ELSE 1
    BY <1>3, AtMostOne
  <2>2. Cardinality(B) = IF B = {} THEN 0 ELSE 1
    BY <1>8, AtMostOne
  <2>3. Cardinality(C) = IF C = {} THEN 0 ELSE 1
    BY <1>5, AtMostOne
  <2>4. Cardinality(D) = IF D = {} THEN 0 ELSE 1
    BY <1>4, AtMostOne
  <2> QED BY <2>1, <2>2, <2>3, <2>4
<1> QED BY <1>2, <1>9, <1>10

(* The last steps: every state has the invariant, whatever completions and  *)
(* requests meet.                                                            *)
THEOREM RequestsAreKept ==
  Spec => []NoRequestIsLost
<1>1. Init => Invariant
  BY BuildAssumption, InitOrder, InitInHand DEF Invariant, Sane
<1>2. Invariant /\ [Next]_vars => Invariant'
  BY BuildAssumption, NextInvariant
<1>3. Invariant => NoRequestIsLost
  <2> SUFFICES ASSUME Invariant, Soundly, NEW s \in beingBuilt \ Unresolvable, NEW d \in buildDeps[s]
               PROVE  Owes(d, s)
    BY DEF NoRequestIsLost
  <2>1. InOrder /\ InHand /\ Types
    <3>1. Sane /\ Live
      BY Zenon DEF Invariant, Soundly, Live
    <3> QED BY <3>1 DEF Invariant, Sane, InOrder
  <2>2. s \in Script /\ d \in Script
    BY <2>1 DEF Types, FlagsOK, ProgressOK
  <2>3. Expects(s, d)
    BY <2>2 DEF Expects
  <2>4. PICK a \in ClaimKinds : HasClaim(a, d, s)
    BY <2>1, <2>2, <2>3 DEF InHand, Claimed, ClaimsKept
  <2> QED BY <2>1, <2>2, <2>4, ClaimIsOwed, BuildAssumption
<1> QED BY <1>1, <1>2, <1>3, PTL DEF Spec

THEOREM ScriptsGoOnOnce ==
  Spec => []GoesOnOnce
<1>1. Init => Invariant
  BY BuildAssumption, InitOrder, InitInHand DEF Invariant, Sane
<1>2. Invariant /\ [Next]_vars => Invariant'
  BY BuildAssumption, NextInvariant
<1>3. Invariant => GoesOnOnce
  <2> SUFFICES ASSUME Invariant, Soundly PROVE \A s \in Script : Continuations(s) <= 1
    BY DEF GoesOnOnce
  <2>1. Sane /\ Live
    BY Zenon DEF Invariant, Soundly, Live
  <2> QED BY <2>1, OnceContinued DEF Sane, InHand
<1> QED BY <1>1, <1>2, <1>3, PTL DEF Spec
=============================================================================
