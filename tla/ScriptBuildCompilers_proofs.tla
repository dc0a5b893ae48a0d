--------------------- MODULE ScriptBuildCompilers_proofs ---------------------
(***************************************************************************)
(* What a build does with compilers, from the invariant of                 *)
(* ScriptBuildInvariant.  First what each action says: which functions     *)
(* that compile, complete or tell are on the stacks after it.  Then what   *)
(* scripts know of compilers, which is true when it is used                *)
(* (CompilersStayKnown), and at the end what has been built for good: the  *)
(* dependencies of what is compiled (DependenciesComeFirst), what projects *)
(* have been told of (WhatIsToldStays), and all they asked for when the    *)
(* build is over (AllIsBuiltAtTheEnd).                                     *)
(***************************************************************************)
EXTENDS ScriptBuildInvariant_proofs

(* Old functions have gone, new ones have come.                              *)
Says(Old, New) ==
  /\ Said' \subseteq Said \cup New
  /\ Said \subseteq Said' \cup Old
  /\ \A f \in New : f.at \in SayKinds => f \in Said'

LEMMA SwapSays ==
  ASSUME NEW t, NEW R, NEW Old, NEW New, Swap(t, R, Old, New)
  PROVE  Says(Old, New)
<1>1. /\ t \in Thread /\ On(t) = R \cup Old /\ On(t)' = R \cup New
      /\ \A u \in Thread \ {t} : On(u)' = On(u)
  BY DEF Swap
<1>2. Said' \subseteq Said \cup New
  <2> SUFFICES ASSUME NEW f, f \in Said' PROVE f \in Said \cup New
    OBVIOUS
  <2>1. PICK u \in Thread : f \in On(u)' /\ f.at \in SayKinds
    BY DEF Said
  <2>2. f \in New \/ f \in On(u)
    BY <1>1, <2>1
  <2> QED BY <2>1, <2>2 DEF Said
<1>3. Said \subseteq Said' \cup Old
  <2> SUFFICES ASSUME NEW f, f \in Said PROVE f \in Said' \cup Old
    OBVIOUS
  <2>1. PICK u \in Thread : f \in On(u) /\ f.at \in SayKinds
    BY DEF Said
  <2>2. f \in Old \/ f \in On(u)'
    BY <1>1, <2>1
  <2> QED BY <2>1, <2>2 DEF Said
<1>4. \A f \in New : f.at \in SayKinds => f \in Said'
  BY <1>1 DEF Said
<1> QED BY <1>2, <1>3, <1>4 DEF Says

LEMMA NothingSaid ==
  ASSUME NEW Old, NEW New, Says(Old, New), \A f \in Old \cup New : f.at \notin SayKinds
  PROVE  Said' = Said
<1>1. \A f \in Said : f.at \in SayKinds
  BY DEF Said
<1>2. \A f \in Said' : f.at \in SayKinds
  BY DEF Said
<1> QED BY <1>1, <1>2 DEF Says

LEMMA SaidSame ==
  ASSUME stack' = stack
  PROVE  Said' = Said
BY DEF Said, On

(* What is known of a function that says something.                          *)
LEMMA SaidFrame ==
  ASSUME BuildAssumption, InOrder, InHand, NEW f \in Said
  PROVE  /\ f \in Frame /\ f.at \in SayKinds /\ f.s \in Script /\ Sound(f)
         /\ \E t \in Thread : f \in On(t) /\ Fits(f, t) /\ Here(f.at, f.s, t)
<1>1. PICK t \in Thread : f \in On(t) /\ f.at \in SayKinds
  BY DEF Said
<1>2. f \in Frame
  BY <1>1, OnFrames DEF InOrder, Types
<1>3. f.s \in Script
  BY <1>1, <1>2, FrameScript DEF SayKinds
<1>4. Sound(f) /\ Fits(f, t)
  BY <1>1 DEF InHand, Framed, Sounds, Structure
<1>5. Here(f.at, f.s, t)
  BY <1>1 DEF Here
<1> QED BY <1>1, <1>2, <1>3, <1>4, <1>5

(* A script that goes on in a function goes on in one, and has no compiler.  *)
LEMMA OneSays ==
  ASSUME BuildAssumption, InOrder, InHand, NEW f \in Said,
         f.at \in {"check", "launch", "lock", "tell"}
  PROVE  /\ \A g \in Said : g.at \in {"check", "launch", "lock", "tell"} /\ g.s = f.s => g = f
         /\ ~Compiling(f.s) /\ f.s \in beingBuilt /\ f.s \in Script
         /\ BuildSelfThread(f.s) \notin Called
<1>0. OneToken /\ TokensGoOn
  BY DEF InHand, GoingOn
<1>1. PICK t \in Thread : f \in On(t) /\ Here(f.at, f.s, t)
  BY SaidFrame
<1>2. /\ f.s \in Script /\ HasToken(f.at, f.s, t) /\ f.at \in TokenKinds /\ t \in Thread \cup {None}
      /\ f.at # "self" /\ f.at # "finished" /\ f.at # "compiler"
  BY <1>1, SaidFrame DEF HasToken, TokenKinds
<1>3. ASSUME NEW g \in Said, g.at \in {"check", "launch", "lock", "tell"}, g.s = f.s
      PROVE  g = f
  <2>1. PICK u \in Thread : g \in On(u) /\ Here(g.at, g.s, u)
    BY SaidFrame
  <2>2. HasToken(g.at, f.s, u) /\ g.at \in TokenKinds /\ u \in Thread \cup {None}
    BY <1>3, <2>1 DEF HasToken, TokenKinds
  <2>3. g.at = f.at /\ u = t
    BY <1>0, <1>2, <2>2 DEF OneToken
  <2> QED BY <1>1, <1>3, <2>1, <2>3, OneOfKind
<1>4. /\ BuildSelfThread(f.s) \notin Called /\ CompileFinished(f.s) \notin Called
      /\ f.s \notin compilers
  BY <1>0, <1>2, NoOtherToken
<1>5. f.s \in beingBuilt
  BY <1>0, <1>2 DEF TokensGoOn
<1> QED BY <1>2, <1>3, <1>4, <1>5 DEF Compiling

(* A script that is being compiled is being built and waits for nothing.     *)
LEMMA CompilingGoesOn ==
  ASSUME InHand, NEW s \in Script, Compiling(s)
  PROVE  s \in beingBuilt \ Unresolvable /\ buildDeps[s] = {}
<1>1. PICK a \in {"compiler", "finished"} : HasToken(a, s, None)
  BY DEF Compiling, HasToken
<1>2. a \in TokenKinds /\ None \in Thread \cup {None} /\ a \notin {"lock", "tell"}
  BY DEF TokenKinds
<1> QED BY <1>1, <1>2 DEF InHand, GoingOn, TokensGoOn
-----------------------------------------------------------------------------
(* What the actions say: those of BuildImpl first, which say nothing unless  *)
(* they begin a compilation or a completion.                                 *)
LEMMA GoToSays ==
  ASSUME BuildAssumption, InOrder, InHand, NEW t \in Thread, NEW here, At(t, here), NEW where,
         NEW g \in Frame, g = [Top(t) EXCEPT !.at = where], GoTo(t, where)
  PROVE  Says({Top(t)}, {g})
<1>1. Covered
  BY DEF InHand, Framed
<1>2. Swap(t, Rest(t), {Top(t)}, {g})
  BY <1>1, GoToSwaps
<1> QED BY <1>2, SwapSays

LEMMA ReturnSays ==
  ASSUME BuildAssumption, InOrder, InHand, NEW t \in Thread, NEW here, At(t, here), Return(t)
  PROVE  Says({Top(t)}, {})
<1>1. Covered
  BY DEF InHand, Framed
<1>2. Swap(t, Rest(t), {Top(t)}, {})
  BY <1>1, ReturnSwaps
<1> QED BY <1>2, SwapSays

LEMMA BecomeSays ==
  ASSUME BuildAssumption, InOrder, InHand, NEW t \in Thread, NEW here, At(t, here),
         NEW f \in Frame, Become(t, f)
  PROVE  Says({Top(t)}, {f})
<1>1. Covered
  BY DEF InHand, Framed
<1>2. Swap(t, Rest(t), {Top(t)}, {f})
  BY <1>1, BecomeSwaps
<1> QED BY <1>2, SwapSays

LEMMA EnterSays ==
  ASSUME BuildAssumption, InOrder, InHand, NEW t \in Thread, NEW here, At(t, here), NEW where,
         NEW f \in Frame, NEW g \in Frame, g = [Top(t) EXCEPT !.at = where],
         g.at \in CoveredKinds, Enter(t, f, where)
  PROVE  Says({Top(t)}, {f, g})
<1>1. Covered
  BY DEF InHand, Framed
<1>2. Swap(t, Rest(t), {Top(t)}, {f, g})
  BY <1>1, EnterSwaps
<1> QED BY <1>2, SwapSays

LEMMA CallSays ==
  ASSUME BuildAssumption, InOrder, InHand, NEW t \in Thread, NEW here, At(t, here),
         NEW f \in Frame, NEW g \in Frame, g.at \in CoveredKinds,
         stack' = [stack EXCEPT ![t] = <<f, g>> \o Tail(stack[t])]
  PROVE  Says({Top(t)}, {f, g})
<1>1. Covered
  BY DEF InHand, Framed
<1>2. Swap(t, Rest(t), {Top(t)}, {f, g})
  BY <1>1, CallSwaps
<1> QED BY <1>2, SwapSays

(* Who asks, is noted or leaves says nothing.                                *)
LEMMA AskSays ==
  ASSUME BuildAssumption, InOrder, InHand, NEW t \in Thread,
         LockBuild(t) \/ AddBuildPseudoInitiator(t)
  PROVE  Said' = Said
<1>1. PICK here \in {"enter", "progress"}, where \in {"test", "leave"} : At(t, here) /\ GoTo(t, where)
  BY DEF LockBuild, AddBuildPseudoInitiator
<1>2. Types
  BY DEF InOrder
<1>3. Top(t) \in BuildFrame /\ Top(t).at = here
  BY <1>1, <1>2, BuildFields, TopKnown
<1>4. PICK g : g = [Top(t) EXCEPT !.at = where]
  OBVIOUS
<1>5. g \in Frame /\ g.at = where
  BY <1>3, <1>4 DEF BuildFrame, Frame
<1>6. Says({Top(t)}, {g})
  BY <1>1, <1>4, <1>5, GoToSays
<1>7. \A f \in {Top(t)} \cup {g} : f.at \notin SayKinds
  BY <1>3, <1>5 DEF SayKinds
<1> QED BY <1>6, <1>7, NothingSaid

LEMMA LeaveSays ==
  ASSUME BuildAssumption, InOrder, InHand, NEW t \in Thread, LeaveBuild(t) \/ UnlockComp(t)
  PROVE  Said' = Said
<1>1. PICK here \in {"leave", "deps", "unresolved", "unlock"} : At(t, here) /\ Return(t)
  BY DEF LeaveBuild, UnlockComp
<1>2. Top(t).at = here
  BY <1>1, TopKnown
<1>3. Says({Top(t)}, {})
  BY <1>1, ReturnSays
<1>4. \A f \in {Top(t)} \cup {} : f.at \notin SayKinds
  BY <1>2 DEF SayKinds
<1> QED BY <1>3, <1>4, NothingSaid

LEMMA BuildDependencySays ==
  ASSUME BuildAssumption, InOrder, InHand, NEW t \in Thread, BuildDependency(t)
  PROVE  Said' = Said
<1>1. Types /\ At(t, "deps")
  BY DEF InOrder, BuildDependency
<1>2. /\ Top(t).at = "deps" /\ Top(t) \in BuildFrame /\ Top(t).todo \subseteq Script
      /\ Top(t).s \in Script /\ Top(t).s \in Requester
  BY <1>1, BuildFields, TopKnown DEF Requester
<1>3. PICK d \in Top(t).todo :
        stack' = [stack EXCEPT ![t] = <<BuildImpl(d, Top(t).s), [Top(t) EXCEPT !.todo = @ \ {d}]>>
                                      \o Tail(stack[t])]
  BY <1>1 DEF BuildDependency, Types, Stacks
<1>4. PICK k, g : k = BuildImpl(d, Top(t).s) /\ g = [Top(t) EXCEPT !.todo = @ \ {d}]
  OBVIOUS
<1>5. k \in Frame
  BY <1>2, <1>3, <1>4, NewFrames
<1>6. g \in Frame /\ g.at = "deps"
  BY <1>2, <1>4 DEF BuildFrame, Frame
<1>7. k.at = "enter"
  BY <1>4 DEF BuildImpl
<1>8. Says({Top(t)}, {k, g})
  BY <1>1, <1>3, <1>4, <1>5, <1>6, CallSays DEF CoveredKinds
<1>9. \A f \in {Top(t)} \cup {k, g} : f.at \notin SayKinds
  BY <1>2, <1>6, <1>7 DEF SayKinds
<1> QED BY <1>8, <1>9, NothingSaid

LEMMA AskNextSays ==
  ASSUME BuildAssumption, InOrder, InHand, NEW w \in Worker, AskNext(w)
  PROVE  Said' = Said
<1>1. Types /\ At(w, "work") /\ w \in Thread /\ w \in Requester
  BY DEF InOrder, AskNext, Thread, Requester
<1>2. Top(w).at = "work" /\ Top(w).children \in Seq(Script) /\ Tail(stack[w]) = <<>>
  BY <1>1, WorkFields, TopKnown, WorkAlone
<1>3. CASE Return(w)
  <2>1. Says({Top(w)}, {})
    BY <1>1, <1>3, ReturnSays
  <2>2. \A f \in {Top(w)} \cup {} : f.at \notin SayKinds
    BY <1>2 DEF SayKinds
  <2> QED BY <2>1, <2>2, NothingSaid
<1>4. CASE ~Return(w)
  <2>1. PICK k, g : k = BuildImpl(Head(Top(w).children), w) /\ g = Work(Tail(Top(w).children))
    OBVIOUS
  <2>2. stack' = [stack EXCEPT ![w] = <<k, g>>] /\ Top(w).children # <<>>
    BY <1>4, <2>1 DEF AskNext
  <2>3. k \in Frame /\ g \in Frame
    <3>1. Head(Top(w).children) \in Script /\ Tail(Top(w).children) \in Seq(Script)
      BY <1>2, <2>2
    <3>2. k \in Frame
      BY <1>1, <2>1, <3>1, NewFrames
    <3>3. g \in Frame
      BY <2>1, <3>1, NewFrames
    <3> QED BY <3>2, <3>3
  <2>4. k.at = "enter" /\ g.at = "work"
    BY <2>1 DEF BuildImpl, Work
  <2>5. stack' = [stack EXCEPT ![w] = <<k, g>> \o Tail(stack[w])]
    <3>1. <<k, g>> \in Seq(Frame)
      BY <2>3
    <3>2. <<k, g>> \o <<>> = <<k, g>>
      BY ONLY <3>1
    <3> QED BY <1>2, <2>2, <3>2
  <2>6. Says({Top(w)}, {k, g})
    BY <1>1, <2>3, <2>4, <2>5, CallSays DEF CoveredKinds
  <2>7. \A f \in {Top(w)} \cup {k, g} : f.at \notin SayKinds
    BY <1>2, <2>4 DEF SayKinds
  <2> QED BY <2>6, <2>7, NothingSaid
<1> QED BY <1>3, <1>4

LEMMA WorkStartsSays ==
  ASSUME BuildAssumption, InOrder, InHand, NEW w \in Worker, WorkStarts(w)
  PROVE  Said' = Said
<1>1. At(w, "start") /\ w \in Thread
  BY DEF WorkStarts, Thread
<1>2. PICK g : g = Work(Children[w])
  OBVIOUS
<1>3. Top(w).at = "start" /\ g.at = "work" /\ g \in Frame /\ Become(w, g)
  <2>1. g \in Frame
    BY <1>2, NewFrames DEF BuildAssumption
  <2>2. g.at = "work"
    BY <1>2 DEF Work
  <2> QED BY <1>1, <1>2, <2>1, <2>2, TopKnown DEF WorkStarts
<1>4. Says({Top(w)}, {g})
  BY <1>1, <1>3, BecomeSays
<1>5. \A f \in {Top(w)} \cup {g} : f.at \notin SayKinds
  BY <1>3 DEF SayKinds
<1> QED BY <1>4, <1>5, NothingSaid

LEMMA StartWorkingSays ==
  ASSUME StartWorking
  PROVE  Said' = Said
<1>1. ASSUME NEW t \in Thread PROVE \A f \in On(t) \cup On(t)' : f.at \notin SayKinds
  <2>1. On(t) = {}
    BY DEF StartWorking, On, Elems
  <2>2. PICK w : w = WorkThread
    OBVIOUS
  <2>3. w.at = "start"
    BY <2>2 DEF WorkThread
  <2>4. stack'[t] = <<w>> \/ stack'[t] = <<>>
    BY <2>2 DEF StartWorking
  <2>5. On(t)' \subseteq {w}
    BY <2>4 DEF On, Elems
  <2> QED BY <2>1, <2>3, <2>5 DEF SayKinds
<1>2. Said = {} /\ Said' = {}
  BY <1>1 DEF Said
<1> QED BY <1>2

(* A function that completes a script, or compiles it.                       *)
Completes(k, s, ok, pid) == k.at = "lock" /\ k.s = s /\ k.ok = ok /\ k.pid = pid
Compiles(k, where, s)    == k.at = where /\ k.s = s

LEMMA SetBuildCompletedIs ==
  ASSUME NEW s \in Script, NEW ok \in BOOLEAN, NEW pid \in Script \cup {None},
         NEW k, k = SetBuildCompleted(s, ok, pid)
  PROVE  k \in Frame /\ Completes(k, s, ok, pid)
<1>1. k \in Frame
  BY NewFrames
<1> QED BY <1>1 DEF SetBuildCompleted, Completes

LEMMA BuildSelfIs ==
  ASSUME NEW s \in Script, NEW k, k = BuildSelf(s)
  PROVE  k \in Frame /\ Compiles(k, "check", s)
<1>1. k \in Frame
  BY NewFrames
<1> QED BY <1>1 DEF BuildSelf, Compiles

(* It is called by a function that says nothing.                             *)
LEMMA OneSaid ==
  ASSUME NEW f, NEW k, NEW g, Says({f}, {k, g}), f.at \notin SayKinds, g.at \notin SayKinds,
         k.at \in SayKinds
  PROVE  Said' = Said \cup {k}
<1>1. \A h \in Said : h.at \in SayKinds
  BY DEF Said
<1>2. \A h \in Said' : h.at \in SayKinds
  BY DEF Said
<1> QED BY <1>1, <1>2 DEF Says

LEMMA EnterCompletes ==
  ASSUME BuildAssumption, InOrder, InHand, NEW t \in Thread, NEW here \in {"test", "progress"},
         At(t, here), NEW where \in {"leave", "unresolved"}, NEW k \in Frame, k.at \in SayKinds,
         Enter(t, k, where)
  PROVE  Said' = Said \cup {k}
<1>1. Types
  BY DEF InOrder
<1>2. Top(t) \in BuildFrame /\ Top(t).at = here
  BY <1>1, BuildFields, TopKnown
<1>3. PICK g : g = [Top(t) EXCEPT !.at = where]
  OBVIOUS
<1>4. g \in Frame /\ g.at = where
  BY <1>2, <1>3 DEF BuildFrame, Frame
<1>5. g.at \in CoveredKinds /\ g.at \notin SayKinds /\ Top(t).at \notin SayKinds
  BY <1>2, <1>4 DEF CoveredKinds, SayKinds
<1>6. Says({Top(t)}, {k, g})
  BY <1>3, <1>4, <1>5, EnterSays
<1> QED BY <1>5, <1>6, OneSaid

LEMMA TestUpToDateSays ==
  ASSUME BuildAssumption, InOrder, InHand, NEW t \in Thread, TestUpToDate(t)
  PROVE  IF Top(t).s \in upToDate
         THEN \E k \in Frame : Completes(k, Top(t).s, TRUE, None) /\ Said' = Said \cup {k}
         ELSE Said' = Said
<1>1. Types /\ At(t, "test")
  BY DEF InOrder, TestUpToDate
<1>2. Top(t) \in BuildFrame /\ Top(t).at = "test" /\ Top(t).s \in Script
  BY <1>1, BuildFields, TopKnown
<1>3. CASE Top(t).s \in upToDate
  <2>1. PICK k : k = SetBuildCompleted(Top(t).s, TRUE, None)
    OBVIOUS
  <2>2. k \in Frame /\ Completes(k, Top(t).s, TRUE, None)
    BY <1>2, <2>1, SetBuildCompletedIs
  <2>3. Enter(t, k, "leave")
    BY <1>3, <2>1 DEF TestUpToDate
  <2>4. k.at \in SayKinds
    BY <2>2 DEF Completes, SayKinds
  <2>5. Said' = Said \cup {k}
    BY <1>1, <2>2, <2>3, <2>4, EnterCompletes
  <2> QED BY <1>3, <2>2, <2>5
<1>4. CASE Top(t).s \notin upToDate
  <2>1. GoTo(t, "progress")
    BY <1>4 DEF TestUpToDate
  <2>2. PICK g : g = [Top(t) EXCEPT !.at = "progress"]
    OBVIOUS
  <2>3. g \in Frame /\ g.at = "progress"
    BY <1>2, <2>2 DEF BuildFrame, Frame
  <2>4. Says({Top(t)}, {g})
    BY <1>1, <2>1, <2>2, <2>3, GoToSays
  <2>5. \A f \in {Top(t)} \cup {g} : f.at \notin SayKinds
    BY <1>2, <2>3 DEF SayKinds
  <2> QED BY <1>4, <2>4, <2>5, NothingSaid
<1> QED BY <1>3, <1>4

LEMMA StartBuildSays ==
  ASSUME BuildAssumption, InOrder, InHand, NEW t \in Thread, StartBuild(t)
  PROVE  IF Top(t).s \in Unresolvable
         THEN \E k \in Frame : Completes(k, Top(t).s, FALSE, None) /\ Said' = Said \cup {k}
         ELSE IF Uses[Top(t).s] = {}
         THEN \E k \in Frame : Compiles(k, "check", Top(t).s) /\ Said' = Said \cup {k}
         ELSE Said' = Said
<1>1. Types /\ At(t, "progress")
  BY DEF InOrder, StartBuild
<1>2. /\ Top(t) \in BuildFrame /\ Top(t).at = "progress" /\ Top(t).s \in Script
      /\ Uses[Top(t).s] \subseteq Script /\ Top(t) \in Frame
  BY <1>1, BuildFields, TopKnown DEF BuildAssumption
<1>3. CASE Top(t).s \in Unresolvable
  <2>1. PICK k : k = SetBuildCompleted(Top(t).s, FALSE, None)
    OBVIOUS
  <2>2. k \in Frame /\ Completes(k, Top(t).s, FALSE, None)
    BY <1>2, <2>1, SetBuildCompletedIs
  <2>3. Enter(t, k, "unresolved")
    BY <1>3, <2>1 DEF StartBuild
  <2>4. k.at \in SayKinds
    BY <2>2 DEF Completes, SayKinds
  <2>5. Said' = Said \cup {k}
    BY <1>1, <2>2, <2>3, <2>4, EnterCompletes
  <2> QED BY <1>3, <2>2, <2>5
<1>4. CASE Top(t).s \notin Unresolvable /\ Uses[Top(t).s] = {}
  <2>1. PICK k : k = BuildSelf(Top(t).s)
    OBVIOUS
  <2>2. k \in Frame /\ Compiles(k, "check", Top(t).s)
    BY <1>2, <2>1, BuildSelfIs
  <2>3. Enter(t, k, "leave")
    BY <1>4, <2>1 DEF StartBuild
  <2>4. k.at \in SayKinds
    BY <2>2 DEF Compiles, SayKinds
  <2>5. Said' = Said \cup {k}
    BY <1>1, <2>2, <2>3, <2>4, EnterCompletes
  <2> QED BY <1>4, <2>2, <2>5
<1>5. CASE Top(t).s \notin Unresolvable /\ Uses[Top(t).s] # {}
  <2>1. PICK g : g = [Top(t) EXCEPT !.at = "deps", !.todo = Uses[Top(t).s]]
    OBVIOUS
  <2>2. g \in Frame /\ g.at = "deps"
    BY <1>2, <2>1 DEF BuildFrame, Frame
  <2>3. stack[t] \in Seq(Frame) /\ stack[t] # <<>>
    BY <1>1, TopIsFrame DEF Types
  <2>4. stack' = [stack EXCEPT ![t] = [stack[t] EXCEPT ![1] = g]]
    BY <1>5, <2>1, <2>3, <1>1 DEF StartBuild, Top, Types, Stacks
  <2>5. Become(t, g)
    BY <1>1, <2>2, <2>4, TopIsBecome DEF Types
  <2>6. Says({Top(t)}, {g})
    BY <1>1, <2>2, <2>5, BecomeSays
  <2>7. \A f \in {Top(t)} \cup {g} : f.at \notin SayKinds
    BY <1>2, <2>2 DEF SayKinds
  <2> QED BY <1>5, <2>6, <2>7, NothingSaid
<1> QED BY <1>3, <1>4, <1>5

(* Compilation.                                                              *)
LEMMA TopSays ==
  ASSUME BuildAssumption, InOrder, InHand, NEW t \in Thread, NEW here \in SayKinds, At(t, here)
  PROVE  Top(t) \in Said /\ Top(t).at = here /\ Top(t) \in Frame /\ Top(t).s \in Script
<1>1. Top(t) \in On(t) /\ Top(t).at = here /\ Top(t) \in Frame
  BY TopKnown
<1>2. Top(t) \in Said
  BY <1>1 DEF Said
<1> QED BY <1>1, <1>2, SaidFrame

LEMMA CheckByteCodeSays ==
  ASSUME BuildAssumption, InOrder, InHand, NEW t \in Thread, CheckByteCode(t)
  PROVE  /\ Top(t) \in Said /\ Top(t).at = "check" /\ Top(t).s \in Script
         /\ \E k \in Frame :
              /\ IF Top(t).s \in byteCode /\ Top(t).s \notin someDepsCompiled
                 THEN Completes(k, Top(t).s, TRUE, None)
                 ELSE Compiles(k, "launch", Top(t).s)
              /\ Says({Top(t)}, {k})
<1>1. Types /\ At(t, "check")
  BY DEF InOrder, CheckByteCode
<1>2. Top(t) \in CompileFrame /\ Top(t).at = "check" /\ Top(t).s \in Script /\ Top(t) \in Said
  BY <1>1, CompileFields, TopSays DEF SayKinds
<1>3. CASE Top(t).s \in byteCode /\ Top(t).s \notin someDepsCompiled
  <2>1. PICK k : k = SetBuildCompleted(Top(t).s, TRUE, None)
    OBVIOUS
  <2>2. k \in Frame /\ Completes(k, Top(t).s, TRUE, None)
    BY <1>2, <2>1, SetBuildCompletedIs
  <2>3. Become(t, k)
    BY <1>3, <2>1 DEF CheckByteCode
  <2>4. Says({Top(t)}, {k})
    BY <1>1, <2>2, <2>3, BecomeSays
  <2> QED BY <1>2, <1>3, <2>2, <2>4
<1>4. CASE ~(Top(t).s \in byteCode /\ Top(t).s \notin someDepsCompiled)
  <2>1. PICK k : k = [Top(t) EXCEPT !.at = "launch"]
    OBVIOUS
  <2>2. k \in Frame /\ Compiles(k, "launch", Top(t).s)
    BY <1>2, <2>1 DEF CompileFrame, Frame, Compiles
  <2>3. GoTo(t, "launch")
    BY <1>4 DEF CheckByteCode
  <2>4. Says({Top(t)}, {k})
    BY <1>1, <2>1, <2>2, <2>3, GoToSays
  <2> QED BY <1>2, <1>4, <2>2, <2>4
<1> QED BY <1>3, <1>4

LEMMA LaunchCompilerSays ==
  ASSUME BuildAssumption, InOrder, InHand, NEW t \in Thread, LaunchCompiler(t)
  PROVE  /\ Top(t) \in Said /\ Top(t).at = "launch" /\ Top(t).s \in Script
         /\ workId[Top(t).s] # None
         /\ \E k \in Frame : Compiles(k, "launched", Top(t).s) /\ Says({Top(t)}, {k})
<1>1. Types /\ At(t, "launch")
  BY DEF InOrder, LaunchCompiler
<1>2. /\ Top(t) \in CompileFrame /\ Top(t).at = "launch" /\ Top(t).s \in Script /\ Top(t) \in Said
      /\ Top(t) \in On(t)
  BY <1>1, CompileFields, TopSays, TopKnown DEF SayKinds
<1>3. workId[Top(t).s] # None
  BY <1>2, HasWorkId DEF Here
<1>4. PICK k : k = [Top(t) EXCEPT !.at = "launched"]
  OBVIOUS
<1>5. k \in Frame /\ Compiles(k, "launched", Top(t).s)
  BY <1>2, <1>4 DEF CompileFrame, Frame, Compiles
<1>6. GoTo(t, "launched")
  BY <1>3 DEF LaunchCompiler
<1>7. Says({Top(t)}, {k})
  BY <1>1, <1>4, <1>5, <1>6, GoToSays
<1> QED BY <1>2, <1>3, <1>5, <1>7

LEMMA LaunchFailsSays ==
  ASSUME BuildAssumption, InOrder, InHand, NEW t \in Thread, LaunchFails(t)
  PROVE  /\ Top(t) \in Said /\ Top(t).at = "launch" /\ Top(t).s \in Script
         /\ \E k \in Frame : Completes(k, Top(t).s, FALSE, None) /\ Says({Top(t)}, {k})
<1>1. Types /\ At(t, "launch")
  BY DEF InOrder, LaunchFails
<1>2. Top(t) \in CompileFrame /\ Top(t).at = "launch" /\ Top(t).s \in Script /\ Top(t) \in Said
  BY <1>1, CompileFields, TopSays DEF SayKinds
<1>3. PICK k, g : k = SetBuildCompleted(Top(t).s, FALSE, None) /\ g = [Top(t) EXCEPT !.at = "unlock"]
  OBVIOUS
<1>4. k \in Frame /\ Completes(k, Top(t).s, FALSE, None)
  BY <1>2, <1>3, SetBuildCompletedIs
<1>5. g \in Frame /\ g.at = "unlock"
  BY <1>2, <1>3 DEF CompileFrame, Frame
<1>6. Enter(t, k, "unlock") /\ g.at \in CoveredKinds /\ g.at \notin SayKinds
  BY <1>3, <1>5 DEF LaunchFails, CoveredKinds, SayKinds
<1>7. Says({Top(t)}, {k, g})
  BY <1>1, <1>3, <1>4, <1>5, <1>6, EnterSays
<1>8. Says({Top(t)}, {k})
  <2>1. \A h \in Said' : h.at \in SayKinds
    BY DEF Said
  <2> QED BY <1>6, <1>7, <2>1 DEF Says
<1> QED BY <1>2, <1>4, <1>8

LEMMA SetCompilerPidSays ==
  ASSUME BuildAssumption, InOrder, InHand, NEW t \in Thread, SetCompilerPid(t)
  PROVE  Top(t) \in Said /\ Top(t).at = "launched" /\ Top(t).s \in Script /\ Says({Top(t)}, {})
<1>1. At(t, "launched") /\ Return(t)
  BY DEF SetCompilerPid
<1>2. Top(t).at = "launched" /\ Top(t).s \in Script /\ Top(t) \in Said
  BY <1>1, TopSays DEF SayKinds
<1> QED BY <1>1, <1>2, ReturnSays

(* Completion.                                                               *)
Tells(k, f, list) ==
  k.at = "tell" /\ k.s = f.s /\ k.ok = f.ok /\ k.pid = f.pid /\ k.tell = list
Takes(k, r, f, pid) ==
  k.at = "erase" /\ k.s = r /\ k.dep = f.s /\ k.ok = f.ok /\ k.pid = pid

LEMMA LockDoneSays ==
  ASSUME BuildAssumption, InOrder, InHand, NEW t \in Thread, LockDone(t), NEW f, f = Top(t)
  PROVE  /\ f \in Said /\ f.at = "lock" /\ f.s \in Script /\ f.pid \in {None, f.s}
         /\ \E k \in Frame : Tells(k, f, TellList(f.s, f.pid)) /\ Says({f}, {k})
<1>1. Types /\ At(t, "lock")
  BY DEF InOrder, LockDone
<1>2. f \in Said /\ f.at = "lock" /\ f.s \in Script /\ f \in DoneFrame /\ f.pid \in Script \cup {None}
  BY <1>1, DoneFields, TopSays DEF SayKinds
<1>3. f.pid \in {None, f.s}
  <2>1. Sound(f)
    BY <1>2, SaidFrame
  <2> QED BY <1>2, <2>1 DEF Sound
<1>4. PICK k, L : L = TellList(f.s, f.pid) /\ k = [f EXCEPT !.at = "tell", !.tell = L]
  OBVIOUS
<1>5. k \in Frame /\ Tells(k, f, L)
  <2>1. L \in Seq(Requester \X (Script \cup {None}))
    BY <1>1, <1>2, <1>4, TellListIs
  <2>2. k \in DoneFrame /\ Tells(k, f, L)
    BY ONLY <1>2, <1>4, <2>1 DEF DoneFrame, Tells
  <2> QED BY <2>2 DEF Frame
<1>6. Become(t, k)
  <2>1. stack[t] # <<>> /\ stack[t] \in Seq(Frame) /\ stack \in [Thread -> Seq(Frame)]
    BY <1>1, TopIsFrame DEF Types, Stacks
  <2>2. stack' = [stack EXCEPT ![t] = [stack[t] EXCEPT ![1] =
                    [Top(t) EXCEPT !.at = "tell", !.tell = TellList(Top(t).s, Top(t).pid)]]]
    BY <2>1 DEF LockDone, TellList, Top
  <2>3. stack' = [stack EXCEPT ![t] = [stack[t] EXCEPT ![1] = k]]
    BY ONLY <1>4, <2>2, f = Top(t)
  <2> QED BY <1>1, <1>5, <2>3, TopIsBecome DEF Types
<1>7. Says({f}, {k})
  BY <1>1, <1>5, <1>6, BecomeSays
<1> QED BY <1>2, <1>3, <1>4, <1>5, <1>7

LEMMA TellRequesterSays ==
  ASSUME BuildAssumption, InOrder, InHand, NEW t \in Thread, TellRequester(t),
         NEW f, f = Top(t), NEW r, r = Head(f.tell)[1], NEW pid, pid = Head(f.tell)[2]
  PROVE  /\ f \in Said /\ f.at = "tell" /\ f.s \in Script /\ f.tell # <<>> /\ r \in Requester
         /\ f.tell \in Seq(Requester \X (Script \cup {None}))
         /\ \E g \in Frame :
              /\ Tells(g, f, Tail(f.tell))
              /\ IF r \in beingBuilt
                 THEN \E k \in Frame : Takes(k, r, f, pid) /\ Says({f}, {k, g})
                 ELSE Says({f}, {g})
<1>1. Types /\ At(t, "tell") /\ f.tell # <<>>
  BY DEF InOrder, TellRequester
<1>2. /\ f \in Said /\ f.at = "tell" /\ f.s \in Script /\ f \in DoneFrame /\ f.ok \in BOOLEAN
      /\ f.tell \in Seq(Requester \X (Script \cup {None}))
  BY <1>1, DoneFields, TopSays DEF SayKinds
<1>3. PICK L, tl : L = f.tell /\ tl = Tail(f.tell)
  OBVIOUS
<1>4. /\ r \in Requester /\ pid \in Script \cup {None}
      /\ tl \in Seq(Requester \X (Script \cup {None}))
  <2>1. PICK S : S = Requester \X (Script \cup {None})
    OBVIOUS
  <2>2. L \in Seq(S) /\ L # <<>>
    BY <1>1, <1>2, <1>3, <2>1
  <2>3. Head(L) \in S /\ Tail(L) \in Seq(S)
    BY ONLY <2>2
  <2> QED BY <1>3, <2>1, <2>3
<1>5. PICK g, k : /\ g = [f EXCEPT !.tell = tl]
                  /\ k = SetInitiatedBuildIsCompleted(r, f.s, f.ok, pid)
  OBVIOUS
<1>6. g \in Frame /\ Tells(g, f, tl) /\ g.at \in CoveredKinds
  <2>1. g \in DoneFrame /\ Tells(g, f, tl)
    BY ONLY <1>2, <1>4, <1>5 DEF DoneFrame, Tells
  <2> QED BY <2>1 DEF Frame, Tells, CoveredKinds
<1>7. CASE r \in beingBuilt
  <2>1. r \in Script
    BY <1>1, <1>7 DEF Types, FlagsOK
  <2>2. k \in Frame
    BY <1>2, <1>4, <1>5, <2>1, NewFrames
  <2>3. Takes(k, r, f, pid)
    BY <1>5 DEF SetInitiatedBuildIsCompleted, Takes
  <2>4. stack' = [stack EXCEPT ![t] = <<k, g>> \o Tail(stack[t])]
    BY <1>3, <1>5, <1>7 DEF TellRequester
  <2>5. Says({f}, {k, g})
    BY <1>1, <1>6, <2>2, <2>4, CallSays
  <2> QED BY <1>1, <1>2, <1>3, <1>4, <1>6, <1>7, <2>2, <2>3, <2>5
<1>8. CASE r \notin beingBuilt
  <2>1. Become(t, g)
    BY <1>3, <1>5, <1>8 DEF TellRequester, Become
  <2>2. Says({f}, {g})
    BY <1>1, <1>6, <2>1, BecomeSays
  <2> QED BY <1>1, <1>2, <1>3, <1>4, <1>6, <1>8, <2>2
<1> QED BY <1>7, <1>8

LEMMA BuildIsCompletedSays ==
  ASSUME BuildAssumption, InOrder, InHand, NEW t \in Thread, BuildIsCompleted(t)
  PROVE  /\ Top(t) \in Said /\ Top(t).at = "tell" /\ Top(t).s \in Script /\ Top(t).tell = <<>>
         /\ Says({Top(t)}, {})
<1>1. At(t, "tell") /\ Return(t) /\ Top(t).tell = <<>>
  BY DEF BuildIsCompleted
<1>2. Top(t).at = "tell" /\ Top(t).s \in Script /\ Top(t) \in Said
  BY <1>1, TopSays DEF SayKinds
<1> QED BY <1>1, <1>2, ReturnSays

LEMMA EraseDependencySays ==
  ASSUME BuildAssumption, InOrder, InHand, NEW t \in Thread, EraseDependency(t)
  PROVE  /\ Top(t) \in Said /\ Top(t).at = "erase" /\ Top(t).s \in Script /\ Top(t).dep \in Script
         /\ \E k \in Frame : k.at = "last" /\ k.s = Top(t).s /\ Says({Top(t)}, {k})
<1>1. Types /\ At(t, "erase") /\ GoTo(t, "last")
  BY DEF InOrder, EraseDependency
<1>2. /\ Top(t) \in Said /\ Top(t).at = "erase" /\ Top(t).s \in Script /\ Top(t).dep \in Script
      /\ Top(t) \in ToldFrame
  BY <1>1, ToldFields, TopSays DEF SayKinds
<1>3. PICK k : k = [Top(t) EXCEPT !.at = "last"]
  OBVIOUS
<1>4. k \in Frame /\ k.at = "last" /\ k.s = Top(t).s
  <2>1. k \in ToldFrame /\ k.at = "last" /\ k.s = Top(t).s
    BY <1>2, <1>3 DEF ToldFrame
  <2> QED BY <2>1 DEF Frame
<1>5. Says({Top(t)}, {k})
  BY <1>1, <1>3, <1>4, GoToSays
<1> QED BY <1>2, <1>4, <1>5

LEMMA LastDependencySays ==
  ASSUME BuildAssumption, InOrder, InHand, NEW t \in Thread, LastDependency(t)
  PROVE  /\ Top(t) \in Said /\ Top(t).at = "last"
         /\ \/ /\ Says({Top(t)}, {}) /\ calls' = calls
            \/ /\ Says({Top(t)}, {}) /\ Post(BuildSelfThread(Top(t).s))
               /\ buildDeps[Top(t).s] = {} /\ Top(t).s \notin depsFailed
            \/ /\ \E k \in Frame : Completes(k, Top(t).s, FALSE, None) /\ Says({Top(t)}, {k})
               /\ buildDeps[Top(t).s] = {} /\ Top(t).s \in depsFailed /\ calls' = calls
<1>1. Types /\ At(t, "last")
  BY DEF InOrder, LastDependency
<1>2. Top(t) \in Said /\ Top(t).at = "last" /\ Top(t).s \in Script
  BY <1>1, TopSays DEF SayKinds
<1>3. /\ buildDeps[Top(t).s] # {} => Return(t) /\ calls' = calls
      /\ buildDeps[Top(t).s] = {} =>
           IF Top(t).s \notin depsFailed
           THEN Return(t) /\ Post(BuildSelfThread(Top(t).s))
           ELSE Become(t, SetBuildCompleted(Top(t).s, FALSE, None)) /\ calls' = calls
  BY DEF LastDependency
<1>4. Return(t) => Says({Top(t)}, {})
  BY <1>1, ReturnSays
<1>5. ASSUME Become(t, SetBuildCompleted(Top(t).s, FALSE, None))
      PROVE  \E k \in Frame : Completes(k, Top(t).s, FALSE, None) /\ Says({Top(t)}, {k})
  <2>1. PICK k : k = SetBuildCompleted(Top(t).s, FALSE, None)
    OBVIOUS
  <2>2. k \in Frame /\ Completes(k, Top(t).s, FALSE, None)
    BY <1>2, <2>1, SetBuildCompletedIs
  <2>3. Become(t, k)
    BY <1>5, <2>1
  <2>4. Says({Top(t)}, {k})
    BY <1>1, <2>2, <2>3, BecomeSays
  <2> QED BY <2>2, <2>4
<1> QED BY <1>2, <1>3, <1>4, <1>5

(* Delayed calls that begin something.                                       *)
LEMMA StartBuildSelfThreadSays ==
  ASSUME BuildAssumption, InOrder, InHand, NEW s \in Script, NEW p \in Pool,
         StartBuildSelfThread(s, p)
  PROVE  \E k \in Frame : Compiles(k, "check", s) /\ Says({}, {k})
<1>1. PICK k : k = BuildSelf(s)
  OBVIOUS
<1>2. k \in Frame /\ Compiles(k, "check", s)
  BY <1>1, BuildSelfIs
<1>3. /\ stack[p] = <<>> /\ stack' = [stack EXCEPT ![p] = <<k>>] /\ p \in Thread
      /\ Stacks /\ Covered
  BY <1>1 DEF StartBuildSelfThread, Thread, InOrder, Types, InHand, Framed
<1>4. Swap(p, {}, {}, {k})
  BY <1>2, <1>3, StartSwaps
<1> QED BY <1>2, <1>4, SwapSays

LEMMA OnCompileFinishedSays ==
  ASSUME BuildAssumption, InOrder, InHand, NEW s \in Script, OnCompileFinished(s)
  PROVE  /\ Calling(CompileFinished(s)) /\ compMutex[s] = None
         /\ \E k \in Frame : Completes(k, s, s \in byteCode, s) /\ Says({}, {k})
<1>1. PICK k, g : k = SetBuildCompleted(s, s \in byteCode, s) /\ g = [at |-> "unlock", s |-> s]
  OBVIOUS
<1>2. k \in Frame /\ Completes(k, s, s \in byteCode, s)
  <2>1. (s \in byteCode) \in BOOLEAN /\ s \in Script \cup {None}
    OBVIOUS
  <2> QED BY <1>1, <2>1, SetBuildCompletedIs
<1>3. g \in Frame /\ g.at = "unlock" /\ g.at \in CoveredKinds /\ g.at \notin SayKinds
  BY <1>1, NewFrames DEF CoveredKinds, SayKinds
<1>4. /\ Calling(CompileFinished(s)) /\ stack[Gui] = <<>> /\ stack' = [stack EXCEPT ![Gui] = <<k, g>>]
      /\ compMutex[s] = None
  BY <1>1 DEF OnCompileFinished, Calling, InHand, NothingCanceled
<1>5. Gui \in Thread /\ Stacks /\ Covered
  BY DEF Thread, InOrder, Types, InHand, Framed
<1>6. Swap(Gui, {}, {}, {k, g})
  BY <1>2, <1>3, <1>4, <1>5, StartTwoSwaps
<1>7. Says({}, {k, g})
  BY <1>6, SwapSays
<1>8. Says({}, {k})
  <2>1. \A h \in Said' : h.at \in SayKinds
    BY DEF Said
  <2> QED BY <1>3, <1>7, <2>1 DEF Says
<1> QED BY <1>2, <1>4, <1>8
-----------------------------------------------------------------------------
(* What is known of compilers is kept where nothing is said of them.         *)
LEMMA SaysOf ==
  ASSUME NEW Old, NEW New, Says(Old, New)
  PROVE  \A s : /\ (\A f \in Old \cup New : ~(f.at = "launched" /\ f.s = s)) =>
                     (Launched(s)' <=> Launched(s))
                /\ (\A f \in New : ~(f.at = "tell" /\ f.s = s)) => (Telling(s)' => Telling(s))
BY DEF Says, Launched, Telling

LEMMA OwnKept ==
  ASSUME NEW Old, NEW New, Says(Old, New), NEW s \in Script, KnowsOwn(s),
         \A f \in Old \cup New : ~(f.at = "launched" /\ f.s = s),
         \A f \in Old : Finishes(f, s) => \E g \in New : Finishes(g, s),
         Compiling(s)' <=> Compiling(s), s \in pids'[s] <=> s \in pids[s],
         s \notin beingBuilt' => pids'[s] = {}
  PROVE  KnowsOwn(s)'
<1>1. Launched(s)' <=> Launched(s)
  BY SaysOf
<1>2. (\E f \in Said : Finishes(f, s)) => \E f \in Said' : Finishes(f, s)
  <2> SUFFICES ASSUME NEW f \in Said, Finishes(f, s) PROVE \E g \in Said' : Finishes(g, s)
    OBVIOUS
  <2>1. CASE f \in Said'
    BY <2>1
  <2>2. CASE f \in Old
    <3>1. PICK g \in New : Finishes(g, s)
      BY <2>2
    <3>2. g.at \in SayKinds
      BY <3>1 DEF Finishes, SayKinds
    <3> QED BY <3>1, <3>2 DEF Says
  <2> QED BY <2>1, <2>2 DEF Says
<1>3. (\E f \in Said : Finishes(f, s))' <=> \E f \in Said' : Finishes(f, s)
  BY DEF Finishes
<1> QED BY <1>1, <1>2, <1>3 DEF KnowsOwn

LEMMA DependsKept ==
  ASSUME NEW Old, NEW New, Says(Old, New), NEW r \in Script, NEW d \in Script, KnowsOf(r, d),
         \A f \in Old : FrameKnows(f, r, d) => \E g \in New : FrameKnows(g, r, d),
         Telling(d)' => Telling(d), d \in pids'[r] => d \in pids[r],
         d \in buildDeps[r] /\ d \in pids[r] => d \in buildDeps'[r],
         workId[d] = r /\ d \in pids[d] => workId'[d] = r /\ d \in pids'[d]
  PROVE  KnowsOf(r, d)'
<1>1. SUFFICES ASSUME d \in pids'[r], d # r PROVE d \in buildDeps'[r] /\ KnownAt(r, d)'
  BY DEF KnowsOf
<1>2. d \in buildDeps'[r] /\ KnownAt(r, d)
  BY <1>1 DEF KnowsOf
<1>3. CASE workId[d] = r /\ d \in pids[d] /\ ~Telling(d)
  BY <1>2, <1>3 DEF KnownAt
<1>4. CASE \E f \in Said : FrameKnows(f, r, d)
  <2>1. PICK f \in Said : FrameKnows(f, r, d)
    BY <1>4
  <2>2. \E g \in Said' : FrameKnows(g, r, d)
    <3>1. CASE f \in Said'
      BY <2>1, <3>1
    <3>2. CASE f \in Old
      <4>1. PICK g \in New : FrameKnows(g, r, d)
        BY <2>1, <3>2
      <4>2. g.at \in SayKinds
        BY <4>1 DEF FrameKnows, SayKinds
      <4> QED BY <4>1, <4>2 DEF Says
    <3> QED BY <3>1, <3>2 DEF Says
  <2>3. KnownAt(r, d)'
    BY <2>2 DEF KnownAt, FrameKnows
  <2> QED BY <1>2, <2>3
<1> QED BY <1>2, <1>3, <1>4 DEF KnownAt

(* A function that says nothing of a compiler.                               *)
Mute(f) == f.at \in {"check", "launch", "last"} \/ (f.at \in {"lock", "erase"} /\ f.pid = None)

Quiet(s) ==
  /\ Compiling(s)' <=> Compiling(s)
  /\ s \in beingBuilt => s \in beingBuilt' /\ workId'[s] = workId[s] /\ buildDeps'[s] = buildDeps[s]

LEMMA AllKnow ==
  ASSUME \A s \in Script : KnowsOwn(s)', \A r \in Script : \A d \in Script : KnowsOf(r, d)'
  PROVE  Compilers'
<1>1. (\A s \in Script : KnowsOwn(s) /\ \A d \in Script : KnowsOf(s, d))'
  OBVIOUS
<1> QED BY <1>1 DEF Compilers

LEMMA CompilersKept ==
  ASSUME BuildAssumption, Flags, Compilers,
         NEW Old, NEW New, Says(Old, New), \A f \in Old \cup New : Mute(f),
         pids' = pids, \A s \in Script : Quiet(s)
  PROVE  Compilers'
<1>1. ASSUME NEW s \in Script PROVE KnowsOwn(s)'
  <2>1. KnowsOwn(s) /\ Quiet(s) /\ s # None
    BY DEF Compilers, BuildAssumption, Requester
  <2>2. \A f \in Old \cup New : ~(f.at = "launched" /\ f.s = s)
    BY DEF Mute
  <2>3. \A f \in Old : Finishes(f, s) => \E g \in New : Finishes(g, s)
    BY <2>1 DEF Mute, Finishes
  <2>4. /\ Compiling(s)' <=> Compiling(s)
        /\ s \in pids'[s] <=> s \in pids[s]
        /\ s \notin beingBuilt' => pids'[s] = {}
    BY <2>1 DEF Quiet, KnowsOwn
  <2> QED BY <2>1, <2>2, <2>3, <2>4, OwnKept
<1>2. ASSUME NEW r \in Script, NEW d \in Script PROVE KnowsOf(r, d)'
  <2>1. KnowsOf(r, d) /\ KnowsOwn(r) /\ Quiet(r) /\ Quiet(d) /\ d # None /\ r # None
    BY DEF Compilers, BuildAssumption, Requester
  <2>2. \A f \in Old : FrameKnows(f, r, d) => \E g \in New : FrameKnows(g, r, d)
    BY <2>1 DEF Mute, FrameKnows
  <2>3. Telling(d)' => Telling(d)
    <3>1. \A f \in New : ~(f.at = "tell" /\ f.s = d)
      BY DEF Mute
    <3> QED BY <3>1, SaysOf
  <2>4. d \in buildDeps[r] /\ d \in pids[r] => d \in buildDeps'[r]
    BY <2>1 DEF KnowsOwn, Quiet
  <2>5. workId[d] = r /\ d \in pids[d] => workId'[d] = r /\ d \in pids'[d]
    BY <2>1 DEF Flags, Quiet
  <2>6. d \in pids'[r] => d \in pids[r]
    OBVIOUS
  <2> QED BY <2>1, <2>2, <2>3, <2>4, <2>5, <2>6, DependsKept
<1> QED BY <1>1, <1>2, AllKnow

LEMMA CompilersSame ==
  ASSUME BuildAssumption, Flags, Compilers, Said' = Said, pids' = pids, \A s \in Script : Quiet(s)
  PROVE  Compilers'
<1>1. Says({}, {})
  BY DEF Says
<1> QED BY <1>1, CompilersKept

LEMMA OneMore ==
  ASSUME BuildAssumption, Flags, Compilers, NEW k, Said' = Said \cup {k}, Mute(k),
         pids' = pids, \A s \in Script : Quiet(s)
  PROVE  Compilers'
<1>1. Says({}, {k})
  BY DEF Says
<1> QED BY <1>1, CompilersKept

(* The scripts that are being compiled.                                      *)
LEMMA CompilingSame ==
  ASSUME compilers' = compilers, calls' = calls
  PROVE  \A s : Compiling(s)' <=> Compiling(s)
BY DEF Compiling, Called
-----------------------------------------------------------------------------
(* The actions that begin, end or tell no compilation.                       *)
LEMMA LockBuildCompilers ==
  ASSUME BuildAssumption, InOrder, InHand, Compilers, NEW t \in Thread,
         LockBuild(t) \/ AddBuildPseudoInitiator(t)
  PROVE  Compilers'
<1>1. Said' = Said
  BY AskSays
<1>2. /\ pids' = pids /\ workId' = workId /\ beingBuilt' = beingBuilt /\ buildDeps' = buildDeps
      /\ compilers' = compilers /\ calls' = calls
  BY DEF LockBuild, AddBuildPseudoInitiator, progress, requests, flags
<1>3. \A s \in Script : Quiet(s)
  BY <1>2, CompilingSame DEF Quiet
<1> QED BY <1>1, <1>2, <1>3, CompilersSame DEF InHand

LEMMA TestUpToDateCompilers ==
  ASSUME BuildAssumption, InOrder, InHand, Compilers, NEW t \in Thread, TestUpToDate(t), ~spoilt'
  PROVE  Compilers'
<1>1. IF Top(t).s \in upToDate
      THEN \E k \in Frame : Completes(k, Top(t).s, TRUE, None) /\ Said' = Said \cup {k}
      ELSE Said' = Said
  BY TestUpToDateSays
<1>2. pids' = pids /\ buildDeps' = buildDeps /\ compilers' = compilers /\ calls' = calls
  BY DEF TestUpToDate, progress
<1>3. At(t, "test") /\ workId \in [Script -> Requester \cup {None}]
  BY DEF TestUpToDate, InOrder, Types, RequestsOK
<1>4. CASE Top(t).s \in upToDate
  <2>1. Top(t).s \notin beingBuilt
    BY <1>4, Zenon DEF TestUpToDate
  <2>2. SetIsBeingBuiltFor(Top(t).s, Top(t).for)
    BY <1>4 DEF TestUpToDate
  <2>3. \A s \in Script : s \in beingBuilt => s \in beingBuilt' /\ workId'[s] = workId[s]
    BY <1>3, <2>1, <2>2 DEF SetIsBeingBuiltFor
  <2>4. \A s \in Script : Quiet(s)
    BY <1>2, <2>3, CompilingSame DEF Quiet
  <2>5. PICK k : Completes(k, Top(t).s, TRUE, None) /\ Said' = Said \cup {k}
    BY <1>1, <1>4
  <2>6. Mute(k)
    BY <2>5 DEF Completes, Mute
  <2> QED BY <1>2, <2>4, <2>5, <2>6, OneMore DEF InHand
<1>5. CASE Top(t).s \notin upToDate
  <2>1. beingBuilt' = beingBuilt /\ workId' = workId
    BY <1>5 DEF TestUpToDate
  <2>2. \A s \in Script : Quiet(s)
    BY <1>2, <2>1, CompilingSame DEF Quiet
  <2> QED BY <1>1, <1>2, <1>5, <2>2, CompilersSame DEF InHand
<1> QED BY <1>4, <1>5

LEMMA StartBuildCompilers ==
  ASSUME BuildAssumption, InOrder, InHand, Compilers, NEW t \in Thread, StartBuild(t)
  PROVE  Compilers'
<1>1. IF Top(t).s \in Unresolvable
      THEN \E k \in Frame : Completes(k, Top(t).s, FALSE, None) /\ Said' = Said \cup {k}
      ELSE IF Uses[Top(t).s] = {}
      THEN \E k \in Frame : Compiles(k, "check", Top(t).s) /\ Said' = Said \cup {k}
      ELSE Said' = Said
  BY StartBuildSays
<1>2. /\ pids' = pids /\ compilers' = compilers /\ calls' = calls
      /\ Top(t).s \notin beingBuilt /\ SetIsBeingBuiltFor(Top(t).s, Top(t).for)
      /\ buildDeps' = [buildDeps EXCEPT ![Top(t).s] = Uses[Top(t).s]]
  BY DEF StartBuild
<1>3. workId \in [Script -> Requester \cup {None}] /\ buildDeps \in [Script -> SUBSET Script]
  BY DEF InOrder, Types, RequestsOK, ProgressOK
<1>4. \A s \in Script : s \in beingBuilt =>
         s \in beingBuilt' /\ workId'[s] = workId[s] /\ buildDeps'[s] = buildDeps[s]
  BY <1>2, <1>3 DEF SetIsBeingBuiltFor
<1>5. \A s \in Script : Quiet(s)
  BY <1>2, <1>4, CompilingSame DEF Quiet
<1>6. CASE Said' = Said
  BY <1>2, <1>5, <1>6, CompilersSame DEF InHand
<1>7. CASE \E k : (Completes(k, Top(t).s, FALSE, None) \/ Compiles(k, "check", Top(t).s))
                  /\ Said' = Said \cup {k}
  <2>1. PICK k : /\ Completes(k, Top(t).s, FALSE, None) \/ Compiles(k, "check", Top(t).s)
                 /\ Said' = Said \cup {k}
    BY <1>7
  <2>2. Mute(k)
    BY <2>1 DEF Completes, Compiles, Mute
  <2> QED BY <1>2, <1>5, <2>1, <2>2, OneMore DEF InHand
<1> QED BY <1>1, <1>6, <1>7

LEMMA MovesCompilers ==
  ASSUME BuildAssumption, InOrder, InHand, Compilers, NEW t \in Thread,
         BuildDependency(t) \/ LeaveBuild(t) \/ UnlockComp(t)
  PROVE  Compilers'
<1>1. Said' = Said
  BY BuildDependencySays, LeaveSays
<1>2. /\ pids' = pids /\ workId' = workId /\ beingBuilt' = beingBuilt /\ buildDeps' = buildDeps
      /\ compilers' = compilers /\ calls' = calls
  BY DEF BuildDependency, LeaveBuild, UnlockComp, progress, requests, flags
<1>3. \A s \in Script : Quiet(s)
  BY <1>2, CompilingSame DEF Quiet
<1> QED BY <1>1, <1>2, <1>3, CompilersSame DEF InHand

LEMMA WorkerCompilers ==
  ASSUME BuildAssumption, InOrder, InHand, Compilers, NEW w \in Worker, WorkStarts(w) \/ AskNext(w)
  PROVE  Compilers'
<1>1. Said' = Said
  BY WorkStartsSays, AskNextSays
<1>2. /\ pids' = pids /\ workId' = workId /\ beingBuilt' = beingBuilt /\ buildDeps' = buildDeps
      /\ compilers' = compilers /\ calls' = calls
  BY DEF WorkStarts, AskNext, progress, requests, flags
<1>3. \A s \in Script : Quiet(s)
  BY <1>2, CompilingSame DEF Quiet
<1> QED BY <1>1, <1>2, <1>3, CompilersSame DEF InHand

LEMMA StartWorkingCompilers ==
  ASSUME BuildAssumption, InHand, Compilers, StartWorking
  PROVE  Compilers'
<1>1. Said' = Said
  BY StartWorkingSays
<1>2. /\ pids' = pids /\ workId' = workId /\ beingBuilt' = beingBuilt /\ buildDeps' = buildDeps
      /\ compilers' = compilers /\ calls' = calls
  BY DEF StartWorking, progress, requests
<1>3. \A s \in Script : Quiet(s)
  BY <1>2, CompilingSame DEF Quiet
<1> QED BY <1>1, <1>2, <1>3, CompilersSame DEF InHand

LEMMA CheckByteCodeCompilers ==
  ASSUME BuildAssumption, InOrder, InHand, Compilers, NEW t \in Thread, CheckByteCode(t)
  PROVE  Compilers'
<1>1. Top(t).at = "check"
  BY CheckByteCodeSays
<1>2. PICK k : /\ Completes(k, Top(t).s, TRUE, None) \/ Compiles(k, "launch", Top(t).s)
               /\ Says({Top(t)}, {k})
  BY CheckByteCodeSays
<1>3. \A f \in {Top(t)} \cup {k} : Mute(f)
  BY <1>1, <1>2 DEF Completes, Compiles, Mute
<1>4. /\ pids' = pids /\ workId' = workId /\ beingBuilt' = beingBuilt /\ buildDeps' = buildDeps
      /\ compilers' = compilers /\ calls' = calls
  BY DEF CheckByteCode, progress, requests, flags
<1>5. \A s \in Script : Quiet(s)
  BY <1>4, CompilingSame DEF Quiet
<1> QED BY <1>2, <1>3, <1>4, <1>5, CompilersKept DEF InHand

LEMMA LaunchFailsCompilers ==
  ASSUME BuildAssumption, InOrder, InHand, Compilers, NEW t \in Thread, LaunchFails(t)
  PROVE  Compilers'
<1>1. Top(t).at = "launch"
  BY LaunchFailsSays
<1>2. PICK k : Completes(k, Top(t).s, FALSE, None) /\ Says({Top(t)}, {k})
  BY LaunchFailsSays
<1>3. \A f \in {Top(t)} \cup {k} : Mute(f)
  BY <1>1, <1>2 DEF Completes, Mute
<1>4. /\ pids' = pids /\ workId' = workId /\ beingBuilt' = beingBuilt /\ buildDeps' = buildDeps
      /\ compilers' = compilers /\ calls' = calls
  BY DEF LaunchFails, progress, requests, flags
<1>5. \A s \in Script : Quiet(s)
  BY <1>4, CompilingSame DEF Quiet
<1> QED BY <1>2, <1>3, <1>4, <1>5, CompilersKept DEF InHand

(* A call that is posted or made, but of no compiler.                        *)
LEMMA CompilingKept ==
  ASSUME compilers' = compilers, NEW c, Called' \subseteq Called \cup {c}, Called \subseteq Called' \cup {c},
         NEW s, c # CompileFinished(s)
  PROVE  Compiling(s)' <=> Compiling(s)
BY DEF Compiling

LEMMA LastDependencyCompilers ==
  ASSUME BuildAssumption, InOrder, InHand, Compilers, NEW t \in Thread, LastDependency(t)
  PROVE  Compilers'
<1>1. Top(t).at = "last"
  BY LastDependencySays
<1>2. /\ pids' = pids /\ workId' = workId /\ beingBuilt' = beingBuilt /\ buildDeps' = buildDeps
      /\ compilers' = compilers
  BY DEF LastDependency, progress, requests, flags
<1>3. PICK c : c = BuildSelfThread(Top(t).s)
  OBVIOUS
<1>4. Called' \subseteq Called \cup {c} /\ Called \subseteq Called' \cup {c}
  <2>1. calls' = calls \/ calls' = Append(calls, c)
    BY <1>3 DEF LastDependency, Post
  <2>2. CASE calls' = calls
    BY <2>2 DEF Called
  <2>3. CASE calls' = Append(calls, c)
    <3>1. calls \in Seq(DelayedCall) /\ At(t, "last") /\ Types
      BY DEF InOrder, Types, CallsOK, LastDependency
    <3>2. PICK S : S = DelayedCall \cup {c}
      OBVIOUS
    <3>3. calls \in Seq(S) /\ c \in S
      BY <3>1, <3>2
    <3>4. Elems(Append(calls, c)) = Elems(calls) \cup {c}
      BY ONLY <3>3, ElemsAppend
    <3> QED BY <2>3, <3>4 DEF Called
  <2> QED BY <2>1, <2>2, <2>3
<1>5. \A s \in Script : Quiet(s)
  <2> TAKE s \in Script
  <2>1. c # CompileFinished(s)
    BY <1>3, CallKinds
  <2> QED BY <1>2, <1>4, <2>1, CompilingKept DEF Quiet
<1>6. CASE Says({Top(t)}, {})
  <2>1. \A f \in {Top(t)} \cup {} : Mute(f)
    BY <1>1 DEF Mute
  <2> QED BY <1>2, <1>5, <1>6, <2>1, CompilersKept DEF InHand
<1>7. CASE \E k \in Frame : Completes(k, Top(t).s, FALSE, None) /\ Says({Top(t)}, {k})
  <2>1. PICK k : Completes(k, Top(t).s, FALSE, None) /\ Says({Top(t)}, {k})
    BY <1>7
  <2>2. \A f \in {Top(t)} \cup {k} : Mute(f)
    BY <1>1, <2>1 DEF Completes, Mute
  <2> QED BY <1>2, <1>5, <2>1, <2>2, CompilersKept DEF InHand
<1> QED BY <1>6, <1>7, LastDependencySays

LEMMA CallGone ==
  ASSUME Types, NEW c, Calling(c)
  PROVE  Called' \subseteq Called \cup {c} /\ Called \subseteq Called' \cup {c}
<1>1. calls \in Seq(DelayedCall) /\ calls # <<>> /\ Head(calls) = c /\ calls' = Tail(calls)
  BY DEF Types, CallsOK, Calling
<1>2. Elems(calls) = {c} \cup Elems(Tail(calls))
  BY <1>1, ElemsIn
<1> QED BY <1>1, <1>2 DEF Called

LEMMA StartBuildSelfThreadCompilers ==
  ASSUME BuildAssumption, InOrder, InHand, Compilers, NEW x \in Script, NEW p \in Pool,
         StartBuildSelfThread(x, p)
  PROVE  Compilers'
<1>1. PICK k : Compiles(k, "check", x) /\ Says({}, {k})
  BY StartBuildSelfThreadSays
<1>2. /\ pids' = pids /\ workId' = workId /\ beingBuilt' = beingBuilt /\ buildDeps' = buildDeps
      /\ compilers' = compilers /\ Types
  BY DEF StartBuildSelfThread, progress, requests, flags, InOrder
<1>3. PICK c : c = BuildSelfThread(x)
  OBVIOUS
<1>4. Called' \subseteq Called \cup {c} /\ Called \subseteq Called' \cup {c}
  BY <1>2, <1>3, CallGone DEF StartBuildSelfThread
<1>5. \A s \in Script : Quiet(s)
  <2> TAKE s \in Script
  <2>1. c # CompileFinished(s)
    BY <1>3, CallKinds
  <2> QED BY <1>2, <1>4, <2>1, CompilingKept DEF Quiet
<1>6. \A f \in {} \cup {k} : Mute(f)
  BY <1>1 DEF Compiles, Mute
<1> QED BY <1>1, <1>2, <1>5, <1>6, CompilersKept DEF InHand

LEMMA OnWorkCompletedCompilers ==
  ASSUME BuildAssumption, InOrder, InHand, Compilers, OnWorkCompleted
  PROVE  Compilers'
<1>1. /\ pids' = pids /\ workId' = workId /\ beingBuilt' = beingBuilt /\ buildDeps' = buildDeps
      /\ compilers' = compilers /\ stack' = stack /\ Types
  BY DEF OnWorkCompleted, progress, requests, InOrder
<1>2. PICK c : c = WorkCompleted
  OBVIOUS
<1>3. Called' \subseteq Called \cup {c} /\ Called \subseteq Called' \cup {c}
  BY <1>1, <1>2, CallGone DEF OnWorkCompleted
<1>4. \A s \in Script : Quiet(s)
  <2> TAKE s \in Script
  <2>1. c # CompileFinished(s)
    BY <1>2, CallKinds
  <2> QED BY <1>1, <1>3, <2>1, CompilingKept DEF Quiet
<1> QED BY <1>1, <1>4, SaidSame, CompilersSame DEF InHand

LEMMA OnResourceWorkCompletedCompilers ==
  ASSUME BuildAssumption, InOrder, InHand, Compilers, NEW x \in Script, NEW w \in Worker,
         OnResourceWorkCompleted(x, w)
  PROVE  Compilers'
<1>1. /\ pids' = pids /\ workId' = workId /\ beingBuilt' = beingBuilt /\ buildDeps' = buildDeps
      /\ compilers' = compilers /\ stack' = stack /\ Types /\ CalledOnce
  BY DEF OnResourceWorkCompleted, progress, requests, flags, InOrder, InHand, GoingOn
<1>2. PICK c, over : /\ c = ResourceWorkCompleted(x, w)
                     /\ over = (busy /\ working[w] = {x} /\ \A v \in Worker \ {w} : ~Waits(v))
  OBVIOUS
<1>3. /\ calls # <<>> /\ Head(calls) = c
      /\ calls' = Tail(calls) \o (IF over THEN <<WorkCompleted>> ELSE <<>>)
  BY <1>2 DEF OnResourceWorkCompleted
<1>4. c # WorkCompleted
  BY <1>2, CallKinds
<1>5. /\ CalledOnce'
      /\ Called' \subseteq (Called \ {c}) \cup {WorkCompleted} /\ Called \ {c} \subseteq Called'
  BY ONLY <1>1, <1>3, <1>4, CallsAfter
<1>6. \A s \in Script : Quiet(s)
  <2> TAKE s \in Script
  <2>1. CompileFinished(s) # c /\ CompileFinished(s) # WorkCompleted
    BY <1>2, CallKinds
  <2>2. CompileFinished(s) \in Called' <=> CompileFinished(s) \in Called
    BY <1>5, <2>1
  <2> QED BY <1>1, <2>2 DEF Quiet, Compiling
<1> QED BY <1>1, <1>6, SaidSame, CompilersSame DEF InHand

(* The compiler ends and its notice is posted: it goes on.                   *)
LEMMA CompilerEndsCompilers ==
  ASSUME BuildAssumption, InOrder, InHand, Compilers, NEW x \in Script, CompilerEnds(x)
  PROVE  Compilers'
<1>1. /\ pids' = pids /\ workId' = workId /\ beingBuilt' = beingBuilt /\ buildDeps' = buildDeps
      /\ compilers' = compilers \ {x} /\ x \in compilers /\ stack' = stack
  BY DEF CompilerEnds, progress, requests, flags
<1>2. PICK c : c = CompileFinished(x)
  OBVIOUS
<1>3. Called' = Called \cup {c}
  <2>1. calls' = Append(calls, c) /\ calls \in Seq(DelayedCall)
    BY <1>2 DEF CompilerEnds, Post, InOrder, Types, CallsOK
  <2>2. PICK S : S = DelayedCall \cup {c}
    OBVIOUS
  <2>3. calls \in Seq(S) /\ c \in S
    BY <2>1, <2>2
  <2>4. Elems(Append(calls, c)) = Elems(calls) \cup {c}
    BY ONLY <2>3, ElemsAppend
  <2> QED BY <2>1, <2>4 DEF Called
<1>4. \A s \in Script : Quiet(s)
  <2> TAKE s \in Script
  <2>1. CASE s = x
    BY <1>1, <1>2, <1>3, <2>1 DEF Quiet, Compiling
  <2>2. CASE s # x
    <3>1. CompileFinished(s) # c
      BY <1>2, <2>2, CallKinds
    <3> QED BY <1>1, <1>3, <2>2, <3>1 DEF Quiet, Compiling
  <2> QED BY <2>1, <2>2
<1> QED BY <1>1, <1>4, SaidSame, CompilersSame DEF InHand
-----------------------------------------------------------------------------
(* A compilation begins: its process runs before anybody knows of it.        *)
LEMMA LaunchCompilerCompilers ==
  ASSUME BuildAssumption, InOrder, InHand, Compilers, NEW t \in Thread, LaunchCompiler(t)
  PROVE  Compilers'
<1>1. PICK f, x : f = Top(t) /\ x = f.s
  OBVIOUS
<1>2. f \in Said /\ f.at = "launch" /\ x \in Script /\ workId[x] # None
  BY <1>1, LaunchCompilerSays
<1>3. PICK k : Compiles(k, "launched", x) /\ Says({f}, {k})
  BY <1>1, LaunchCompilerSays
<1>4. /\ compilers' = compilers \cup {x} /\ calls' = calls /\ pids' = pids /\ beingBuilt' = beingBuilt
      /\ buildDeps' = buildDeps /\ workId' = workId
  BY <1>1, <1>2 DEF LaunchCompiler, flags, progress, requests
<1>5. k.at = "launched" /\ k.s = x /\ k \in Said'
  BY <1>3 DEF Compiles, Says, SayKinds
<1>6. ASSUME NEW s \in Script PROVE KnowsOwn(s)'
  <2>0. KnowsOwn(s)
    BY DEF Compilers
  <2>1. CASE s = x
    <3>1. x \in beingBuilt'
      BY <1>1, <1>2, <1>4, OneSays
    <3>2. Compiling(x)' /\ Launched(x)'
      BY <1>4, <1>5 DEF Compiling, Launched
    <3> QED BY <2>1, <3>1, <3>2 DEF KnowsOwn
  <2>2. CASE s # x
    <3>1. \A g \in {f} \cup {k} : ~(g.at = "launched" /\ g.s = s)
      BY <1>2, <1>5, <2>2
    <3>2. \A g \in {f} : Finishes(g, s) => \E h \in {k} : Finishes(h, s)
      BY <1>2 DEF Finishes
    <3>3. /\ Compiling(s)' <=> Compiling(s)
          /\ s \in pids'[s] <=> s \in pids[s]
          /\ s \notin beingBuilt' => pids'[s] = {}
      BY <1>4, <2>0, <2>2 DEF Compiling, Called, KnowsOwn
    <3> QED BY <1>3, <2>0, <3>1, <3>2, <3>3, OwnKept
  <2> QED BY <2>1, <2>2
<1>7. ASSUME NEW r \in Script, NEW d \in Script PROVE KnowsOf(r, d)'
  <2>1. KnowsOf(r, d)
    BY DEF Compilers
  <2>2. \A g \in {f} : FrameKnows(g, r, d) => \E h \in {k} : FrameKnows(h, r, d)
    BY <1>2 DEF FrameKnows
  <2>3. Telling(d)' => Telling(d)
    <3>1. \A g \in {k} : ~(g.at = "tell" /\ g.s = d)
      BY <1>5
    <3> QED BY <1>3, <3>1, SaysOf
  <2>4. /\ d \in pids'[r] => d \in pids[r]
        /\ d \in buildDeps[r] /\ d \in pids[r] => d \in buildDeps'[r]
        /\ workId[d] = r /\ d \in pids[d] => workId'[d] = r /\ d \in pids'[d]
    BY <1>4
  <2> QED BY <1>3, <2>1, <2>2, <2>3, <2>4, DependsKept
<1> QED BY <1>6, <1>7, AllKnow

(* The process id is stored, for the script and for the one that waits.      *)
LEMMA SetCompilerPidCompilers ==
  ASSUME BuildAssumption, InOrder, InHand, Compilers, NEW t \in Thread, SetCompilerPid(t)
  PROVE  Compilers'
<1>1. PICK f, x, i : f = Top(t) /\ x = f.s /\ i = initiator[x]
  OBVIOUS
<1>2. f \in Said /\ f.at = "launched" /\ x \in Script /\ Says({f}, {})
  BY <1>1, SetCompilerPidSays
<1>3. /\ compilers' = compilers /\ calls' = calls /\ beingBuilt' = beingBuilt
      /\ buildDeps' = buildDeps /\ workId' = workId
      /\ pids' = [y \in Script |-> IF y \in {x, i} THEN pids[y] \cup {x} ELSE pids[y]]
  BY <1>1 DEF SetCompilerPid, flags, requests
<1>4. Compiling(x) /\ Compiling(x)'
  <2>1. Launched(x)
    BY <1>1, <1>2 DEF Launched
  <2>2. Compiling(x)
    BY <1>2, <2>1 DEF Compilers, KnowsOwn
  <2> QED BY <1>3, <2>2, CompilingSame
<1>5. x \in beingBuilt
  BY <1>2, <1>4, CompilingGoesOn
<1>6. ~Telling(x)
  <2> SUFFICES ASSUME NEW g \in Said, g.at = "tell", g.s = x PROVE FALSE
    BY DEF Telling
  <2>1. ~Compiling(g.s)
    BY OneSays
  <2> QED BY <1>4, <2>1
<1>7. i # None => /\ i \in Script /\ workId[x] = i /\ i \in beingBuilt /\ x \in buildDeps[i] /\ i # x
  <2> SUFFICES ASSUME i # None
               PROVE  i \in Script /\ workId[x] = i /\ i \in beingBuilt /\ x \in buildDeps[i] /\ i # x
    OBVIOUS
  <2>1. workId[x] = i /\ i \in Script
    BY <1>1, <1>2, <1>5 DEF InHand, Flags
  <2>2. ~Doing("tell", x)
    BY <1>6 DEF Telling, Doing, Here, Said, SayKinds
  <2>3. HasClaim("noted", x, i)
    BY <2>1, <2>2 DEF HasClaim, Notes
  <2>4. Expects(i, x)
    BY <1>2, <2>1, <2>3 DEF InHand, Claimed, ClaimsExpected, ClaimKinds, Requester
  <2>5. i \in beingBuilt /\ x \in buildDeps[i]
    BY <2>1, <2>4 DEF Expects
  <2>6. i # x
    BY <1>2, <1>4, <2>5, CompilingGoesOn
  <2> QED BY <2>1, <2>5, <2>6
<1>8. ASSUME NEW s \in Script PROVE KnowsOwn(s)'
  <2>0. KnowsOwn(s)
    BY DEF Compilers
  <2>1. CASE s = x
    <3>1. x \in beingBuilt' /\ x \in pids'[x]
      BY <1>2, <1>3, <1>5
    <3> QED BY <1>4, <2>1, <3>1 DEF KnowsOwn
  <2>2. CASE s # x
    <3>1. \A g \in {f} \cup {} : ~(g.at = "launched" /\ g.s = s)
      BY <1>1, <2>2
    <3>2. \A g \in {f} : Finishes(g, s) => \E h \in {} : Finishes(h, s)
      BY <1>2 DEF Finishes
    <3>3. /\ Compiling(s)' <=> Compiling(s)
          /\ s \in pids'[s] <=> s \in pids[s]
      BY <1>3, <2>2, CompilingSame
    <3>4. s \notin beingBuilt' => pids'[s] = {}
      <4>1. s = i => s \in beingBuilt
        BY <1>7 DEF BuildAssumption, Requester
      <4> QED BY <1>3, <2>0, <2>2, <4>1 DEF KnowsOwn
    <3> QED BY <1>2, <2>0, <3>1, <3>2, <3>3, <3>4, OwnKept
  <2> QED BY <2>1, <2>2
<1>9. ASSUME NEW r \in Script, NEW d \in Script PROVE KnowsOf(r, d)'
  <2>1. KnowsOf(r, d)
    BY DEF Compilers
  <2>2. Telling(d)' => Telling(d)
    <3>1. \A g \in {} : ~(g.at = "tell" /\ g.s = d)
      OBVIOUS
    <3> QED BY <1>2, <3>1, SaysOf
  <2>3. CASE d = x /\ r = i
    <3>1. i \in Script /\ workId[x] = i /\ i \in beingBuilt /\ x \in buildDeps[i] /\ i # x
      BY <1>7, <2>3 DEF BuildAssumption, Requester
    <3>2. workId'[x] = i /\ x \in pids'[x] /\ ~Telling(x)' /\ x \in buildDeps'[i]
      BY <1>2, <1>3, <1>6, <2>2, <2>3, <3>1
    <3> QED BY <2>3, <3>2 DEF KnowsOf, KnownAt
  <2>4. CASE d = r
    BY <2>4 DEF KnowsOf
  <2>5. CASE d # r /\ ~(d = x /\ r = i)
    <3>1. \A g \in {f} : FrameKnows(g, r, d) => \E h \in {} : FrameKnows(h, r, d)
      BY <1>2 DEF FrameKnows
    <3>2. /\ d \in pids'[r] => d \in pids[r]
          /\ d \in buildDeps[r] /\ d \in pids[r] => d \in buildDeps'[r]
          /\ workId[d] = r /\ d \in pids[d] => workId'[d] = r /\ d \in pids'[d]
      BY <1>3, <2>5
    <3> QED BY <1>2, <2>1, <2>2, <3>1, <3>2, DependsKept
  <2> QED BY <2>3, <2>4, <2>5
<1> QED BY <1>8, <1>9, AllKnow

(* The compiler has ended: its script, which has stored its process id by    *)
(* now, is to be completed.                                                  *)
LEMMA OnCompileFinishedCompilers ==
  ASSUME BuildAssumption, InOrder, InHand, Compilers, NEW x \in Script, OnCompileFinished(x)
  PROVE  Compilers'
<1>1. Calling(CompileFinished(x)) /\ compMutex[x] = None
  BY OnCompileFinishedSays
<1>2. PICK k : Completes(k, x, x \in byteCode, x) /\ Says({}, {k})
  BY OnCompileFinishedSays
<1>3. /\ compilers' = compilers /\ pids' = pids /\ beingBuilt' = beingBuilt
      /\ buildDeps' = buildDeps /\ workId' = workId
  BY DEF OnCompileFinished, flags, progress, requests
<1>4. PICK c : c = CompileFinished(x)
  OBVIOUS
<1>5. Called' \subseteq Called \cup {c} /\ Called \subseteq Called' \cup {c} /\ c \in Called
  <2>1. Types /\ Calling(c) /\ CalledOnce
    BY <1>1, <1>4 DEF InOrder, InHand, GoingOn
  <2>2. c # WorkCompleted
    BY <1>4, CallKinds
  <2>3. c \in Called
    BY <2>1, <2>2, CallMade
  <2> QED BY <2>1, <2>3, CallGone
<1>6. Compiling(x) /\ ~Launched(x) /\ x \in beingBuilt
  <2>1. Compiling(x)
    BY <1>4, <1>5 DEF Compiling
  <2>2. ~Launched(x)
    <3> SUFFICES ASSUME NEW g \in Said, g.at = "launched", g.s = x PROVE FALSE
      BY DEF Launched
    <3>1. PICK u \in Thread : Fits(g, u)
      BY SaidFrame
    <3>2. compMutex[x] = u
      BY <3>1 DEF Fits
    <3> QED BY <1>1, <3>2 DEF BuildAssumption
  <2> QED BY <2>1, <2>2, CompilingGoesOn
<1>7. k.at = "lock" /\ k.s = x /\ k.pid = x /\ k \in Said'
  BY <1>2 DEF Completes, Says, SayKinds
<1>8. ASSUME NEW s \in Script PROVE KnowsOwn(s)'
  <2>0. KnowsOwn(s)
    BY DEF Compilers
  <2>1. CASE s = x
    <3>1. x \in beingBuilt' /\ x \in pids'[x]
      BY <1>3, <1>6, <2>0, <2>1 DEF KnowsOwn
    <3>2. Finishes(k, x) /\ k \in Said'
      BY <1>7 DEF Finishes
    <3>3. ~Launched(x)'
      <4>1. \A g \in {} \cup {k} : ~(g.at = "launched" /\ g.s = x)
        BY <1>7
      <4> QED BY <1>2, <1>6, <4>1, SaysOf
    <3>4. (\E f \in Said : Finishes(f, s))'
      BY <2>1, <3>2 DEF Finishes
    <3> QED BY <2>1, <3>1, <3>3, <3>4 DEF KnowsOwn
  <2>2. CASE s # x
    <3>1. \A g \in {} \cup {k} : ~(g.at = "launched" /\ g.s = s)
      BY <1>7
    <3>2. \A g \in {} : Finishes(g, s) => \E h \in {k} : Finishes(h, s)
      OBVIOUS
    <3>3. c # CompileFinished(s)
      BY <1>4, <2>2, CallKinds
    <3>4. Compiling(s)' <=> Compiling(s)
      BY <1>3, <1>5, <3>3, CompilingKept
    <3>5. /\ s \in pids'[s] <=> s \in pids[s]
          /\ s \notin beingBuilt' => pids'[s] = {}
      BY <1>3, <2>0 DEF KnowsOwn
    <3> QED BY <1>2, <2>0, <3>1, <3>2, <3>4, <3>5, OwnKept
  <2> QED BY <2>1, <2>2
<1>9. ASSUME NEW r \in Script, NEW d \in Script PROVE KnowsOf(r, d)'
  <2>1. KnowsOf(r, d)
    BY DEF Compilers
  <2>2. Telling(d)' => Telling(d)
    <3>1. \A g \in {k} : ~(g.at = "tell" /\ g.s = d)
      BY <1>7
    <3> QED BY <1>2, <3>1, SaysOf
  <2>3. \A g \in {} : FrameKnows(g, r, d) => \E h \in {k} : FrameKnows(h, r, d)
    OBVIOUS
  <2>4. /\ d \in pids'[r] => d \in pids[r]
        /\ d \in buildDeps[r] /\ d \in pids[r] => d \in buildDeps'[r]
        /\ workId[d] = r /\ d \in pids[d] => workId'[d] = r /\ d \in pids'[d]
    BY <1>3
  <2> QED BY <1>2, <2>1, <2>2, <2>3, <2>4, DependsKept
<1> QED BY <1>8, <1>9, AllKnow

(* What is posted for the project that asked is no notice of a compiler.     *)
LEMMA ToldCalled ==
  ASSUME Types, NEW s \in Script, NEW q, PostAll(Told(s, q))
  PROVE  Called' = IF q \in Worker THEN Called \cup {ResourceWorkCompleted(s, q)} ELSE Called
<1>1. CASE q \in Worker
  <2>1. PICK c, S : c = ResourceWorkCompleted(s, q) /\ S = DelayedCall \cup {c}
    OBVIOUS
  <2>2. calls' = calls \o <<c>> /\ calls \in Seq(DelayedCall)
    BY <1>1, <2>1 DEF PostAll, Told, Types, CallsOK
  <2>3. calls \in Seq(S) /\ <<c>> \in Seq(S)
    BY <2>1, <2>2
  <2>4. Elems(calls \o <<c>>) = Elems(calls) \cup Elems(<<c>>)
    BY ONLY <2>3, ElemsConcat
  <2> QED BY <1>1, <2>1, <2>2, <2>4, ElemsOne DEF Called
<1>2. CASE q \notin Worker
  <2>1. calls' = calls \o <<>> /\ calls \in Seq(DelayedCall)
    BY <1>2 DEF PostAll, Told, Types, CallsOK
  <2>2. calls' = calls
    BY <2>1
  <2> QED BY <1>2, <2>2 DEF Called
<1> QED BY <1>1, <1>2

LEMMA ToldCompiling ==
  ASSUME Types, NEW s \in Script, NEW q, PostAll(Told(s, q)), compilers' = compilers
  PROVE  \A x : Compiling(x)' <=> Compiling(x)
<1>1. Called' = IF q \in Worker THEN Called \cup {ResourceWorkCompleted(s, q)} ELSE Called
  BY ToldCalled
<1>2. \A x : ResourceWorkCompleted(s, q) # CompileFinished(x)
  BY CallKinds
<1> QED BY <1>1, <1>2 DEF Compiling

(* Its requester is to be told of the compiler it knows of, if any.          *)
LEMMA LockDoneCompilers ==
  ASSUME BuildAssumption, InOrder, InHand, Compilers, NEW t \in Thread, LockDone(t)
  PROVE  Compilers'
<1>1. PICK f, x, L : f = Top(t) /\ x = f.s /\ L = TellList(x, f.pid)
  OBVIOUS
<1>2. f \in Said /\ f.at = "lock" /\ x \in Script /\ f.pid \in {None, x}
  BY <1>1, LockDoneSays
<1>3. PICK k : Tells(k, f, L) /\ Says({f}, {k})
  BY <1>1, LockDoneSays
<1>4. /\ compilers' = compilers /\ pids' = pids /\ beingBuilt' = beingBuilt
      /\ buildDeps' = buildDeps /\ workId' = workId /\ PostAll(Told(x, workId[x])) /\ Types
  BY <1>1 DEF LockDone, flags, progress, requests, InOrder
<1>5. \A s : Compiling(s)' <=> Compiling(s)
  BY <1>2, <1>4, ToldCompiling
<1>6. k.at = "tell" /\ k.s = x /\ k.pid = f.pid /\ k.tell = L
  BY <1>1, <1>3 DEF Tells
<1>7. /\ x \in beingBuilt /\ ~Compiling(x)
      /\ \A g \in Said : g.at \in {"lock", "tell"} /\ g.s = x => g = f
  BY <1>1, <1>2, OneSays
<1>8. ASSUME NEW s \in Script PROVE KnowsOwn(s)'
  <2>0. KnowsOwn(s)
    BY DEF Compilers
  <2>1. \A g \in {f} \cup {k} : ~(g.at = "launched" /\ g.s = s)
    BY <1>2, <1>6
  <2>2. \A g \in {f} : Finishes(g, s) => \E h \in {k} : Finishes(h, s)
    BY <1>1, <1>6 DEF Finishes
  <2>3. /\ Compiling(s)' <=> Compiling(s)
        /\ s \in pids'[s] <=> s \in pids[s]
        /\ s \notin beingBuilt' => pids'[s] = {}
    BY <1>4, <1>5, <2>0 DEF KnowsOwn
  <2> QED BY <1>3, <2>0, <2>1, <2>2, <2>3, OwnKept
<1>9. ASSUME NEW r \in Script, NEW d \in Script PROVE KnowsOf(r, d)'
  <2>0. KnowsOf(r, d)
    BY DEF Compilers
  <2>1. \A g \in {f} : FrameKnows(g, r, d) => \E h \in {k} : FrameKnows(h, r, d)
    BY <1>2 DEF FrameKnows
  <2>2. /\ d \in pids'[r] => d \in pids[r]
        /\ d \in buildDeps[r] /\ d \in pids[r] => d \in buildDeps'[r]
        /\ workId[d] = r /\ d \in pids[d] => workId'[d] = r /\ d \in pids'[d]
    BY <1>4
  <2>3. CASE d # x
    <3>1. Telling(d)' => Telling(d)
      <4>1. \A g \in {k} : ~(g.at = "tell" /\ g.s = d)
        BY <1>6, <2>3
      <4> QED BY <1>3, <4>1, SaysOf
    <3> QED BY <1>3, <2>0, <2>1, <2>2, <3>1, DependsKept
  <2>4. CASE d = x
    <3>1. SUFFICES ASSUME x \in pids[r], x # r PROVE x \in buildDeps[r] /\ KnownAt(r, x)'
      BY <1>4, <2>4 DEF KnowsOf
    <3>2. x \in buildDeps[r] /\ KnownAt(r, x)
      BY <2>0, <2>4, <3>1 DEF KnowsOf
    <3>3. CASE workId[x] = r /\ x \in pids[x]
      <4>1. PICK g \in Said : Finishes(g, x)
        BY <1>2, <1>7, <3>3 DEF Compilers, KnowsOwn
      <4>2. f.pid = x
        BY <1>7, <4>1 DEF Finishes
      <4>3. initiator[x] = r /\ initiator[x] # None
        BY <1>2, <1>7, <3>3 DEF InHand, Flags, BuildAssumption, Requester
      <4>4. PICK ps, pid : ps = pseudoInitiators[x] /\ pid = f.pid
        OBVIOUS
      <4>5. pid \in Script \cup {None} /\ L = TellList(x, pid)
        BY <1>1, <1>2, <4>4
      <4>6. 1 \in DOMAIN L /\ L[1] = <<initiator[x], pid>>
        BY <1>2, <1>4, <4>3, <4>4, <4>5, TellListAt
      <4>7. <<r, x>> \in Elems(k.tell)
        BY <1>6, <4>2, <4>3, <4>4, <4>6 DEF Elems
      <4>8. FrameKnows(k, r, x) /\ k \in Said'
        BY <1>3, <1>6, <4>7 DEF FrameKnows, Says, SayKinds
      <4>9. KnownAt(r, x)'
        BY <4>8 DEF KnownAt, FrameKnows
      <4> QED BY <3>2, <4>9
    <3>4. CASE \E g \in Said : FrameKnows(g, r, x)
      <4>1. PICK g \in Said : FrameKnows(g, r, x)
        BY <3>4
      <4>2. g \in Said'
        BY <1>2, <1>3, <4>1 DEF FrameKnows, Says
      <4>3. KnownAt(r, x)'
        BY <4>1, <4>2 DEF KnownAt, FrameKnows
      <4> QED BY <3>2, <4>3
    <3> QED BY <3>2, <3>3, <3>4 DEF KnownAt
  <2> QED BY <2>3, <2>4
<1> QED BY <1>8, <1>9, AllKnow

LEMMA ElemsHead ==
  ASSUME NEW S, NEW L \in Seq(S), L # <<>>
  PROVE  Elems(L) = {Head(L)} \cup Elems(Tail(L))
BY ElemsIn

(* It is told, by a function of its own.                                     *)
LEMMA TellRequesterCompilers ==
  ASSUME BuildAssumption, InOrder, InHand, Compilers, NEW t \in Thread, TellRequester(t)
  PROVE  Compilers'
<1>1. PICK f, x, L, r, pid :
        f = Top(t) /\ x = f.s /\ L = f.tell /\ r = Head(f.tell)[1] /\ pid = Head(f.tell)[2]
  OBVIOUS
<1>2. /\ f \in Said /\ f.at = "tell" /\ x \in Script /\ L # <<>>
      /\ L \in Seq(Requester \X (Script \cup {None}))
  BY <1>1, TellRequesterSays
<1>3. PICK g : /\ Tells(g, f, Tail(L))
               /\ IF r \in beingBuilt
                  THEN \E k \in Frame : Takes(k, r, f, pid) /\ Says({f}, {k, g})
                  ELSE Says({f}, {g})
  BY <1>1, TellRequesterSays
<1>4. PICK New : /\ Says({f}, New) /\ g \in New
                 /\ \A h \in New : h = g \/ Takes(h, r, f, pid)
                 /\ r \in beingBuilt => \E h \in New : Takes(h, r, f, pid)
  <2>1. CASE r \in beingBuilt
    <3>1. PICK k \in Frame : Takes(k, r, f, pid) /\ Says({f}, {k, g})
      BY <1>3, <2>1
    <3> QED BY <3>1
  <2>2. CASE r \notin beingBuilt
    <3>1. Says({f}, {g})
      BY <1>3, <2>2
    <3> QED BY <2>2, <3>1
  <2> QED BY <2>1, <2>2
<1>5. /\ compilers' = compilers /\ pids' = pids /\ beingBuilt' = beingBuilt
      /\ buildDeps' = buildDeps /\ workId' = workId /\ PostAll(Told(x, r)) /\ Types
  BY <1>1 DEF TellRequester, flags, progress, requests, InOrder
<1>6. \A s : Compiling(s)' <=> Compiling(s)
  BY <1>2, <1>5, ToldCompiling
<1>7. g.at = "tell" /\ g.s = x /\ g.pid = f.pid /\ g.tell = Tail(L)
  BY <1>1, <1>3 DEF Tells
<1>8. \A h \in New : h.at # "launched"
  BY <1>4, <1>7 DEF Takes
<1>9. ASSUME NEW s \in Script PROVE KnowsOwn(s)'
  <2>0. KnowsOwn(s)
    BY DEF Compilers
  <2>1. \A h \in {f} \cup New : ~(h.at = "launched" /\ h.s = s)
    BY <1>2, <1>8
  <2>2. \A h \in {f} : Finishes(h, s) => \E e \in New : Finishes(e, s)
    BY <1>1, <1>4, <1>7 DEF Finishes
  <2>3. /\ Compiling(s)' <=> Compiling(s)
        /\ s \in pids'[s] <=> s \in pids[s]
        /\ s \notin beingBuilt' => pids'[s] = {}
    BY <1>5, <1>6, <2>0 DEF KnowsOwn
  <2> QED BY <1>4, <2>0, <2>1, <2>2, <2>3, OwnKept
<1>10. ASSUME NEW q \in Script, NEW d \in Script PROVE KnowsOf(q, d)'
  <2>0. KnowsOf(q, d)
    BY DEF Compilers
  <2>1. /\ d \in pids'[q] => d \in pids[q]
        /\ d \in buildDeps[q] /\ d \in pids[q] => d \in buildDeps'[q]
        /\ workId[d] = q /\ d \in pids[d] => workId'[d] = q /\ d \in pids'[d]
    BY <1>5
  <2>2. Telling(d)' => Telling(d)
    <3>1. CASE d = x
      BY <1>1, <1>2, <3>1 DEF Telling
    <3>2. CASE d # x
      <4>1. \A h \in New : ~(h.at = "tell" /\ h.s = d)
        BY <1>4, <1>7, <3>2 DEF Takes
      <4> QED BY <1>4, <4>1, SaysOf
    <3> QED BY <3>1, <3>2
  <2>3. CASE q \in beingBuilt
    <3>1. FrameKnows(f, q, d) => \E h \in New : FrameKnows(h, q, d)
      <4> SUFFICES ASSUME FrameKnows(f, q, d) PROVE \E h \in New : FrameKnows(h, q, d)
        OBVIOUS
      <4>1. d = x /\ <<q, x>> \in Elems(L)
        BY <1>1, <1>2 DEF FrameKnows
      <4>2. <<q, x>> = Head(L) \/ <<q, x>> \in Elems(Tail(L))
        BY <1>2, <4>1, ElemsHead
      <4>3. CASE <<q, x>> = Head(L)
        <5>1. q = r /\ pid = x
          BY <1>1, <4>3
        <5>2. PICK h \in New : Takes(h, r, f, pid)
          BY <1>4, <2>3, <5>1
        <5> QED BY <1>1, <4>1, <5>1, <5>2 DEF Takes, FrameKnows
      <4>4. CASE <<q, x>> \in Elems(Tail(L))
        BY <1>4, <1>7, <4>1, <4>4 DEF FrameKnows
      <4> QED BY <4>2, <4>3, <4>4
    <3>2. \A h \in {f} : FrameKnows(h, q, d) => \E e \in New : FrameKnows(e, q, d)
      BY <3>1
    <3> QED BY <1>4, <2>0, <2>1, <2>2, <3>2, DependsKept
  <2>4. CASE q \notin beingBuilt
    <3>1. pids'[q] = {}
      BY <1>5, <2>4 DEF Compilers, KnowsOwn
    <3> QED BY <3>1 DEF KnowsOf
  <2> QED BY <2>3, <2>4
<1> QED BY <1>9, <1>10, AllKnow

(* The script is done.                                                       *)
LEMMA BuildIsCompletedCompilers ==
  ASSUME BuildAssumption, InOrder, InHand, Compilers, NEW t \in Thread, BuildIsCompleted(t)
  PROVE  Compilers'
<1>1. PICK f, x : f = Top(t) /\ x = f.s
  OBVIOUS
<1>2. f \in Said /\ f.at = "tell" /\ x \in Script /\ f.tell = <<>> /\ Says({f}, {})
  BY <1>1, BuildIsCompletedSays
<1>3. /\ compilers' = compilers /\ calls' = calls /\ beingBuilt' = beingBuilt \ {x}
      /\ pids' = [pids EXCEPT ![x] = {}] /\ buildDeps' = [buildDeps EXCEPT ![x] = {}]
      /\ workId' = [workId EXCEPT ![x] = None]
  BY <1>1 DEF BuildIsCompleted, ClearBuildInformation
<1>4. /\ \A s \in Script : s # x => /\ pids'[s] = pids[s] /\ buildDeps'[s] = buildDeps[s]
                                    /\ workId'[s] = workId[s]
      /\ pids'[x] = {}
  BY <1>2, <1>3 DEF InOrder, Types, RequestsOK, ProgressOK
<1>5. ~Compiling(x) /\ ~Launched(x)
  <2>1. ~Compiling(x)
    BY <1>1, <1>2, OneSays
  <2> QED BY <1>2, <2>1 DEF Compilers, KnowsOwn
<1>6. \A s : Compiling(s)' <=> Compiling(s)
  BY <1>3, CompilingSame
<1>7. Telling(x) /\ \A s : (Telling(s)' => Telling(s)) /\ (Launched(s)' => Launched(s))
  <2>1. Telling(x)
    BY <1>1, <1>2 DEF Telling
  <2>2. /\ \A s : \A g \in {f} \cup {} : ~(g.at = "launched" /\ g.s = s)
        /\ \A s : \A g \in {} : ~(g.at = "tell" /\ g.s = s)
    BY <1>2
  <2> QED BY <1>2, <2>1, <2>2, SaysOf
<1>8. ASSUME NEW s \in Script PROVE KnowsOwn(s)'
  <2>0. KnowsOwn(s)
    BY DEF Compilers
  <2>1. CASE s = x
    BY <1>4, <1>5, <1>6, <1>7, <2>1 DEF KnowsOwn
  <2>2. CASE s # x
    <3>1. \A h \in {f} \cup {} : ~(h.at = "launched" /\ h.s = s)
      BY <1>2
    <3>2. \A h \in {f} : Finishes(h, s) => \E e \in {} : Finishes(e, s)
      BY <1>1, <2>2 DEF Finishes
    <3>3. /\ Compiling(s)' <=> Compiling(s)
          /\ s \in pids'[s] <=> s \in pids[s]
          /\ s \notin beingBuilt' => pids'[s] = {}
      BY <1>3, <1>4, <1>6, <2>0, <2>2 DEF KnowsOwn
    <3> QED BY <1>2, <2>0, <3>1, <3>2, <3>3, OwnKept
  <2> QED BY <2>1, <2>2
<1>9. ASSUME NEW r \in Script, NEW d \in Script PROVE KnowsOf(r, d)'
  <2>0. KnowsOf(r, d)
    BY DEF Compilers
  <2>1. CASE r = x
    BY <1>4, <2>1 DEF KnowsOf
  <2>2. CASE r # x /\ d # x
    <3>1. \A h \in {f} : FrameKnows(h, r, d) => \E e \in {} : FrameKnows(e, r, d)
      BY <1>1, <1>2, <2>2 DEF FrameKnows
    <3>2. /\ Telling(d)' => Telling(d)
          /\ d \in pids'[r] => d \in pids[r]
          /\ d \in buildDeps[r] /\ d \in pids[r] => d \in buildDeps'[r]
          /\ workId[d] = r /\ d \in pids[d] => workId'[d] = r /\ d \in pids'[d]
      BY <1>4, <1>7, <2>2
    <3> QED BY <1>2, <2>0, <3>1, <3>2, DependsKept
  <2>3. CASE r # x /\ d = x
    <3>1. SUFFICES ASSUME x \in pids[r] PROVE x \in buildDeps'[r] /\ KnownAt(r, x)'
      BY <1>4, <2>3 DEF KnowsOf
    <3>2. x \in buildDeps[r] /\ KnownAt(r, x)
      BY <2>0, <2>3, <3>1 DEF KnowsOf
    <3>3. PICK g \in Said : FrameKnows(g, r, x)
      BY <1>7, <3>2 DEF KnownAt
    <3>4. g # f
      BY <1>2, <3>3 DEF FrameKnows, Elems
    <3>5. g \in Said'
      BY <1>2, <3>4 DEF Says
    <3>6. KnownAt(r, x)'
      BY <3>3, <3>5 DEF KnownAt, FrameKnows
    <3> QED BY <1>4, <2>3, <3>2, <3>6
  <2> QED BY <2>1, <2>2, <2>3
<1> QED BY <1>8, <1>9, AllKnow

(* The dependency and its compiler are taken off the list.                   *)
LEMMA EraseDependencyCompilers ==
  ASSUME BuildAssumption, InOrder, InHand, Compilers, NEW t \in Thread, EraseDependency(t)
  PROVE  Compilers'
<1>1. PICK f, x, y : f = Top(t) /\ x = f.s /\ y = f.dep
  OBVIOUS
<1>2. f \in Said /\ f.at = "erase" /\ x \in Script /\ y \in Script
  BY <1>1, EraseDependencySays
<1>3. PICK k : k.at = "last" /\ Says({f}, {k})
  BY <1>1, EraseDependencySays
<1>4. /\ compilers' = compilers /\ calls' = calls /\ beingBuilt' = beingBuilt
      /\ pids' = [pids EXCEPT ![x] = @ \ {f.pid}] /\ buildDeps' = [buildDeps EXCEPT ![x] = @ \ {y}]
      /\ workId' = workId /\ Types
  BY <1>1 DEF EraseDependency, flags, requests, InOrder
<1>5. /\ \A s \in Script : s # x => pids'[s] = pids[s] /\ buildDeps'[s] = buildDeps[s]
      /\ pids'[x] = pids[x] \ {f.pid} /\ buildDeps'[x] = buildDeps[x] \ {y}
  BY <1>2, <1>4 DEF Types, ProgressOK
<1>6. y \in Uses[x] /\ f.pid \in {None, y} /\ y # x /\ f.pid # x
  <2>1. y \in Uses[x] /\ f.pid \in {None, y}
    BY <1>1, <1>2, SaidFrame DEF Sound
  <2>2. y # x
    BY <1>2, <2>1, UsesNotItself
  <2> QED BY <1>2, <2>1, <2>2 DEF BuildAssumption, Requester
<1>7. \A s : Compiling(s)' <=> Compiling(s)
  BY <1>4, CompilingSame
<1>8. ASSUME NEW s \in Script PROVE KnowsOwn(s)'
  <2>0. KnowsOwn(s)
    BY DEF Compilers
  <2>1. \A h \in {f} \cup {k} : ~(h.at = "launched" /\ h.s = s)
    BY <1>2, <1>3
  <2>2. \A h \in {f} : Finishes(h, s) => \E e \in {k} : Finishes(e, s)
    BY <1>2 DEF Finishes
  <2>3. /\ Compiling(s)' <=> Compiling(s)
        /\ s \in pids'[s] <=> s \in pids[s]
        /\ s \notin beingBuilt' => pids'[s] = {}
    BY <1>4, <1>5, <1>6, <1>7, <2>0 DEF KnowsOwn
  <2> QED BY <1>3, <2>0, <2>1, <2>2, <2>3, OwnKept
<1>9. y \notin pids'[x]
  <2>1. SUFFICES ASSUME y \in pids[x], f.pid # y PROVE FALSE
    BY <1>5
  <2>2. KnownAt(x, y)
    BY <1>2, <1>6, <2>1 DEF Compilers, KnowsOf
  <2>3. PICK u \in Thread : f \in On(u) /\ Fits(f, u)
    BY <1>2, SaidFrame
  <2>4. Telling(y)
    <3>1. PICK g \in On(u) : g.at = "tell" /\ g.s = y
      BY <1>1, <1>2, <2>3 DEF Fits
    <3>2. g \in Said
      BY <3>1 DEF Said, SayKinds
    <3> QED BY <3>1, <3>2 DEF Telling
  <2>5. PICK g \in Said : FrameKnows(g, x, y)
    BY <2>2, <2>4 DEF KnownAt
  <2>6. PICK v \in Thread : g \in On(v)
    BY SaidFrame
  <2>7. CASE g.at = "tell"
    <3>1. FrameClaims(g, v, "tell", y, x)
      <4>1. g.s = y /\ <<x, y>> \in Elems(g.tell)
        BY <2>5, <2>7 DEF FrameKnows
      <4>2. PICK i \in DOMAIN g.tell : g.tell[i] = <<x, y>>
        BY <4>1 DEF Elems
      <4>3. g.tell[i][1] = x
        BY <4>2
      <4> QED BY <2>7, <4>1, <4>3 DEF FrameClaims
    <3>2. FrameClaims(f, u, "erase", y, x)
      BY <1>1, <1>2 DEF FrameClaims
    <3>3. HasClaim("tell", y, x) /\ HasClaim("erase", y, x)
      BY <2>3, <2>6, <3>1, <3>2 DEF HasClaim, InFrames
    <3> QED BY <1>2, <3>3 DEF InHand, Claimed, OneClaim, ClaimKinds, Requester
  <2>8. CASE g.at = "erase"
    <3>1. Framed
      BY DEF InHand
    <3>2. f.s = g.s /\ f.at \in {"erase", "last"} /\ g.at \in {"erase", "last"}
      BY <1>1, <1>2, <2>5, <2>8 DEF FrameKnows
    <3>3. f = g
      BY <2>3, <2>6, <3>1, <3>2, OneTold
    <3> QED BY <2>1, <2>5, <2>8, <3>3 DEF FrameKnows
  <2> QED BY <2>5, <2>7, <2>8 DEF FrameKnows
<1>10. ASSUME NEW r \in Script, NEW d \in Script PROVE KnowsOf(r, d)'
  <2>0. KnowsOf(r, d)
    BY DEF Compilers
  <2>1. CASE r = x /\ d = y
    BY <1>9, <2>1 DEF KnowsOf
  <2>2. CASE ~(r = x /\ d = y)
    <3>1. \A h \in {f} : FrameKnows(h, r, d) => \E e \in {k} : FrameKnows(e, r, d)
      BY <1>1, <1>2, <2>2 DEF FrameKnows
    <3>2. Telling(d)' => Telling(d)
      <4>1. \A h \in {k} : ~(h.at = "tell" /\ h.s = d)
        BY <1>3
      <4> QED BY <1>3, <4>1, SaysOf
    <3>3. d \in pids'[r] => d \in pids[r]
      BY <1>5
    <3>4. d \in buildDeps[r] /\ d \in pids[r] => d \in buildDeps'[r]
      BY <1>5, <2>2
    <3>5. workId[d] = r /\ d \in pids[d] => workId'[d] = r /\ d \in pids'[d]
      BY <1>4, <1>5, <1>6
    <3> QED BY <1>3, <2>0, <3>1, <3>2, <3>3, <3>4, <3>5, DependsKept
  <2> QED BY <2>1, <2>2
<1> QED BY <1>8, <1>10, AllKnow
-----------------------------------------------------------------------------
(* The invariant, with what is known of compilers.                           *)
LEMMA NextCompilers ==
  ASSUME BuildAssumption, InOrder, InHand, Compilers, Next, ~CancelWork, ~spoilt'
  PROVE  Compilers'
<1>1. ASSUME NEW t \in Thread, Build(t) PROVE Compilers'
  <2>1. CASE LockBuild(t) \/ TestUpToDate(t) \/ AddBuildPseudoInitiator(t) \/ StartBuild(t)
    BY <2>1, LockBuildCompilers, TestUpToDateCompilers, StartBuildCompilers
  <2>2. CASE BuildDependency(t) \/ LeaveBuild(t) \/ UnlockComp(t)
    BY <2>2, MovesCompilers
  <2>3. CASE CheckByteCode(t) \/ LaunchCompiler(t) \/ LaunchFails(t) \/ SetCompilerPid(t)
    BY <2>3, CheckByteCodeCompilers, LaunchCompilerCompilers, LaunchFailsCompilers,
       SetCompilerPidCompilers
  <2>4. CASE LockDone(t) \/ TellRequester(t) \/ BuildIsCompleted(t)
    BY <2>4, LockDoneCompilers, TellRequesterCompilers, BuildIsCompletedCompilers
  <2>5. CASE EraseDependency(t) \/ LastDependency(t)
    BY <2>5, EraseDependencyCompilers, LastDependencyCompilers
  <2> QED BY <1>1, <2>1, <2>2, <2>3, <2>4, <2>5 DEF Build
<1>2. ASSUME NEW w \in Worker, WorkStarts(w) \/ AskNext(w) PROVE Compilers'
  BY <1>2, WorkerCompilers
<1>3. ASSUME NEW s \in Script, CompilerEnds(s) PROVE Compilers'
  BY <1>3, CompilerEndsCompilers
<1>4. CASE MakeCall
  BY <1>4, OnCompileFinishedCompilers, OnResourceWorkCompletedCompilers,
     StartBuildSelfThreadCompilers, OnWorkCompletedCompilers DEF MakeCall
<1>5. CASE StartWorking
  BY <1>5, StartWorkingCompilers
<1>6. ~CancelStep
  <2>1. \A where \in CancelKinds : ~At(Gui, where)
    BY NobodyCancels
  <2> QED BY <2>1 DEF CancelStep, CancelKinds, CancelScript, CancelProject, Signals, ResetUpToDate,
                      JoinWorker, WorkCanceled, TerminateCompilers, TerminateDependency, LeaveTerminate
<1> QED BY <1>1, <1>2, <1>3, <1>4, <1>5, <1>6 DEF Next

LEMMA InitCompilers ==
  ASSUME Init
  PROVE  Compilers
<1>1. /\ \A t \in Thread : stack[t] = <<>>
      /\ calls = <<>> /\ compilers = {} /\ \A s \in Script : pids[s] = {}
  BY DEF Init
<1>2. Said = {}
  BY <1>1 DEF Said, On, Elems
<1>3. Called = {}
  BY <1>1 DEF Called, Elems
<1>4. \A s : ~Compiling(s) /\ ~Launched(s)
  BY <1>1, <1>2, <1>3 DEF Compiling, Launched
<1> QED BY <1>1, <1>4 DEF Compilers, KnowsOwn, KnowsOf

KnowingInvariant == Invariant /\ (spoilt \/ (Live => Compilers))

LEMMA StaysKnown ==
  ASSUME BuildAssumption, InOrder, Sane, Live => Compilers, [Next]_vars, ~spoilt'
  PROVE  Live' => Compilers'
<1>1. (Live => InHand /\ Compilers) /\ CancelsAlone
  BY DEF Sane
<1>2. CASE UNCHANGED vars
  <2>1. Live' => Live
    BY <1>2, NothingHappens
  <2>2. /\ stack' = stack /\ pids' = pids /\ workId' = workId /\ beingBuilt' = beingBuilt
        /\ buildDeps' = buildDeps /\ compilers' = compilers /\ calls' = calls
    BY <1>2 DEF vars, flags, requests, progress
  <2>3. Said' = Said /\ \A s \in Script : Quiet(s)
    BY <2>2, SaidSame, CompilingSame DEF Quiet
  <2>4. InHand /\ Compilers => Compilers'
    BY <2>2, <2>3, CompilersSame DEF InHand
  <2> QED BY <1>1, <2>1, <2>4
<1>3. CASE Next /\ ~Live
  BY <1>1, <1>3, AfterLast
<1>4. CASE CancelWork
  BY <1>1, <1>4, CancelBegins
<1>5. CASE Next /\ Live /\ ~CancelWork
  BY <1>1, <1>5, NextCompilers
<1>6. UNCHANGED vars \/ (Next /\ ~Live) \/ CancelWork \/ (Next /\ Live /\ ~CancelWork)
  OBVIOUS
<1> QED BY <1>2, <1>3, <1>4, <1>5, <1>6

(* What the invariant says of a build that nothing has spoilt, and that it   *)
(* may be spoilt or not.                                                     *)
LEMMA SoundIsSane ==
  ASSUME Invariant
  PROVE  /\ InOrder /\ spoilt \in BOOLEAN /\ (spoilt \/ Sane)
         /\ Soundly => Sane /\ Live /\ InHand
<1>1. InOrder /\ (spoilt \/ Sane)
  BY Zenon DEF Invariant
<1>2. WorkspaceOK
  BY <1>1 DEF InOrder, Types
<1>3. spoilt \in BOOLEAN
  BY <1>2 DEF WorkspaceOK
<1>4. Soundly => Sane /\ Live
  BY <1>1, Zenon DEF Soundly, Live
<1>5. Sane /\ Live => InHand
  BY Zenon DEF Sane
<1> QED BY <1>1, <1>3, <1>4, <1>5, Zenon

LEMMA NextKnowing ==
  ASSUME BuildAssumption, KnowingInvariant, [Next]_vars
  PROVE  KnowingInvariant'
<1>0. Invariant /\ (spoilt \/ (Live => Compilers))
  BY Zenon DEF KnowingInvariant
<1>1. Invariant'
  BY <1>0, NextInvariant
<1>2. InOrder /\ spoilt \in BOOLEAN /\ (spoilt \/ Sane)
  BY <1>0, SoundIsSane
<1>3. CASE spoilt
  <2>1. spoilt'
    BY <1>2, <1>3, SpoiltStays
  <2> QED BY <1>1, <2>1, Zenon DEF KnowingInvariant
<1>4. CASE Sane /\ (Live => Compilers)
  <2>1. ~spoilt' => (Live' => Compilers')
    BY <1>2, <1>4, StaysKnown
  <2> QED BY <1>1, <2>1, Zenon DEF KnowingInvariant
<1> QED BY <1>0, <1>2, <1>3, <1>4, Zenon

(* It says what the assertions of OnCompileFinished and of                   *)
(* TerminateAllLaunchedCompilers do.                                         *)
LEMMA FinishedIsKnown ==
  ASSUME BuildAssumption, InOrder, InHand, Compilers, NEW s \in Script,
         CompileFinished(s) \in Called, compMutex[s] = None
  PROVE  s \in beingBuilt /\ workId[s] # None /\ pids[s] = {s} /\ buildDeps[s] = {}
<1>1. Compiling(s)
  BY DEF Compiling
<1>2. s \in beingBuilt /\ buildDeps[s] = {}
  BY <1>1, CompilingGoesOn
<1>3. workId[s] # None
  BY <1>2 DEF InHand, Flags
<1>4. ~Launched(s)
  <2> SUFFICES ASSUME NEW g \in Said, g.at = "launched", g.s = s PROVE FALSE
    BY DEF Launched
  <2>1. PICK u \in Thread : Fits(g, u)
    BY SaidFrame
  <2>2. compMutex[s] = u
    BY <2>1 DEF Fits
  <2> QED BY <2>2 DEF BuildAssumption
<1>5. s \in pids[s]
  BY <1>1, <1>4 DEF Compilers, KnowsOwn
<1>6. pids[s] \subseteq Script
  BY DEF InOrder, Types, ProgressOK
<1>7. \A d \in pids[s] : d = s
  BY <1>2, <1>6 DEF Compilers, KnowsOf
<1> QED BY <1>2, <1>3, <1>5, <1>7

LEMMA KnownAreAwaited ==
  ASSUME BuildAssumption, InOrder, InHand, Compilers, NEW s \in beingBuilt \ Unresolvable
  PROVE  IF buildDeps[s] = {} THEN pids[s] \subseteq {s} ELSE pids[s] \subseteq buildDeps[s]
<1>1. s \in Script /\ pids[s] \subseteq Script
  BY DEF InOrder, Types, ProgressOK, FlagsOK
<1>2. \A d \in pids[s] : d = s \/ d \in buildDeps[s]
  BY <1>1 DEF Compilers, KnowsOf
<1>3. s \in pids[s] => buildDeps[s] = {}
  <2> SUFFICES ASSUME s \in pids[s] PROVE buildDeps[s] = {}
    OBVIOUS
  <2>1. CASE Compiling(s)
    BY <1>1, <2>1, CompilingGoesOn
  <2>2. CASE \E f \in Said : Finishes(f, s)
    <3>1. PICK f \in Said : f.at \in {"lock", "tell"} /\ f.s = s
      BY <2>2 DEF Finishes
    <3>2. PICK t \in Thread : Here(f.at, f.s, t)
      BY <3>1, SaidFrame
    <3>3. HasToken(f.at, s, t) /\ f.at \in TokenKinds /\ t \in Thread \cup {None}
      BY <3>1, <3>2 DEF HasToken, TokenKinds
    <3> QED BY <1>1, <3>3 DEF InHand, GoingOn, TokensGoOn
  <2> QED BY <1>1, <2>1, <2>2 DEF Compilers, KnowsOwn
<1> QED BY <1>2, <1>3

THEOREM CompilersStayKnown ==
  Spec => []CompilersAreKnown
<1>1. Init => KnowingInvariant
  BY BuildAssumption, InitOrder, InitInHand, InitCompilers DEF KnowingInvariant, Invariant, Sane
<1>2. KnowingInvariant /\ [Next]_vars => KnowingInvariant'
  BY BuildAssumption, NextKnowing
<1>3. KnowingInvariant => CompilersAreKnown
  <2> SUFFICES ASSUME KnowingInvariant, Soundly PROVE CompilersAreKnown
    BY DEF CompilersAreKnown, FinishedFindsItsCompiler, CompilersBelongToDependencies
  <2>1. InOrder /\ InHand /\ Compilers
    <3>1. Invariant /\ (spoilt \/ (Live => Compilers))
      BY Zenon DEF KnowingInvariant
    <3>2. InOrder /\ Live /\ InHand
      BY <3>1, SoundIsSane
    <3>3. ~spoilt
      BY Zenon DEF Soundly
    <3> QED BY <3>1, <3>2, <3>3, Zenon
  <2>2. FinishedFindsItsCompiler
    <3>1. \A c : Calls(c) => c \in Called
      BY DEF Calls, Called, Elems
    <3> QED BY <2>1, <3>1, FinishedIsKnown, BuildAssumption DEF FinishedFindsItsCompiler
  <2>3. CompilersBelongToDependencies
    BY <2>1, KnownAreAwaited, BuildAssumption DEF CompilersBelongToDependencies
  <2> QED BY <2>2, <2>3 DEF CompilersAreKnown
<1> QED BY <1>1, <1>2, <1>3, PTL DEF Spec
-----------------------------------------------------------------------------
(* What has been built for good stays so.  Final is a set of scripts that is *)
(* picked for one step; it grows by the script that is completed, if any.    *)
DoneWith(Final) == Finality(Final) /\ \A s \in Script : Prospers(s)

LEMMA DoneIs ==
  Done <=> \E Final \in SUBSET Script : DoneWith(Final)
BY DEF Done, DoneWith

LEMMA BrokenIs ==
  ASSUME BuildAssumption
  PROVE  /\ Faulty \cup Unresolvable \subseteq Broken /\ Broken \subseteq Script
         /\ \A s \in Script : \A d \in Uses[s] \cap Broken : s \in Broken
<1>1. Faulty \cup Unresolvable \subseteq Script
  BY DEF BuildAssumption
<1>2. Faulty \cup Unresolvable \subseteq Broken
  BY <1>1 DEF Broken
<1>3. ASSUME NEW s \in Script, NEW d \in Uses[s] \cap Broken PROVE s \in Broken
  <2> SUFFICES ASSUME NEW S \in SUBSET Script, Faulty \cup Unresolvable \subseteq S, Closed(S)
               PROVE  s \in S
    BY DEF Broken
  <2>1. d \in S
    BY DEF Broken
  <2> QED BY <1>3, <2>1 DEF Closed
<1> QED BY <1>2, <1>3 DEF Broken

(* The same is true of a script that no step has touched.                    *)
Still(s) ==
  /\ Compiling(s)' => Compiling(s)
  /\ CompileFinished(s) \in Called' => CompileFinished(s) \in Called
  /\ BuildSelfThread(s) \in Called' => BuildSelfThread(s) \in Called
  /\ s \in byteCode => s \in byteCode'
  /\ s \in beingBuilt' <=> s \in beingBuilt
  /\ s \in depsFailed' <=> s \in depsFailed
  /\ s \in someDepsCompiled' => s \in someDepsCompiled
  /\ buildDeps'[s] = buildDeps[s]

(* A function that begins nothing and, if it ends something, goes on ending. *)
Starts(f, s) == f.at \in {"check", "launch"} /\ f.s = s

SaysNoMore(Old, New, s) ==
  /\ \A f \in New : ~Starts(f, s)
  /\ \A f \in Old : Ends(f, s) => \E g \in New : Ends(g, s)

LEMMA SaysOfScript ==
  ASSUME NEW Old, NEW New, Says(Old, New), NEW s
  PROVE  /\ (\A f \in New : ~(f.at = "launch" /\ f.s = s)) => (Launching(s)' => Launching(s))
         /\ (\A f \in New : ~Starts(f, s)) =>
              ((\E f \in Said' : Starts(f, s)) => \E f \in Said : Starts(f, s))
         /\ (\A f \in Old : Ends(f, s) => \E g \in New : Ends(g, s)) => (Ending(s) => Ending(s)')
<1>1. (\A f \in New : ~(f.at = "launch" /\ f.s = s)) => (Launching(s)' => Launching(s))
  BY DEF Launching, Says
<1>2. (\A f \in New : ~Starts(f, s)) =>
              ((\E f \in Said' : Starts(f, s)) => \E f \in Said : Starts(f, s))
  BY DEF Says
<1>3. ASSUME \A f \in Old : Ends(f, s) => \E g \in New : Ends(g, s), Ending(s)
      PROVE  Ending(s)'
  <2>1. PICK f \in Said : Ends(f, s)
    BY <1>3 DEF Ending
  <2>2. CASE f \in Said'
    BY <2>1, <2>2 DEF Ending, Ends
  <2>3. CASE f \in Old
    <3>1. PICK g \in New : Ends(g, s)
      BY <1>3, <2>1, <2>3
    <3>2. g \in Said'
      BY <3>1 DEF Says, SayKinds, Ends
    <3> QED BY <3>1, <3>2 DEF Ending, Ends
  <2> QED BY <2>1, <2>2, <2>3 DEF Says
<1> QED BY <1>1, <1>2, <1>3

KeepsDone(Final, s) == FinalStays(Final, s)' /\ ErasedFinal(Final, s)' /\ Prospers(s)'

LEMMA StillKept ==
  ASSUME NEW F, NEW G, F \subseteq G, NEW s \in Script, s \in G => s \in F, DoneWith(F),
         NEW Old, NEW New, Says(Old, New), Still(s), SaysNoMore(Old, New, s)
  PROVE  KeepsDone(G, s)
<1>1. FinalStays(F, s) /\ ErasedFinal(F, s) /\ Prospers(s) /\ Known(F) \subseteq Known(G)
  BY DEF DoneWith, Finality, Known
<1>2. /\ Launching(s)' => Launching(s)
      /\ (\E f \in Said' : Starts(f, s)) => \E f \in Said : Starts(f, s)
      /\ Ending(s) => Ending(s)'
  BY SaysOfScript DEF SaysNoMore, Starts
<1>3. GoesOn(s)' => GoesOn(s)
  BY <1>2 DEF GoesOn, Still, Starts
<1>4. FinalStays(G, s)'
  BY <1>1, <1>2 DEF FinalStays, Still
<1>5. ErasedFinal(G, s)'
  BY <1>1 DEF ErasedFinal, Still
<1>6. Prospers(s)'
  BY <1>1, <1>2, <1>3 DEF Prospers, Still
<1> QED BY <1>4, <1>5, <1>6 DEF KeepsDone

(* What is said to the scripts that wait.                                    *)
LEMMA RebuildsKept ==
  ASSUME NEW F, DoneWith(F), NEW Old, NEW New, Says(Old, New),
         \A f \in Said : f.at = "lock" => workId'[f.s] = workId[f.s],
         \A f \in New : Rebuilds(F, f)'
  PROVE  \A f \in Said' : Rebuilds(F, f)'
<1>1. ASSUME NEW f \in Said PROVE Rebuilds(F, f)'
  <2>1. Rebuilds(F, f)
    BY DEF DoneWith, Finality
  <2> QED BY <1>1, <2>1 DEF Rebuilds
<1> QED BY <1>1 DEF Says

LEMMA DoneStep ==
  ASSUME NEW F, NEW G, F \subseteq G, G \subseteq Script, DoneWith(F),
         NEW Old, NEW New, Says(Old, New), upToDate' \subseteq Known(G),
         \A s \in Script : KeepsDone(G, s),
         \A f \in New : TellsFinal(G, f), \A f \in Said' : Rebuilds(G, f)',
         \A w \in Worker : AwaitsRest(G, w)'
  PROVE  Done'
<1>1. Known(F) \subseteq Known(G)
  BY DEF Known
<1>2. ASSUME NEW f \in Said' PROVE TellsFinal(G, f)'
  <2>1. f \in Said => TellsFinal(F, f)
    BY DEF DoneWith, Finality
  <2> QED BY <1>1, <2>1 DEF Says, TellsFinal
<1>3. Finality(G)'
  BY <1>2 DEF Finality, KeepsDone, Known
<1>4. \A s \in Script : Prospers(s)'
  BY DEF KeepsDone
<1> QED BY <1>3, <1>4 DEF Done

(* What the projects wait for, when a thread does something in the functions *)
(* of a script.                                                              *)
LEMMA StartingIs ==
  ASSUME InOrder, InHand, NEW w \in Worker, Starting(w)
  PROVE  At(w, "start")
<1>1. Covered /\ w \in Thread
  BY DEF InHand, Framed, Thread
<1>2. PICK f \in On(w) : f.at = "start"
  BY DEF Starting
<1>3. f.at \notin CoveredKinds
  BY <1>2 DEF CoveredKinds
<1>4. At(w, f.at)
  BY <1>1, <1>3, IsTop
<1> QED BY <1>2, <1>4

LEMMA BuildNotAtStart ==
  ASSUME NEW t, Build(t)
  PROVE  ~At(t, "start")
<1>1. CASE LockBuild(t) \/ TestUpToDate(t) \/ AddBuildPseudoInitiator(t) \/ StartBuild(t)
  BY <1>1 DEF At, LockBuild, TestUpToDate, AddBuildPseudoInitiator, StartBuild
<1>2. CASE BuildDependency(t) \/ LeaveBuild(t) \/ CheckByteCode(t) \/ LaunchCompiler(t)
  BY <1>2 DEF At, BuildDependency, LeaveBuild, CheckByteCode, LaunchCompiler
<1>3. CASE LaunchFails(t) \/ SetCompilerPid(t) \/ LockDone(t) \/ TellRequester(t)
  BY <1>3 DEF At, LaunchFails, SetCompilerPid, LockDone, TellRequester
<1>4. CASE BuildIsCompleted(t) \/ EraseDependency(t) \/ LastDependency(t) \/ UnlockComp(t)
  BY <1>4 DEF At, BuildIsCompleted, EraseDependency, LastDependency, UnlockComp
<1> QED BY <1>1, <1>2, <1>3, <1>4 DEF Build

LEMMA BuildStarting ==
  ASSUME BuildAssumption, InOrder, InHand, NEW t \in Thread, Build(t), NEW w \in Worker, Starting(w)
  PROVE  Starting(w)'
<1>1. At(w, "start") /\ w # t /\ w \in Thread /\ Stacks
  BY StartingIs, BuildNotAtStart DEF Thread, InOrder, Types
<1>2. stack'[w] = stack[w]
  BY <1>1, BuildElsewhere
<1> QED BY <1>2 DEF Starting, On

LEMMA AwaitsKept ==
  ASSUME NEW F, NEW G, F \subseteq G, DoneWith(F), NEW w \in Worker,
         busy' => busy, working'[w] = working[w], Starting(w) => Starting(w)',
         \A s \in Script : Posted(s, w)' => Posted(s, w) \/ s \in Known(G) \cup Broken
  PROVE  BuildAssumption => AwaitsRest(G, w)'
<1> SUFFICES ASSUME BuildAssumption PROVE AwaitsRest(G, w)'
  OBVIOUS
<1>1. AwaitsRest(F, w) /\ Unresolvable \subseteq Broken
  BY BrokenIs DEF DoneWith, Finality
<1>2. ChildrenOf(w) \subseteq Script
  BY DEF ChildrenOf, BuildAssumption
<1>3. \A s \in Script \ Broken : Posted(s, w)' => Posted(s, w) \/ s \in G
  BY <1>1 DEF Known
<1> QED BY <1>1, <1>2, <1>3 DEF AwaitsRest

LEMMA BuildAwaits ==
  ASSUME BuildAssumption, InOrder, InHand, NEW t \in Thread, Build(t), working' = working,
         NEW F, NEW G, F \subseteq G, DoneWith(F),
         \A s \in Script, w \in Worker : Posted(s, w)' => Posted(s, w) \/ s \in Known(G) \cup Broken
  PROVE  \A w \in Worker : AwaitsRest(G, w)'
<1>1. busy' = busy
  BY BuildElsewhere DEF InOrder, Types
<1>2. ASSUME NEW w \in Worker PROVE AwaitsRest(G, w)'
  <2>1. Starting(w) => Starting(w)'
    BY BuildStarting
  <2>2. \A s \in Script : Posted(s, w)' => Posted(s, w) \/ s \in Known(G) \cup Broken
    OBVIOUS
  <2>3. working'[w] = working[w]
    OBVIOUS
  <2> QED BY <1>1, <2>1, <2>2, <2>3, AwaitsKept
<1> QED BY <1>2
-----------------------------------------------------------------------------
(* The actions that complete and compile nothing.                            *)
LEMMA StillSame ==
  ASSUME calls' = calls, compilers' = compilers, byteCode' = byteCode, beingBuilt' = beingBuilt,
         depsFailed' = depsFailed, someDepsCompiled' = someDepsCompiled, buildDeps' = buildDeps
  PROVE  \A s : Still(s)
BY DEF Still, Compiling, Called

LEMMA SaysSame ==
  ASSUME Said' = Said
  PROVE  Says({}, {}) /\ \A s : SaysNoMore({}, {}, s)
BY DEF Says, SaysNoMore

LEMMA NothingDone ==
  ASSUME BuildAssumption, InOrder, InHand, Done, NEW t \in Thread, Build(t),
         NEW Old, NEW New, Says(Old, New), \A f \in New : f.at \notin {"lock", "tell", "erase"},
         \A s \in Script : Still(s) /\ SaysNoMore(Old, New, s),
         upToDate' \subseteq upToDate \cup Unresolvable, workId' = workId, working' = working,
         \A s, w : Posted(s, w)' => Posted(s, w)
  PROVE  Done'
<1>1. PICK F \in SUBSET Script : DoneWith(F)
  BY DoneIs
<1>2. ASSUME NEW s \in Script PROVE KeepsDone(F, s)
  <2>1. F \subseteq F /\ Still(s) /\ SaysNoMore(Old, New, s)
    OBVIOUS
  <2> QED BY ONLY <1>1, <2>1, s \in Script, Says(Old, New), StillKept
<1>3. \A f \in New : TellsFinal(F, f) /\ Rebuilds(F, f)'
  BY DEF TellsFinal, Rebuilds
<1>4. \A f \in Said' : Rebuilds(F, f)'
  BY <1>1, <1>3, RebuildsKept
<1>5. \A w \in Worker : AwaitsRest(F, w)'
  BY <1>1, BuildAwaits
<1>6. upToDate' \subseteq Known(F)
  BY <1>1 DEF DoneWith, Finality, Known
<1> QED BY <1>1, <1>2, <1>3, <1>4, <1>5, <1>6, DoneStep

LEMMA MovesDone ==
  ASSUME BuildAssumption, InOrder, InHand, Done, NEW t \in Thread,
         LockBuild(t) \/ AddBuildPseudoInitiator(t) \/ BuildDependency(t) \/ LeaveBuild(t)
         \/ UnlockComp(t)
  PROVE  Done'
<1>1. Build(t) /\ Said' = Said
  <2>1. CASE LockBuild(t) \/ AddBuildPseudoInitiator(t)
    BY <2>1, AskSays DEF Build
  <2>2. CASE BuildDependency(t)
    BY <2>2, BuildDependencySays DEF Build
  <2>3. CASE LeaveBuild(t) \/ UnlockComp(t)
    BY <2>3, LeaveSays DEF Build
  <2> QED BY <2>1, <2>2, <2>3
<1>2. Says({}, {}) /\ \A s : SaysNoMore({}, {}, s)
  BY <1>1, SaysSame
<1>3. /\ calls' = calls /\ compilers' = compilers /\ byteCode' = byteCode
      /\ beingBuilt' = beingBuilt /\ depsFailed' = depsFailed
      /\ someDepsCompiled' = someDepsCompiled /\ buildDeps' = buildDeps
      /\ workId' = workId /\ working' = working
  <2>1. CASE LockBuild(t) \/ AddBuildPseudoInitiator(t)
    BY <2>1 DEF LockBuild, AddBuildPseudoInitiator, files, flags, requests, progress, workspace
  <2>2. CASE BuildDependency(t)
    BY <2>2 DEF BuildDependency, files, flags, requests, progress, workspace
  <2>3. CASE LeaveBuild(t) \/ UnlockComp(t)
    BY <2>3 DEF LeaveBuild, UnlockComp, files, flags, requests, progress, workspace
  <2> QED BY <2>1, <2>2, <2>3
<1>4. upToDate' \subseteq upToDate \cup Unresolvable
  <2>1. CASE LockBuild(t) \/ AddBuildPseudoInitiator(t) \/ BuildDependency(t) \/ UnlockComp(t)
    BY <2>1 DEF LockBuild, AddBuildPseudoInitiator, BuildDependency, UnlockComp, flags
  <2>2. CASE LeaveBuild(t)
    <3>1. CASE At(t, "unresolved") /\ upToDate' = upToDate \cup {Top(t).s}
      <4>1. Top(t).at = "unresolved" /\ Sound(Top(t))
        BY <3>1, TopKnown
      <4> QED BY <3>1, <4>1 DEF Sound
    <3> QED BY <2>2, <3>1 DEF LeaveBuild
  <2> QED BY <2>1, <2>2
<1>5. \A s : Still(s)
  BY <1>3, StillSame
<1>6. \A s, w : Posted(s, w)' => Posted(s, w)
  BY <1>3, CallsSame
<1>7. \A f \in {} : f.at \notin {"lock", "tell", "erase"}
  OBVIOUS
<1> QED BY <1>1, <1>2, <1>3, <1>4, <1>5, <1>6, <1>7, NothingDone

LEMMA SetCompilerPidDone ==
  ASSUME BuildAssumption, InOrder, InHand, Done, NEW t \in Thread, SetCompilerPid(t)
  PROVE  Done'
<1>1. PICK f : f = Top(t)
  OBVIOUS
<1>2. f.at = "launched" /\ Says({f}, {}) /\ Build(t)
  BY <1>1, SetCompilerPidSays DEF Build
<1>3. /\ calls' = calls /\ compilers' = compilers /\ byteCode' = byteCode
      /\ beingBuilt' = beingBuilt /\ depsFailed' = depsFailed /\ upToDate' = upToDate
      /\ someDepsCompiled' = someDepsCompiled /\ buildDeps' = buildDeps
      /\ workId' = workId /\ working' = working
  BY DEF SetCompilerPid, files, flags, requests, workspace
<1>4. \A s : Still(s) /\ SaysNoMore({f}, {}, s)
  BY <1>2, <1>3, StillSame DEF SaysNoMore, Ends
<1>5. \A s, w : Posted(s, w)' => Posted(s, w)
  BY <1>3, CallsSame
<1>6. \A g \in {} : g.at \notin {"lock", "tell", "erase"}
  OBVIOUS
<1> QED BY <1>2, <1>3, <1>4, <1>5, <1>6, NothingDone

(* A script that is up to date is completed at once.                         *)
LEMMA TestUpToDateDone ==
  ASSUME BuildAssumption, InOrder, InHand, Done, NEW t \in Thread, TestUpToDate(t), ~spoilt'
  PROVE  Done'
<1>1. PICK x : x = Top(t).s
  OBVIOUS
<1>2. At(t, "test") /\ x \in Script /\ Build(t)
  BY <1>1, BuildFields DEF TestUpToDate, Build, InOrder
<1>3. /\ calls' = calls /\ compilers' = compilers /\ byteCode' = byteCode
      /\ depsFailed' = depsFailed /\ upToDate' = upToDate
      /\ someDepsCompiled' = someDepsCompiled /\ buildDeps' = buildDeps /\ working' = working
  BY DEF TestUpToDate, files, flags, progress, workspace
<1>4. \A s, w : Posted(s, w)' => Posted(s, w)
  BY <1>3, CallsSame
<1>5. CASE x \notin upToDate
  <2>1. beingBuilt' = beingBuilt /\ workId' = workId
    BY <1>1, <1>5 DEF TestUpToDate
  <2>2. Said' = Said
    BY <1>1, <1>5, TestUpToDateSays
  <2>3. Says({}, {}) /\ \A s : SaysNoMore({}, {}, s)
    BY <2>2, SaysSame
  <2>4. \A s : Still(s)
    BY <1>3, <2>1, StillSame
  <2>5. \A g \in {} : g.at \notin {"lock", "tell", "erase"}
    OBVIOUS
  <2> QED BY <1>2, <1>3, <1>4, <2>1, <2>3, <2>4, <2>5, NothingDone
<1>6. CASE x \in upToDate
  <2>1. PICK k \in Frame : Completes(k, x, TRUE, None) /\ Said' = Said \cup {k}
    BY <1>1, <1>6, TestUpToDateSays
  <2>2. Says({}, {k})
    BY <2>1 DEF Says
  <2>3. x \notin beingBuilt /\ beingBuilt' = beingBuilt \cup {x}
    <3>1. SetIsBeingBuiltFor(x, Top(t).for)
      BY <1>1, <1>6 DEF TestUpToDate
    <3>2. x \notin beingBuilt
      BY <1>1, <1>6, Zenon DEF TestUpToDate
    <3> QED BY <3>1, <3>2 DEF SetIsBeingBuiltFor
  <2>4. \A s \in Script : s # x => workId'[s] = workId[s]
    BY <1>1, <1>2, <1>6 DEF TestUpToDate, SetIsBeingBuiltFor, InOrder, Types, RequestsOK
  <2>5. PICK F \in SUBSET Script : DoneWith(F)
    BY DoneIs
  <2>6. k.at = "lock" /\ k.s = x /\ k.ok = TRUE /\ k.pid = None /\ Ends(k, x) /\ k \in Said'
    BY <2>1 DEF Completes, Ends
  <2>7. ASSUME NEW s \in Script, s # x PROVE KeepsDone(F, s)
    <3>1. Still(s)
      BY <1>3, <2>3, <2>7 DEF Still, Compiling, Called
    <3>2. SaysNoMore({}, {k}, s) /\ F \subseteq F
      BY <2>6 DEF SaysNoMore, Starts
    <3> QED BY ONLY <2>2, <2>5, <3>1, <3>2, s \in Script, StillKept
  <2>8. KeepsDone(F, x)
    <3>1. FinalStays(F, x) /\ Prospers(x)
      BY <1>2, <2>5 DEF DoneWith, Finality
    <3>2. Ending(x)'
      BY <2>6 DEF Ending, Ends
    <3>3. ~Launching(x)' \/ Launching(x)
      BY <2>1, <2>6 DEF Launching
    <3>4. ~GoesOn(x)' \/ GoesOn(x)
      BY <1>3, <2>1, <2>6 DEF GoesOn, Compiling, Called
    <3>5. Compiling(x)' <=> Compiling(x)
      BY <1>3, CompilingSame
    <3>6. x \in depsFailed
      BY <2>3, <3>1 DEF Prospers
    <3>7. FinalStays(F, x)'
      BY <1>3, <3>1, <3>2, <3>3, <3>5 DEF FinalStays
    <3>8. ErasedFinal(F, x)'
      BY <1>3, <3>6 DEF ErasedFinal
    <3>9. Prospers(x)'
      BY <1>3, <2>3, <3>1, <3>2, <3>4 DEF Prospers, Called
    <3> QED BY <3>7, <3>8, <3>9 DEF KeepsDone
  <2>9. upToDate \subseteq Known(F)
    BY <2>5 DEF DoneWith, Finality
  <2>10. \A f \in {k} : TellsFinal(F, f) /\ Rebuilds(F, f)'
    BY <1>6, <2>6, <2>9 DEF TellsFinal, Rebuilds
  <2>11. \A f \in Said : f.at = "lock" => workId'[f.s] = workId[f.s]
    <3>1. \A f \in Said : f.at = "lock" => f.s \in beingBuilt /\ f.s \in Script
      BY OneSays
    <3> QED BY <2>3, <2>4, <3>1
  <2>12. \A f \in Said' : Rebuilds(F, f)'
    BY <2>2, <2>5, <2>10, <2>11, RebuildsKept
  <2>13. \A w \in Worker : AwaitsRest(F, w)'
    BY <1>2, <1>3, <1>4, <2>5, BuildAwaits
  <2>14. \A s \in Script : KeepsDone(F, s)
    BY <2>7, <2>8
  <2>15. F \subseteq F /\ F \subseteq Script /\ DoneWith(F) /\ upToDate' \subseteq Known(F)
    BY <1>3, <2>5, <2>9
  <2>16. \A f \in {k} : TellsFinal(F, f)
    BY <2>10
  <2> QED BY ONLY <2>2, <2>12, <2>13, <2>14, <2>15, <2>16, DoneStep
<1> QED BY <1>5, <1>6

(* A build that starts waits for everything the script uses.                 *)
LEMMA StartBuildDone ==
  ASSUME BuildAssumption, InOrder, InHand, Done, NEW t \in Thread, StartBuild(t)
  PROVE  Done'
<1>1. PICK x : x = Top(t).s
  OBVIOUS
<1>2. At(t, "progress") /\ x \in Script /\ Build(t)
  BY <1>1, BuildFields DEF StartBuild, Build, InOrder
<1>3. /\ calls' = calls /\ compilers' = compilers /\ byteCode' = byteCode
      /\ upToDate' = upToDate /\ someDepsCompiled' = someDepsCompiled /\ working' = working
  BY DEF StartBuild, files, workspace
<1>4. /\ x \notin beingBuilt /\ beingBuilt' = beingBuilt \cup {x}
      /\ buildDeps'[x] = Uses[x]
      /\ depsFailed' = IF Uses[x] = {} THEN depsFailed ELSE depsFailed \ {x}
  BY <1>1, <1>2 DEF StartBuild, SetIsBeingBuiltFor, InOrder, Types, ProgressOK
<1>5. \A s \in Script : s # x => workId'[s] = workId[s] /\ buildDeps'[s] = buildDeps[s]
  BY <1>1, <1>2 DEF StartBuild, SetIsBeingBuiltFor, InOrder, Types, RequestsOK, ProgressOK
<1>a. PICK New : New = Said' \ Said
  OBVIOUS
<1>6. /\ Says({}, New)
      /\ \A k \in New : \/ k.at = "check" /\ k.s = x
                        \/ Completes(k, x, FALSE, None) /\ x \in Unresolvable
  <2>1. CASE x \in Unresolvable
    <3>1. PICK k \in Frame : Completes(k, x, FALSE, None) /\ Said' = Said \cup {k}
      BY <1>1, <2>1, StartBuildSays
    <3> QED BY <1>a, <2>1, <3>1 DEF Says
  <2>2. CASE x \notin Unresolvable /\ Uses[x] = {}
    <3>1. PICK k \in Frame : Compiles(k, "check", x) /\ Said' = Said \cup {k}
      BY <1>1, <2>2, StartBuildSays
    <3>2. k.at = "check" /\ k.s = x
      BY <3>1 DEF Compiles
    <3>3. Says({}, New) /\ \A g \in New : g = k
      BY <1>a, <3>1 DEF Says
    <3> QED BY <3>2, <3>3
  <2>3. CASE x \notin Unresolvable /\ Uses[x] # {}
    <3>1. Said' = Said
      BY <1>1, <2>3, StartBuildSays
    <3> QED BY <1>a, <3>1 DEF Says
  <2> QED BY <2>1, <2>2, <2>3
<1>7. \A s, w : Posted(s, w)' => Posted(s, w)
  BY <1>3, CallsSame
<1>8. PICK F \in SUBSET Script : DoneWith(F)
  BY DoneIs
<1>9. F \subseteq F /\ F \subseteq Script /\ DoneWith(F) /\ upToDate' \subseteq Known(F)
  BY <1>3, <1>8 DEF DoneWith, Finality
<1>10. ASSUME NEW s \in Script, s # x PROVE KeepsDone(F, s)
  <2>1. Still(s)
    BY <1>3, <1>4, <1>5, <1>10 DEF Still, Compiling, Called
  <2>2. SaysNoMore({}, New, s)
    BY <1>6, <1>10 DEF SaysNoMore, Starts, Completes
  <2> QED BY ONLY <1>6, <1>9, <2>1, <2>2, s \in Script, StillKept
<1>11. KeepsDone(F, x)
  <2>1. FinalStays(F, x) /\ Prospers(x)
    BY <1>2, <1>8 DEF DoneWith, Finality
  <2>2. Launching(x)' => Launching(x)
    <3>1. \A f \in New : ~(f.at = "launch" /\ f.s = x)
      BY <1>6 DEF Completes
    <3> QED BY <1>6, <3>1, SaysOfScript
  <2>3. Compiling(x)' <=> Compiling(x)
    BY <1>3, CompilingSame
  <2>4. x \in depsFailed /\ x \notin someDepsCompiled
    BY <1>4, <2>1 DEF Prospers
  <2>5. FinalStays(F, x)'
    BY <1>3, <2>1, <2>2, <2>3, <2>4 DEF FinalStays
  <2>6. ErasedFinal(F, x)'
    BY <1>4 DEF ErasedFinal
  <2>7. Prospers(x)'
    BY <1>3, <1>4, <2>1 DEF Prospers, Called
  <2> QED BY <2>5, <2>6, <2>7 DEF KeepsDone
<1>12. \A s \in Script : KeepsDone(F, s)
  BY <1>10, <1>11
<1>13. \A f \in New : TellsFinal(F, f)
  <2>1. Unresolvable \subseteq Broken
    BY BrokenIs
  <2> QED BY <1>6, <2>1 DEF TellsFinal, Completes
<1>14. \A f \in Said' : Rebuilds(F, f)'
  <2>1. \A f \in New : Rebuilds(F, f)'
    BY <1>6 DEF Rebuilds, Completes
  <2>2. \A f \in Said : f.at = "lock" => workId'[f.s] = workId[f.s]
    <3>1. \A f \in Said : f.at = "lock" => f.s \in beingBuilt /\ f.s \in Script
      BY OneSays
    <3> QED BY <1>4, <1>5, <3>1
  <2> QED BY <1>6, <1>8, <2>1, <2>2, RebuildsKept
<1>15. \A w \in Worker : AwaitsRest(F, w)'
  BY <1>2, <1>3, <1>7, <1>8, BuildAwaits
<1> QED BY ONLY <1>6, <1>9, <1>12, <1>13, <1>14, <1>15, DoneStep
-----------------------------------------------------------------------------
(* A script that is to be compiled, or has been, uses what is final.         *)
LEMMA GoesOnIs ==
  ASSUME BuildAssumption, InOrder, InHand, NEW s \in Script, GoesOn(s)
  PROVE  s \in beingBuilt \ Unresolvable /\ buildDeps[s] = {}
<1>1. CASE Compiling(s)
  BY <1>1, CompilingGoesOn
<1>2. CASE BuildSelfThread(s) \in Called
  <2>1. HasToken("self", s, None) /\ "self" \in TokenKinds /\ None \in Thread \cup {None}
    BY <1>2 DEF HasToken, TokenKinds
  <2> QED BY <2>1 DEF InHand, GoingOn, TokensGoOn
<1>3. CASE \E f \in Said : f.at \in {"check", "launch"} /\ f.s = s
  <2>1. PICK f \in Said : f.at \in {"check", "launch"} /\ f.s = s
    BY <1>3
  <2>2. PICK t \in Thread : Here(f.at, s, t)
    BY <2>1, SaidFrame
  <2>3. HasToken(f.at, s, t) /\ f.at \in TokenKinds /\ t \in Thread \cup {None}
    BY <2>1, <2>2 DEF HasToken, TokenKinds
  <2> QED BY <2>1, <2>3 DEF InHand, GoingOn, TokensGoOn
<1> QED BY <1>1, <1>2, <1>3 DEF GoesOn

LEMMA GoesOnFinal ==
  ASSUME BuildAssumption, InOrder, InHand, NEW F, DoneWith(F), NEW s \in Script, GoesOn(s)
  PROVE  Uses[s] \subseteq Known(F)
<1>1. s \in beingBuilt \ Unresolvable /\ buildDeps[s] = {}
  BY GoesOnIs
<1>2. Uses[s] = {} \/ s \notin depsFailed
  BY DEF DoneWith, Prospers
<1>3. ErasedFinal(F, s)
  BY DEF DoneWith, Finality
<1> QED BY <1>1, <1>2, <1>3 DEF ErasedFinal

(* Nobody tells it that a dependency has been compiled.                      *)
LEMMA NobodyTells ==
  ASSUME BuildAssumption, InOrder, InHand, NEW x \in Script, buildDeps[x] = {}, NEW f \in Said
  PROVE  /\ f.at = "erase" => f.s # x
         /\ f.at = "tell" => \A i \in DOMAIN f.tell : f.tell[i][1] # x
         /\ f.at = "lock" => workId[f.s] # x
<1>1. \A d \in Script : \A a \in ClaimKinds : ~HasClaim(a, d, x)
  BY DEF InHand, Claimed, ClaimsExpected, Expects, Requester
<1>2. PICK t \in Thread : f \in On(t)
  BY SaidFrame
<1>3. f.s \in Script
  BY SaidFrame
<1>4. f.at = "erase" => f.s # x
  <2> SUFFICES ASSUME f.at = "erase", f.s = x PROVE FALSE
    OBVIOUS
  <2>1. f.dep \in Script
    BY <1>3, SaidFrame, UsesNotItself DEF Sound
  <2>2. FrameClaims(f, t, "erase", f.dep, x)
    BY DEF FrameClaims
  <2>3. HasClaim("erase", f.dep, x)
    BY <1>2, <2>2 DEF HasClaim, InFrames
  <2> QED BY <1>1, <2>1, <2>3 DEF ClaimKinds
<1>5. ASSUME f.at = "tell", NEW i \in DOMAIN f.tell, f.tell[i][1] = x PROVE FALSE
  <2>1. FrameClaims(f, t, "tell", f.s, x)
    BY <1>5 DEF FrameClaims
  <2>2. HasClaim("tell", f.s, x)
    BY <1>2, <2>1 DEF HasClaim, InFrames
  <2> QED BY <1>1, <1>3, <2>2 DEF ClaimKinds
<1>6. ASSUME f.at = "lock", workId[f.s] = x PROVE FALSE
  <2>1. ~Doing("tell", f.s)
    <3> SUFFICES ASSUME NEW u \in Thread, NEW g \in On(u), g.at = "tell", g.s = f.s PROVE FALSE
      BY DEF Doing, Here
    <3>1. g \in Said
      BY DEF Said, SayKinds
    <3>2. g = f
      BY <1>6, <3>1, OneSays
    <3> QED BY <1>6, <3>2
  <2>2. HasClaim("noted", f.s, x)
    BY <1>6, <2>1 DEF HasClaim, Notes
  <2> QED BY <1>1, <1>3, <2>2 DEF ClaimKinds
<1> QED BY <1>4, <1>5, <1>6

LEMMA UntoldRebuilds ==
  ASSUME BuildAssumption, InOrder, InHand, NEW F, DoneWith(F),
         NEW x \in Script, buildDeps[x] = {}, workId' = workId,
         NEW Old, NEW k, Says(Old, {k}), Rebuilds(F \cup {x}, k)'
  PROVE  \A f \in Said' : Rebuilds(F \cup {x}, f)'
<1>1. ASSUME NEW f \in Said PROVE Rebuilds(F \cup {x}, f)'
  <2>1. Rebuilds(F, f)
    BY DEF DoneWith, Finality
  <2>2. /\ f.at = "erase" => f.s # x
        /\ f.at = "tell" => \A i \in DOMAIN f.tell : f.tell[i][1] # x
        /\ f.at = "lock" => workId[f.s] # x
    BY NobodyTells
  <2> QED BY <2>1, <2>2 DEF Rebuilds
<1> QED BY <1>1 DEF Says

(* The byte code of a script is not older than its source and none of its    *)
(* dependencies has been compiled: it is final.                              *)
LEMMA CheckByteCodeDone ==
  ASSUME BuildAssumption, InOrder, InHand, Done, NEW t \in Thread, CheckByteCode(t)
  PROVE  Done'
<1>1. PICK f, x : f = Top(t) /\ x = f.s
  OBVIOUS
<1>2. f \in Said /\ f.at = "check" /\ x \in Script /\ Build(t)
  BY <1>1, CheckByteCodeSays DEF Build
<1>3. PICK k \in Frame : /\ IF x \in byteCode /\ x \notin someDepsCompiled
                            THEN Completes(k, x, TRUE, None) ELSE Compiles(k, "launch", x)
                         /\ Says({f}, {k})
  BY <1>1, CheckByteCodeSays
<1>4. /\ calls' = calls /\ compilers' = compilers /\ byteCode' = byteCode
      /\ beingBuilt' = beingBuilt /\ depsFailed' = depsFailed /\ upToDate' = upToDate
      /\ someDepsCompiled' = someDepsCompiled /\ buildDeps' = buildDeps
      /\ workId' = workId /\ working' = working
  BY DEF CheckByteCode, files, flags, requests, progress, workspace
<1>5. \A s : Still(s)
  BY <1>4, StillSame
<1>6. \A s, w : Posted(s, w)' => Posted(s, w)
  BY <1>4, CallsSame
<1>7. PICK F \in SUBSET Script : DoneWith(F)
  BY DoneIs
<1>8. GoesOn(x) /\ (GoesOn(x)' => GoesOn(x))
  BY <1>1, <1>2 DEF GoesOn
<1>9. /\ ~Compiling(x)
      /\ \A g \in Said : g.at \in {"check", "launch", "lock", "tell"} /\ g.s = x => g = f
  BY <1>1, <1>2, OneSays
<1>10. k.s = x /\ k.at \in {"lock", "launch"}
  BY <1>3 DEF Completes, Compiles
<1>11. ASSUME NEW G, F \subseteq G, G \subseteq F \cup {x}, NEW s \in Script, s # x
       PROVE  KeepsDone(G, s)
  <2>1. SaysNoMore({f}, {k}, s) /\ (s \in G => s \in F) /\ Still(s)
    BY <1>2, <1>5, <1>10, <1>11 DEF SaysNoMore, Starts, Ends
  <2> QED BY ONLY <1>3, <1>7, <1>11, <2>1, s \in Script, StillKept
<1>12. FinalStays(F, x) /\ ErasedFinal(F, x) /\ Prospers(x) /\ upToDate \subseteq Known(F)
  BY <1>2, <1>7 DEF DoneWith, Finality
<1>13. ~Ending(x)
  BY <1>2, <1>9 DEF Ending, Ends
<1>14. Compiling(x)' <=> Compiling(x)
  BY <1>4, CompilingSame
<1>15. Prospers(x)'
  BY <1>4, <1>8, <1>12, <1>13 DEF Prospers, Called
<1>16. CASE x \in byteCode /\ x \notin someDepsCompiled
  <2>1. PICK G : G = F \cup {x}
    OBVIOUS
  <2>2. k.at = "lock" /\ k.s = x /\ k.ok = TRUE /\ k.pid = None
    BY <1>3, <1>16 DEF Completes
  <2>3. ~Launching(x)'
    BY <1>2, <1>3, <1>9, <2>2 DEF Launching, Says
  <2>4. Uses[x] \subseteq Known(F)
    BY <1>2, <1>7, <1>8, GoesOnFinal
  <2>5. FinalStays(G, x)' /\ ErasedFinal(G, x)'
    BY <1>4, <1>9, <1>12, <1>14, <1>16, <2>1, <2>3, <2>4 DEF FinalStays, ErasedFinal, Known
  <2>6. \A s \in Script : KeepsDone(G, s)
    BY <1>11, <1>15, <2>1, <2>5 DEF KeepsDone
  <2>7. \A g \in {k} : TellsFinal(G, g)
    BY <2>1, <2>2 DEF TellsFinal, Known
  <2>8. \A g \in Said' : Rebuilds(G, g)'
    <3>1. Rebuilds(G, k)'
      BY <2>2 DEF Rebuilds
    <3>2. buildDeps[x] = {}
      BY <1>2, <1>8, GoesOnIs
    <3> QED BY <1>2, <1>3, <1>4, <1>7, <2>1, <3>1, <3>2, UntoldRebuilds
  <2>9. F \subseteq G /\ G \subseteq Script /\ upToDate' \subseteq Known(G)
    BY <1>2, <1>4, <1>12, <2>1 DEF Known
  <2>10. \A w \in Worker : AwaitsRest(G, w)'
    BY <1>2, <1>4, <1>6, <1>7, <2>9, BuildAwaits
  <2> QED BY ONLY <1>3, <1>7, <2>6, <2>7, <2>8, <2>9, <2>10, DoneStep
<1>17. CASE ~(x \in byteCode /\ x \notin someDepsCompiled)
  <2>1. k.at = "launch" /\ k.s = x
    BY <1>3, <1>17 DEF Compiles
  <2>2. x \notin F
    BY <1>12, <1>13, <1>17 DEF FinalStays
  <2>3. FinalStays(F, x)' /\ ErasedFinal(F, x)'
    BY <1>4, <1>12, <2>2 DEF FinalStays, ErasedFinal
  <2>4. \A s \in Script : KeepsDone(F, s)
    <3>1. F \subseteq F /\ F \subseteq F \cup {x}
      OBVIOUS
    <3> QED BY <1>11, <1>15, <2>3, <3>1 DEF KeepsDone
  <2>5. \A g \in {k} : TellsFinal(F, g) /\ Rebuilds(F, g)'
    BY <2>1 DEF TellsFinal, Rebuilds
  <2>6. \A g \in Said' : Rebuilds(F, g)'
    BY <1>3, <1>4, <1>7, <2>5, RebuildsKept
  <2>7. F \subseteq F /\ F \subseteq Script /\ upToDate' \subseteq Known(F)
    BY <1>4, <1>12
  <2>8. \A w \in Worker : AwaitsRest(F, w)'
    BY <1>2, <1>6, <1>4, <1>7, <2>7, BuildAwaits
  <2> QED BY ONLY <1>3, <1>7, <2>4, <2>5, <2>6, <2>7, <2>8, DoneStep
<1> QED BY <1>16, <1>17
-----------------------------------------------------------------------------
(* A script that is compiled is not final, nor is the one that waits for it. *)
LEMMA LaunchCompilerDone ==
  ASSUME BuildAssumption, InOrder, InHand, Done, NEW t \in Thread, LaunchCompiler(t)
  PROVE  Done'
<1>1. PICK f, x : f = Top(t) /\ x = f.s
  OBVIOUS
<1>2. f \in Said /\ f.at = "launch" /\ x \in Script /\ workId[x] # None /\ Build(t)
  BY <1>1, LaunchCompilerSays DEF Build
<1>3. PICK k \in Frame : k.at = "launched" /\ k.s = x /\ Says({f}, {k})
  BY <1>1, LaunchCompilerSays DEF Compiles
<1>4. /\ calls' = calls /\ compilers' = compilers \cup {x} /\ byteCode' = byteCode
      /\ beingBuilt' = beingBuilt /\ depsFailed' = depsFailed /\ upToDate' = upToDate
      /\ someDepsCompiled' = someDepsCompiled /\ buildDeps' = buildDeps
      /\ workId' = workId /\ working' = working
  BY <1>1, <1>2 DEF LaunchCompiler, files, flags, requests, progress, workspace
<1>5. PICK F \in SUBSET Script : DoneWith(F)
  BY DoneIs
<1>6. F \subseteq F /\ F \subseteq Script /\ DoneWith(F) /\ upToDate' \subseteq Known(F)
  BY <1>4, <1>5 DEF DoneWith, Finality
<1>7. ASSUME NEW s \in Script, s # x PROVE KeepsDone(F, s)
  <2>1. Still(s) /\ SaysNoMore({f}, {k}, s)
    BY <1>2, <1>3, <1>4, <1>7 DEF Still, Compiling, Called, SaysNoMore, Starts, Ends
  <2> QED BY ONLY <1>3, <1>6, <2>1, s \in Script, StillKept
<1>8. KeepsDone(F, x)
  <2>1. FinalStays(F, x) /\ ErasedFinal(F, x) /\ Prospers(x)
    BY <1>2, <1>5 DEF DoneWith, Finality
  <2>2. Launching(x) /\ GoesOn(x)
    BY <1>1, <1>2 DEF Launching, GoesOn
  <2>3. FinalStays(F, x)'
    BY <2>1, <2>2 DEF FinalStays
  <2>4. ErasedFinal(F, x)'
    BY <1>4, <2>1 DEF ErasedFinal
  <2>5. Ending(x) => Ending(x)'
    <3>1. \A g \in {f} : Ends(g, x) => \E h \in {k} : Ends(h, x)
      BY <1>2 DEF Ends
    <3> QED BY <1>3, <3>1, SaysOfScript
  <2>6. Prospers(x)'
    BY <1>4, <2>1, <2>2, <2>5 DEF Prospers, Called
  <2> QED BY <2>3, <2>4, <2>6 DEF KeepsDone
<1>9. \A s \in Script : KeepsDone(F, s)
  BY <1>7, <1>8
<1>10. \A g \in {k} : TellsFinal(F, g) /\ Rebuilds(F, g)'
  BY <1>3 DEF TellsFinal, Rebuilds
<1>11. \A g \in Said' : Rebuilds(F, g)'
  BY <1>3, <1>4, <1>5, <1>10, RebuildsKept
<1>12. \A s, w : Posted(s, w)' => Posted(s, w)
  BY <1>4, CallsSame
<1>13. \A w \in Worker : AwaitsRest(F, w)'
  BY <1>2, <1>4, <1>6, <1>12, BuildAwaits
<1> QED BY ONLY <1>3, <1>6, <1>9, <1>10, <1>11, <1>13, DoneStep

LEMMA LaunchFailsDone ==
  ASSUME BuildAssumption, InOrder, InHand, Done, NEW t \in Thread, LaunchFails(t)
  PROVE  Done'
<1>1. PICK f, x : f = Top(t) /\ x = f.s
  OBVIOUS
<1>2. f \in Said /\ f.at = "launch" /\ x \in Script /\ Build(t)
  BY <1>1, LaunchFailsSays DEF Build
<1>3. PICK k \in Frame : Completes(k, x, FALSE, None) /\ Says({f}, {k})
  BY <1>1, LaunchFailsSays
<1>4. /\ calls' = calls /\ compilers' = compilers /\ byteCode' = byteCode
      /\ beingBuilt' = beingBuilt /\ depsFailed' = depsFailed /\ upToDate' = upToDate
      /\ someDepsCompiled' = someDepsCompiled /\ buildDeps' = buildDeps
      /\ workId' = workId /\ working' = working
  BY DEF LaunchFails, files, flags, requests, progress, workspace
<1>5. PICK F \in SUBSET Script : DoneWith(F)
  BY DoneIs
<1>6. F \subseteq F /\ F \subseteq Script /\ DoneWith(F) /\ upToDate' \subseteq Known(F)
  BY <1>4, <1>5 DEF DoneWith, Finality
<1>7. k.at = "lock" /\ k.s = x /\ k.ok = FALSE /\ k.pid = None
  BY <1>3 DEF Completes
<1>8. ASSUME NEW s \in Script, s # x PROVE KeepsDone(F, s)
  <2>1. Still(s)
    BY <1>4, StillSame
  <2>2. SaysNoMore({f}, {k}, s)
    BY <1>2, <1>7 DEF SaysNoMore, Starts, Ends
  <2> QED BY ONLY <1>3, <1>6, <2>1, <2>2, s \in Script, StillKept
<1>9. KeepsDone(F, x)
  <2>1. FinalStays(F, x) /\ ErasedFinal(F, x) /\ Prospers(x)
    BY <1>2, <1>5 DEF DoneWith, Finality
  <2>2. Launching(x) /\ GoesOn(x)
    BY <1>1, <1>2 DEF Launching, GoesOn
  <2>3. FinalStays(F, x)'
    BY <2>1, <2>2 DEF FinalStays
  <2>4. ErasedFinal(F, x)'
    BY <1>4, <2>1 DEF ErasedFinal
  <2>5. Ending(x)'
    BY <1>3, <1>7 DEF Says, SayKinds, Ending, Ends
  <2>6. Prospers(x)'
    BY <1>4, <2>1, <2>2, <2>5 DEF Prospers, Called
  <2> QED BY <2>3, <2>4, <2>6 DEF KeepsDone
<1>10. \A s \in Script : KeepsDone(F, s)
  BY <1>8, <1>9
<1>11. \A g \in {k} : TellsFinal(F, g) /\ Rebuilds(F, g)'
  <2>1. x \in Broken
    BY <1>1, BrokenIs DEF LaunchFails
  <2> QED BY <1>7, <2>1 DEF TellsFinal, Rebuilds
<1>12. \A g \in Said' : Rebuilds(F, g)'
  BY <1>3, <1>4, <1>5, <1>11, RebuildsKept
<1>13. \A s, w : Posted(s, w)' => Posted(s, w)
  BY <1>4, CallsSame
<1>14. \A w \in Worker : AwaitsRest(F, w)'
  BY <1>2, <1>4, <1>6, <1>13, BuildAwaits
<1> QED BY ONLY <1>3, <1>6, <1>10, <1>11, <1>12, <1>14, DoneStep

(* The compiler ends: it has written the byte code, unless it found errors.  *)
LEMMA CompilerEndsDone ==
  ASSUME BuildAssumption, InOrder, InHand, Done, NEW x \in Script, CompilerEnds(x)
  PROVE  Done'
<1>1. /\ x \in compilers /\ compilers' = compilers \ {x} /\ Post(CompileFinished(x))
      /\ beingBuilt' = beingBuilt /\ depsFailed' = depsFailed /\ upToDate' = upToDate
      /\ someDepsCompiled' = someDepsCompiled /\ buildDeps' = buildDeps
      /\ workId' = workId /\ working' = working /\ busy' = busy /\ stack' = stack
      /\ byteCode' = IF x \in Faulty THEN byteCode ELSE byteCode \cup {x}
  BY DEF CompilerEnds, Compile, flags, requests, progress, workspace
<1>2. Called' = Called \cup {CompileFinished(x)}
  <2>1. CompileFinished(x) \notin Called
    <3>1. HasToken("compiler", x, None) /\ "compiler" \in TokenKinds /\ None \in Thread \cup {None}
      BY <1>1 DEF HasToken, TokenKinds
    <3> QED BY <3>1, NoOtherToken DEF InHand, GoingOn
  <2>2. CompileFinished(x) \in DelayedCall
    BY DEF CompileFinished, DelayedCall
  <2> QED BY <1>1, <2>1, <2>2, CallPosted DEF InOrder, InHand, GoingOn
<1>3. \A s : /\ BuildSelfThread(s) \in Called' => BuildSelfThread(s) \in Called
             /\ \A r : Posted(s, r)' => Posted(s, r)
             /\ s # x => (CompileFinished(s) \in Called' => CompileFinished(s) \in Called)
  <2>1. \A s : s # x => CompileFinished(s) # CompileFinished(x)
    BY DEF CompileFinished
  <2> QED BY <1>2, <2>1, CallKinds DEF Posted
<1>4. Said' = Said
  BY <1>1, SaidSame
<1>5. Says({}, {}) /\ \A s : SaysNoMore({}, {}, s)
  BY <1>4, SaysSame
<1>6. PICK F \in SUBSET Script : DoneWith(F)
  BY DoneIs
<1>7. F \subseteq F /\ F \subseteq Script /\ DoneWith(F) /\ upToDate' \subseteq Known(F)
  BY <1>1, <1>6 DEF DoneWith, Finality
<1>8. ASSUME NEW s \in Script, s # x PROVE KeepsDone(F, s)
  <2>1. Still(s)
    BY <1>1, <1>3, <1>8 DEF Still, Compiling
  <2> QED BY ONLY <1>5, <1>7, <2>1, s \in Script, StillKept
<1>9. KeepsDone(F, x)
  <2>1. FinalStays(F, x) /\ ErasedFinal(F, x) /\ Prospers(x)
    BY <1>6 DEF DoneWith, Finality
  <2>2. Compiling(x) /\ GoesOn(x)
    BY <1>1 DEF Compiling, GoesOn
  <2>3. FinalStays(F, x)'
    BY <2>1, <2>2 DEF FinalStays
  <2>4. ErasedFinal(F, x)'
    BY <1>1, <2>1 DEF ErasedFinal
  <2>5. Ending(x) => Ending(x)'
    BY <1>4 DEF Ending, Ends
  <2>6. Prospers(x)'
    BY <1>1, <2>1, <2>2, <2>5 DEF Prospers
  <2> QED BY <2>3, <2>4, <2>6 DEF KeepsDone
<1>10. \A s \in Script : KeepsDone(F, s)
  BY <1>8, <1>9
<1>11. \A g \in Said' : Rebuilds(F, g)'
  <2>1. \A g \in {} : Rebuilds(F, g)'
    OBVIOUS
  <2> QED BY <1>1, <1>5, <1>6, <2>1, RebuildsKept
<1>12. \A w \in Worker : AwaitsRest(F, w)'
  <2>1. \A w \in Worker : Starting(w)' <=> Starting(w)
    BY <1>1 DEF Starting, On
  <2> QED BY <1>1, <1>3, <1>7, <2>1, AwaitsKept
<1> QED
  <2>1. PICK Z : Z = {}
    OBVIOUS
  <2>2. Says(Z, Z) /\ \A g \in Z : TellsFinal(F, g)
    BY <1>5, <2>1
  <2> QED BY ONLY <1>7, <1>10, <1>11, <1>12, <2>2, DoneStep

(* Who asked for a script that is compiled is not final.                     *)
LEMMA RequesterNotFinal ==
  ASSUME BuildAssumption, InOrder, InHand, NEW F, F \subseteq Script, DoneWith(F),
         NEW x \in Script, Compiling(x)
  PROVE  workId[x] \notin F \cup {x}
<1>1. x \in beingBuilt \ Unresolvable
  BY CompilingGoesOn
<1>2. SUFFICES ASSUME workId[x] \in Script PROVE workId[x] \notin F \cup {x}
  OBVIOUS
<1>3. PICK r \in Script : r = workId[x]
  BY <1>2
<1>4. initiator[x] = r
  BY <1>1, <1>3 DEF InHand, Flags
<1>5. x \in Uses[r]
  BY <1>4 DEF InOrder, RequestsUse
<1>6. r # x
  BY <1>5, UsesNotItself
<1>7. r \notin F
  <2>1. FinalStays(F, r) /\ FinalStays(F, x)
    BY DEF DoneWith, Finality
  <2> QED BY <1>1, <1>5, <2>1 DEF FinalStays, Known
<1> QED BY <1>3, <1>6, <1>7

(* Its notice arrives: if it has succeeded, the script is final.             *)
LEMMA OnCompileFinishedDone ==
  ASSUME BuildAssumption, InOrder, InHand, Done, NEW x \in Script, OnCompileFinished(x)
  PROVE  Done'
<1>1. Calling(CompileFinished(x))
  BY OnCompileFinishedSays
<1>2. PICK k \in Frame : Completes(k, x, x \in byteCode, x) /\ Says({}, {k})
  BY OnCompileFinishedSays
<1>3. /\ compilers' = compilers /\ byteCode' = byteCode
      /\ beingBuilt' = beingBuilt /\ depsFailed' = depsFailed /\ upToDate' = upToDate
      /\ someDepsCompiled' = someDepsCompiled /\ buildDeps' = buildDeps
      /\ workId' = workId /\ working' = working /\ busy' = busy
  BY DEF OnCompileFinished, files, flags, requests, progress, workspace
<1>4. Called' = Called \ {CompileFinished(x)} /\ CompileFinished(x) \in Called
  BY <1>1, CallKinds, CallMade DEF InOrder, InHand, GoingOn
<1>5. Compiling(x) /\ GoesOn(x)
  BY <1>4 DEF Compiling, GoesOn
<1>6. /\ x \in beingBuilt \ Unresolvable /\ buildDeps[x] = {}
      /\ BuildSelfThread(x) \notin Called /\ x \notin compilers
  <2>1. HasToken("finished", x, None) /\ "finished" \in TokenKinds /\ None \in Thread \cup {None}
    BY <1>4 DEF HasToken, TokenKinds
  <2>2. BuildSelfThread(x) \notin Called /\ x \notin compilers
    BY <2>1, NoOtherToken DEF InHand, GoingOn
  <2> QED BY <1>5, <2>2, CompilingGoesOn
<1>7. \A g \in Said : g.at \in {"check", "launch", "lock", "tell"} => g.s # x
  BY <1>5, OneSays
<1>8. ~Compiling(x)' /\ ~Launching(x)'
  <2>1. ~Compiling(x)'
    BY <1>3, <1>4, <1>6 DEF Compiling
  <2>2. k.at = "lock"
    BY <1>2 DEF Completes
  <2> QED BY <1>2, <1>7, <2>1, <2>2 DEF Launching, Says
<1>9. PICK F \in SUBSET Script : DoneWith(F)
  BY DoneIs
<1>10. PICK G : G = IF x \in byteCode THEN F \cup {x} ELSE F
  OBVIOUS
<1>11. /\ F \subseteq G /\ G \subseteq Script /\ upToDate' \subseteq Known(G)
       /\ Known(F) \subseteq Known(G) /\ G \subseteq F \cup {x}
  BY <1>3, <1>9, <1>10 DEF DoneWith, Finality, Known
<1>12. k.at = "lock" /\ k.s = x /\ k.ok = (x \in byteCode) /\ k.pid = x
  BY <1>2 DEF Completes
<1>13. ASSUME NEW s \in Script, s # x PROVE KeepsDone(G, s)
  <2>1. Still(s)
    BY <1>3, <1>4 DEF Still, Compiling
  <2>2. SaysNoMore({}, {k}, s) /\ (s \in G => s \in F)
    BY <1>11, <1>12, <1>13 DEF SaysNoMore, Starts, Ends
  <2> QED BY ONLY <1>2, <1>9, <1>11, <2>1, <2>2, s \in Script, StillKept
<1>14. KeepsDone(G, x)
  <2>1. FinalStays(F, x) /\ ErasedFinal(F, x) /\ Prospers(x)
    BY <1>9 DEF DoneWith, Finality
  <2>2. Uses[x] \subseteq Known(F)
    BY <1>5, <1>9, GoesOnFinal
  <2>3. Ending(x)'
    BY <1>2, <1>12 DEF Says, SayKinds, Ending, Ends
  <2>4. FinalStays(G, x)'
    BY <1>3, <1>5, <1>8, <1>10, <1>11, <2>1, <2>2, <2>3 DEF FinalStays
  <2>5. ErasedFinal(G, x)'
    BY <1>3, <1>11, <2>1 DEF ErasedFinal
  <2>6. Prospers(x)'
    BY <1>3, <1>4, <1>5, <2>1, <2>3 DEF Prospers
  <2> QED BY <2>4, <2>5, <2>6 DEF KeepsDone
<1>15. \A s \in Script : KeepsDone(G, s)
  BY <1>13, <1>14
<1>16. \A g \in {k} : TellsFinal(G, g)
  <2>1. x \in byteCode \/ x \in Broken
    <3>1. Prospers(x)
      BY <1>9 DEF DoneWith
    <3> QED BY <1>4, <3>1, BrokenIs DEF Prospers
  <2> QED BY <1>10, <1>12, <2>1 DEF TellsFinal, Known
<1>17. \A g \in Said' : Rebuilds(G, g)'
  <2>1. workId[x] \notin F \cup {x}
    BY <1>5, <1>9, RequesterNotFinal
  <2>2. Rebuilds(F \cup {x}, k)'
    BY <1>3, <1>12, <2>1 DEF Rebuilds
  <2>3. \A g \in Said' : Rebuilds(F \cup {x}, g)'
    BY <1>2, <1>3, <1>6, <1>9, <2>2, UntoldRebuilds
  <2> QED BY <1>11, <2>3 DEF Rebuilds
<1>18. \A w \in Worker : AwaitsRest(G, w)'
  <2>1. \A w \in Worker : stack'[w] = stack[w]
    BY DEF OnCompileFinished, InOrder, Types, Stacks, Thread, BuildAssumption
  <2>2. \A w \in Worker : Starting(w) => Starting(w)'
    BY <2>1 DEF Starting, On
  <2>3. \A s, w : Posted(s, w)' => Posted(s, w)
    BY <1>4 DEF Posted
  <2> QED BY <1>3, <1>9, <1>11, <2>2, <2>3, AwaitsKept
<1> QED BY ONLY <1>2, <1>9, <1>11, <1>15, <1>16, <1>17, <1>18, DoneStep
-----------------------------------------------------------------------------
(* What is told of a script that is completed is that it is final or broken. *)
LEMMA ToldStill ==
  ASSUME Types, NEW x \in Script, NEW q, PostAll(Told(x, q)),
         compilers' = compilers, byteCode' = byteCode, beingBuilt' = beingBuilt,
         depsFailed' = depsFailed, someDepsCompiled' = someDepsCompiled, buildDeps' = buildDeps
  PROVE  /\ \A s : Still(s)
         /\ \A s, w : Posted(s, w)' => Posted(s, w) \/ s = x
<1>1. Called' = IF q \in Worker THEN Called \cup {ResourceWorkCompleted(x, q)} ELSE Called
  BY ToldCalled
<1>2. \A s : /\ CompileFinished(s) \in Called' => CompileFinished(s) \in Called
             /\ BuildSelfThread(s) \in Called' => BuildSelfThread(s) \in Called
  BY <1>1, CallKinds
<1>3. \A s, w : Posted(s, w)' => Posted(s, w) \/ s = x
  <2>1. \A s, w : ResourceWorkCompleted(s, w) = ResourceWorkCompleted(x, q) => s = x
    BY DEF ResourceWorkCompleted
  <2> QED BY <1>1, <2>1 DEF Posted
<1> QED BY <1>2, <1>3 DEF Still, Compiling

LEMMA LockDoneDone ==
  ASSUME BuildAssumption, InOrder, InHand, Done, NEW t \in Thread, LockDone(t)
  PROVE  Done'
<1>1. PICK f, x, L : f = Top(t) /\ x = f.s /\ L = TellList(x, f.pid)
  OBVIOUS
<1>2. f \in Said /\ f.at = "lock" /\ x \in Script /\ f.pid \in {None, x} /\ Build(t)
  BY <1>1, LockDoneSays DEF Build
<1>3. PICK k : Tells(k, f, L) /\ Says({f}, {k})
  BY <1>1, LockDoneSays
<1>4. /\ compilers' = compilers /\ byteCode' = byteCode /\ upToDate' = upToDate
      /\ beingBuilt' = beingBuilt /\ depsFailed' = depsFailed
      /\ someDepsCompiled' = someDepsCompiled /\ buildDeps' = buildDeps
      /\ workId' = workId /\ working' = working /\ PostAll(Told(x, workId[x])) /\ Types
  BY <1>1 DEF LockDone, files, flags, progress, requests, workspace, InOrder
<1>5. k.at = "tell" /\ k.s = x /\ k.ok = f.ok /\ k.tell = L
  BY <1>1, <1>3 DEF Tells
<1>6. /\ \A s : Still(s)
      /\ \A s, w : Posted(s, w)' => Posted(s, w) \/ s = x
  BY <1>2, <1>4, ToldStill
<1>7. PICK F \in SUBSET Script : DoneWith(F)
  BY DoneIs
<1>8. F \subseteq F /\ F \subseteq Script /\ DoneWith(F) /\ upToDate' \subseteq Known(F)
  BY <1>4, <1>7 DEF DoneWith, Finality
<1>9. TellsFinal(F, f) /\ Rebuilds(F, f)
  BY <1>2, <1>7 DEF DoneWith, Finality
<1>10. ASSUME NEW s \in Script PROVE KeepsDone(F, s)
  <2>1. Still(s) /\ SaysNoMore({f}, {k}, s)
    BY <1>1, <1>2, <1>5, <1>6 DEF SaysNoMore, Starts, Ends
  <2> QED BY ONLY <1>3, <1>8, <2>1, s \in Script, StillKept
<1>11. \A g \in {k} : TellsFinal(F, g)
  BY <1>1, <1>2, <1>5, <1>9 DEF TellsFinal
<1>12. \A g \in {k} : Rebuilds(F, g)'
  <2> SUFFICES ASSUME NEW i \in DOMAIN L, L[i][2] # None PROVE L[i][1] \notin F
    BY <1>5 DEF Rebuilds
  <2>1. PICK ps, pid : ps = pseudoInitiators[x] /\ pid = f.pid
    OBVIOUS
  <2>2. pid \in Script \cup {None} /\ L = TellList(x, pid)
    BY <1>1, <1>2, <2>1
  <2>3. L[i] = <<initiator[x], pid>> \/ \E j \in DOMAIN ps : L[i] = <<ps[j], None>>
    BY <1>2, <1>4, <2>1, <2>2, TellListAt
  <2>4. L[i][1] = initiator[x] /\ f.pid # None
    BY <2>1, <2>3
  <2>5. workId[x] \notin F
    BY <1>1, <1>2, <1>9, <2>4 DEF Rebuilds
  <2>6. initiator[x] = workId[x] \/ initiator[x] = None
    <3>1. x \in beingBuilt
      BY <1>1, <1>2, OneSays
    <3> QED BY <1>2, <3>1 DEF InHand, Flags
  <2> QED BY <1>8, <2>4, <2>5, <2>6 DEF BuildAssumption, Requester
<1>13. \A g \in Said' : Rebuilds(F, g)'
  BY <1>3, <1>4, <1>7, <1>12, RebuildsKept
<1>14. \A w \in Worker : AwaitsRest(F, w)'
  <2>1. x \in Known(F) \cup Broken
    BY <1>1, <1>2, <1>9 DEF TellsFinal
  <2>2. \A s \in Script, w \in Worker : Posted(s, w)' => Posted(s, w) \/ s \in Known(F) \cup Broken
    BY <1>6, <2>1
  <2> QED BY <1>2, <1>4, <1>8, <2>2, BuildAwaits
<1> QED BY ONLY <1>3, <1>8, <1>10, <1>11, <1>13, <1>14, DoneStep

LEMMA TellRequesterDone ==
  ASSUME BuildAssumption, InOrder, InHand, Done, NEW t \in Thread, TellRequester(t)
  PROVE  Done'
<1>1. PICK f, x, L, r, pid :
        f = Top(t) /\ x = f.s /\ L = f.tell /\ r = Head(f.tell)[1] /\ pid = Head(f.tell)[2]
  OBVIOUS
<1>2. /\ f \in Said /\ f.at = "tell" /\ x \in Script /\ L # <<>> /\ Build(t)
      /\ L \in Seq(Requester \X (Script \cup {None}))
  BY <1>1, TellRequesterSays DEF Build
<1>3. PICK g : /\ Tells(g, f, Tail(L))
               /\ IF r \in beingBuilt
                  THEN \E k \in Frame : Takes(k, r, f, pid) /\ Says({f}, {k, g})
                  ELSE Says({f}, {g})
  BY <1>1, TellRequesterSays
<1>4. PICK New : /\ Says({f}, New) /\ g \in New
                 /\ \A h \in New : h = g \/ Takes(h, r, f, pid)
  <2>1. CASE r \in beingBuilt
    <3>1. PICK k \in Frame : Takes(k, r, f, pid) /\ Says({f}, {k, g})
      BY <1>3, <2>1
    <3> QED BY <3>1
  <2>2. CASE r \notin beingBuilt
    <3>1. Says({f}, {g})
      BY <1>3, <2>2
    <3> QED BY <2>2, <3>1
  <2> QED BY <2>1, <2>2
<1>5. /\ compilers' = compilers /\ byteCode' = byteCode /\ upToDate' = upToDate
      /\ beingBuilt' = beingBuilt /\ depsFailed' = depsFailed
      /\ someDepsCompiled' = someDepsCompiled /\ buildDeps' = buildDeps
      /\ workId' = workId /\ working' = working /\ PostAll(Told(x, r)) /\ Types
  BY <1>1 DEF TellRequester, files, flags, progress, requests, workspace, InOrder
<1>6. g.at = "tell" /\ g.s = x /\ g.ok = f.ok /\ g.tell = Tail(L)
  BY <1>1, <1>3 DEF Tells
<1>7. /\ \A s : Still(s)
      /\ \A s, w : Posted(s, w)' => Posted(s, w) \/ s = x
  BY <1>2, <1>5, ToldStill
<1>8. PICK F \in SUBSET Script : DoneWith(F)
  BY DoneIs
<1>9. F \subseteq F /\ F \subseteq Script /\ DoneWith(F) /\ upToDate' \subseteq Known(F)
  BY <1>5, <1>8 DEF DoneWith, Finality
<1>10. TellsFinal(F, f) /\ Rebuilds(F, f)
  BY <1>2, <1>8 DEF DoneWith, Finality
<1>11. ASSUME NEW s \in Script PROVE KeepsDone(F, s)
  <2>1. \A h \in New : ~Starts(h, s)
    BY <1>4, <1>6 DEF Takes, Starts
  <2>2. \A h \in {f} : Ends(h, s) => \E e \in New : Ends(e, s)
    BY <1>1, <1>4, <1>6 DEF Ends
  <2>3. Still(s) /\ SaysNoMore({f}, New, s)
    BY <1>7, <2>1, <2>2 DEF SaysNoMore
  <2> QED BY ONLY <1>4, <1>9, <2>3, s \in Script, StillKept
<1>12. \A h \in New : TellsFinal(F, h)
  <2>1. TellsFinal(F, g)
    BY <1>1, <1>2, <1>6, <1>10 DEF TellsFinal
  <2>2. ASSUME NEW h \in New, Takes(h, r, f, pid) PROVE TellsFinal(F, h)
    BY <1>2, <1>10, <2>2 DEF TellsFinal, Takes
  <2> QED BY <1>4, <2>1, <2>2
<1>13. \A i \in DOMAIN L : L[i][2] # None => L[i][1] \notin F
  BY <1>1, <1>2, <1>10 DEF Rebuilds
<1>14. \A h \in New : Rebuilds(F, h)'
  <2>1. Rebuilds(F, g)'
    <3>1. PICK S : S = Requester \X (Script \cup {None})
      OBVIOUS
    <3>2. L \in Seq(S) /\ L # <<>>
      BY <1>2, <3>1
    <3>3. \A i \in DOMAIN Tail(L) : i + 1 \in DOMAIN L /\ Tail(L)[i] = L[i + 1]
      BY ONLY <3>2
    <3> QED BY <1>6, <1>13, <3>3 DEF Rebuilds
  <2>2. pid # None => r \notin F
    <3>1. 1 \in DOMAIN L /\ Head(L) = L[1]
      BY <1>2
    <3> QED BY <1>1, <1>13, <3>1
  <2>3. ASSUME NEW h \in New, Takes(h, r, f, pid) PROVE Rebuilds(F, h)'
    BY <2>2, <2>3 DEF Rebuilds, Takes
  <2> QED BY <1>4, <2>1, <2>3
<1>15. \A h \in Said' : Rebuilds(F, h)'
  <2>1. \A h \in Said : h.at = "lock" => workId'[h.s] = workId[h.s]
    BY <1>5
  <2> QED BY ONLY <1>4, <1>8, <1>14, <2>1, RebuildsKept
<1>16. \A w \in Worker : AwaitsRest(F, w)'
  <2>1. x \in Known(F) \cup Broken
    BY <1>1, <1>2, <1>10 DEF TellsFinal
  <2>2. \A s \in Script, w \in Worker : Posted(s, w)' => Posted(s, w) \/ s \in Known(F) \cup Broken
    BY <1>7, <2>1
  <2> QED BY <1>2, <1>5, <1>9, <2>2, BuildAwaits
<1> QED BY ONLY <1>4, <1>9, <1>11, <1>12, <1>15, <1>16, DoneStep

(* The script is done: nothing goes on in it, and it forgets that it failed. *)
LEMMA BuildIsCompletedDone ==
  ASSUME BuildAssumption, InOrder, InHand, Done, NEW t \in Thread, BuildIsCompleted(t)
  PROVE  Done'
<1>1. PICK f, x : f = Top(t) /\ x = f.s
  OBVIOUS
<1>2. /\ f \in Said /\ f.at = "tell" /\ x \in Script /\ f.tell = <<>> /\ Says({f}, {}) /\ Build(t)
  BY <1>1, BuildIsCompletedSays DEF Build
<1>3. /\ calls' = calls /\ compilers' = compilers /\ byteCode' = byteCode /\ working' = working
      /\ beingBuilt' = beingBuilt \ {x} /\ depsFailed' = depsFailed \cup {x}
      /\ someDepsCompiled' = someDepsCompiled \ {x}
      /\ upToDate' = IF f.ok THEN upToDate \cup {x} ELSE upToDate \ {x}
  BY <1>1 DEF BuildIsCompleted, ClearBuildInformation, files, workspace
<1>4. \A s \in Script : s # x => workId'[s] = workId[s] /\ buildDeps'[s] = buildDeps[s]
  BY <1>1, <1>2 DEF BuildIsCompleted, ClearBuildInformation, InOrder, Types, RequestsOK, ProgressOK
<1>5. /\ ~Compiling(x) /\ BuildSelfThread(x) \notin Called /\ f.s = x
      /\ \A g \in Said : g.at \in {"check", "launch", "lock", "tell"} /\ g.s = x => g = f
  BY <1>1, <1>2, OneSays
<1>6. PICK F \in SUBSET Script : DoneWith(F)
  BY DoneIs
<1>7. TellsFinal(F, f) /\ upToDate \subseteq Known(F)
  BY <1>2, <1>6 DEF DoneWith, Finality
<1>8. F \subseteq F /\ F \subseteq Script /\ DoneWith(F) /\ upToDate' \subseteq Known(F)
  <2>1. f.ok => x \in Known(F)
    BY <1>2, <1>5, <1>7 DEF TellsFinal
  <2> QED BY <1>3, <1>6, <1>7, <2>1
<1>9. ASSUME NEW s \in Script, s # x PROVE KeepsDone(F, s)
  <2>1. Still(s) /\ SaysNoMore({f}, {}, s)
    BY <1>2, <1>3, <1>4, <1>5, <1>9 DEF Still, Compiling, Called, SaysNoMore, Ends
  <2> QED BY ONLY <1>2, <1>8, <2>1, s \in Script, StillKept
<1>10. KeepsDone(F, x)
  <2>1. FinalStays(F, x)
    BY <1>2, <1>6 DEF DoneWith, Finality
  <2>2. Compiling(x)' <=> Compiling(x)
    BY <1>3, CompilingSame
  <2>3. \A g \in Said' : g.at \notin {"check", "launch"} \/ g.s # x
    BY <1>2, <1>5 DEF Says
  <2>4. FinalStays(F, x)'
    BY <1>3, <2>1, <2>2, <2>3 DEF FinalStays, Launching
  <2>5. ErasedFinal(F, x)'
    BY <1>3 DEF ErasedFinal
  <2>6. ~GoesOn(x)'
    BY <1>3, <1>5, <2>2, <2>3 DEF GoesOn, Called
  <2>7. CompileFinished(x) \notin Called'
    BY <1>3, <1>5 DEF Compiling, Called
  <2>8. Prospers(x)'
    BY <1>3, <2>6, <2>7 DEF Prospers
  <2> QED BY <2>4, <2>5, <2>8 DEF KeepsDone
<1>11. \A s \in Script : KeepsDone(F, s)
  BY <1>9, <1>10
<1>12. \A g \in Said' : Rebuilds(F, g)'
  <2> SUFFICES ASSUME NEW g \in Said' PROVE Rebuilds(F, g)'
    OBVIOUS
  <2>1. g \in Said
    BY <1>2 DEF Says
  <2>2. Rebuilds(F, g)
    BY <1>6, <2>1 DEF DoneWith, Finality
  <2>3. g.at = "lock" => workId'[g.s] = workId[g.s]
    BY <1>2, <1>4, <1>5, <2>1, OneSays
  <2> QED BY <2>2, <2>3 DEF Rebuilds
<1>13. \A s, w : Posted(s, w)' => Posted(s, w)
  BY <1>3, CallsSame
<1>14. \A w \in Worker : AwaitsRest(F, w)'
  BY <1>2, <1>3, <1>8, <1>13, BuildAwaits
<1> QED
  <2>1. PICK Z : Z = {}
    OBVIOUS
  <2>2. Says({f}, Z) /\ \A g \in Z : TellsFinal(F, g)
    BY <1>2, <2>1
  <2> QED BY ONLY <1>8, <1>11, <1>12, <1>14, <2>2, DoneStep

(* A dependency is final, or broken and then the script that waits for it    *)
(* is broken too; if it has been compiled, that script is not final.         *)
LEMMA EraseDependencyDone ==
  ASSUME BuildAssumption, InOrder, InHand, Done, NEW t \in Thread, EraseDependency(t)
  PROVE  Done'
<1>1. PICK f, x, y : f = Top(t) /\ x = f.s /\ y = f.dep
  OBVIOUS
<1>2. f \in Said /\ f.at = "erase" /\ x \in Script /\ y \in Script /\ Build(t)
  BY <1>1, EraseDependencySays DEF Build
<1>3. PICK k : k.at = "last" /\ Says({f}, {k})
  BY <1>1, EraseDependencySays
<1>4. /\ calls' = calls /\ compilers' = compilers /\ byteCode' = byteCode /\ upToDate' = upToDate
      /\ beingBuilt' = beingBuilt /\ workId' = workId /\ working' = working
      /\ buildDeps' = [buildDeps EXCEPT ![x] = @ \ {y}]
      /\ someDepsCompiled' = IF f.pid # None THEN someDepsCompiled \cup {x} ELSE someDepsCompiled
      /\ depsFailed' = IF f.ok THEN depsFailed ELSE depsFailed \cup {x}
  BY <1>1 DEF EraseDependency, files, flags, requests, workspace
<1>5. /\ \A s \in Script : s # x => buildDeps'[s] = buildDeps[s]
      /\ buildDeps'[x] = buildDeps[x] \ {y}
  BY <1>2, <1>4 DEF InOrder, Types, ProgressOK
<1>6. PICK F \in SUBSET Script : DoneWith(F)
  BY DoneIs
<1>7. F \subseteq F /\ F \subseteq Script /\ DoneWith(F) /\ upToDate' \subseteq Known(F)
  BY <1>4, <1>6 DEF DoneWith, Finality
<1>8. TellsFinal(F, f) /\ Rebuilds(F, f)
  BY <1>2, <1>6 DEF DoneWith, Finality
<1>9. x \in beingBuilt \ Unresolvable /\ y \in buildDeps[x] /\ y \in Uses[x]
  <2>1. PICK u \in Thread : f \in On(u)
    BY <1>2, SaidFrame
  <2>2. FrameClaims(f, u, "erase", y, x)
    BY <1>1, <1>2 DEF FrameClaims
  <2>3. HasClaim("erase", y, x)
    BY <2>1, <2>2 DEF HasClaim, InFrames
  <2>4. Expects(x, y)
    BY <1>2, <2>3 DEF InHand, Claimed, ClaimsExpected, ClaimKinds, Requester
  <2>5. y \in Uses[x]
    BY <1>1, <1>2, SaidFrame DEF Sound
  <2> QED BY <1>2, <2>4, <2>5 DEF Expects
<1>10. ASSUME NEW s \in Script, s # x PROVE KeepsDone(F, s)
  <2>1. Still(s)
    BY <1>4, <1>5, <1>10 DEF Still, Compiling, Called
  <2>2. SaysNoMore({f}, {k}, s)
    BY <1>2, <1>3 DEF SaysNoMore, Starts, Ends
  <2> QED BY ONLY <1>3, <1>7, <2>1, <2>2, s \in Script, StillKept
<1>11. KeepsDone(F, x)
  <2>1. FinalStays(F, x) /\ ErasedFinal(F, x) /\ Prospers(x)
    BY <1>2, <1>6 DEF DoneWith, Finality
  <2>2. /\ Launching(x)' => Launching(x)
        /\ Ending(x) => Ending(x)'
        /\ (\E g \in Said' : Starts(g, x)) => \E g \in Said : Starts(g, x)
    <3>1. \A g \in {k} : ~Starts(g, x) /\ ~(g.at = "launch" /\ g.s = x)
      BY <1>3 DEF Starts
    <3>2. ~Ends(f, x)
      BY <1>2 DEF Ends
    <3>3. \A g \in {f} : Ends(g, x) => \E h \in {k} : Ends(h, x)
      BY ONLY <3>2
    <3>4. Says({f}, {k})
      BY <1>3
    <3>5. (\A g \in {k} : ~(g.at = "launch" /\ g.s = x)) => (Launching(x)' => Launching(x))
      BY ONLY <3>4, SaysOfScript
    <3>6. (\A g \in {k} : ~Starts(g, x)) =>
            ((\E g \in Said' : Starts(g, x)) => \E g \in Said : Starts(g, x))
      BY ONLY <3>4, SaysOfScript
    <3>7. (\A g \in {f} : Ends(g, x) => \E h \in {k} : Ends(h, x)) => (Ending(x) => Ending(x)')
      BY ONLY <3>4, SaysOfScript
    <3> QED BY ONLY <3>1, <3>3, <3>5, <3>6, <3>7
  <2>3. Compiling(x)' <=> Compiling(x)
    BY <1>4, CompilingSame
  <2>4. x \in F => f.pid = None
    BY <1>1, <1>2, <1>8 DEF Rebuilds
  <2>5. FinalStays(F, x)'
    BY <1>4, <2>1, <2>2, <2>3, <2>4 DEF FinalStays
  <2>6. ErasedFinal(F, x)'
    <3>1. f.ok => y \in Known(F)
      BY <1>1, <1>2, <1>8 DEF TellsFinal
    <3> QED BY <1>4, <1>5, <2>1, <3>1 DEF ErasedFinal
  <2>7. ~GoesOn(x)
    BY <1>2, <1>9, GoesOnIs
  <2>8. ~GoesOn(x)'
    BY <1>4, <2>2, <2>3, <2>7 DEF GoesOn, Starts, Called
  <2>9. x \notin Broken => f.ok
    <3>1. ~f.ok => y \in Broken
      BY <1>1, <1>2, <1>8 DEF TellsFinal
    <3> QED BY <1>2, <1>9, <3>1, BrokenIs
  <2>10. Prospers(x)'
    BY <1>4, <1>9, <2>1, <2>2, <2>8, <2>9 DEF Prospers, Called
  <2> QED BY <2>5, <2>6, <2>10 DEF KeepsDone
<1>12. \A s \in Script : KeepsDone(F, s)
  BY <1>10, <1>11
<1>13. \A g \in {k} : TellsFinal(F, g) /\ Rebuilds(F, g)'
  BY <1>3 DEF TellsFinal, Rebuilds
<1>14. \A g \in Said' : Rebuilds(F, g)'
  BY <1>3, <1>4, <1>6, <1>13, RebuildsKept
<1>15. \A s, w : Posted(s, w)' => Posted(s, w)
  BY <1>4, CallsSame
<1>16. \A w \in Worker : AwaitsRest(F, w)'
  BY <1>2, <1>4, <1>7, <1>15, BuildAwaits
<1> QED BY ONLY <1>3, <1>7, <1>12, <1>13, <1>14, <1>16, DoneStep

(* When the last dependency is done, the script is compiled if none of them  *)
(* has failed.                                                               *)
LEMMA LastDependencyDone ==
  ASSUME BuildAssumption, InOrder, InHand, Done, NEW t \in Thread, LastDependency(t)
  PROVE  Done'
<1>1. PICK f, x : f = Top(t) /\ x = f.s
  OBVIOUS
<1>2. f \in Said /\ f.at = "last" /\ Build(t)
  BY <1>1, LastDependencySays DEF Build
<1>3. x \in Script /\ f.dep \in Uses[x]
  BY <1>1, <1>2, SaidFrame DEF Sound
<1>4. /\ compilers' = compilers /\ byteCode' = byteCode
      /\ beingBuilt' = beingBuilt /\ depsFailed' = depsFailed /\ upToDate' = upToDate
      /\ someDepsCompiled' = someDepsCompiled /\ buildDeps' = buildDeps
      /\ workId' = workId /\ working' = working
  BY DEF LastDependency, files, flags, requests, progress, workspace
<1>5. PICK F \in SUBSET Script : DoneWith(F)
  BY DoneIs
<1>6. F \subseteq F /\ F \subseteq Script /\ DoneWith(F) /\ upToDate' \subseteq Known(F)
  BY <1>4, <1>5 DEF DoneWith, Finality
<1>7. FinalStays(F, x) /\ ErasedFinal(F, x) /\ Prospers(x)
  BY <1>3, <1>5 DEF DoneWith, Finality
<1>8. CASE Says({f}, {}) /\ calls' = calls
  <2>1. \A s : Still(s) /\ SaysNoMore({f}, {}, s)
    BY <1>2, <1>4, <1>8, StillSame DEF SaysNoMore, Ends
  <2>2. \A s, w : Posted(s, w)' => Posted(s, w)
    BY <1>8, CallsSame
  <2>3. \A g \in {} : g.at \notin {"lock", "tell", "erase"}
    OBVIOUS
  <2> QED BY <1>2, <1>4, <1>8, <2>1, <2>2, <2>3, NothingDone
<1>9. CASE Says({f}, {}) /\ Post(BuildSelfThread(x)) /\ x \notin depsFailed
  <2>1. PICK c, S : c = BuildSelfThread(x) /\ S = DelayedCall
    OBVIOUS
  <2>2. c \in S /\ calls \in Seq(S) /\ calls' = Append(calls, c)
    BY <1>3, <1>9, <2>1 DEF BuildSelfThread, DelayedCall, Post, InOrder, Types, CallsOK
  <2>3. Called' = Called \cup {c}
    BY <2>2, ElemsAppend DEF Called
  <2>4. \A s : /\ CompileFinished(s) \in Called' => CompileFinished(s) \in Called
               /\ \A w : Posted(s, w)' => Posted(s, w)
               /\ s # x => (BuildSelfThread(s) \in Called' => BuildSelfThread(s) \in Called)
    <3>1. \A s : s # x => BuildSelfThread(s) # c
      BY <2>1 DEF BuildSelfThread
    <3> QED BY <2>1, <2>3, <3>1, CallKinds DEF Posted
  <2>5. ASSUME NEW s \in Script, s # x PROVE KeepsDone(F, s)
    <3>1. Still(s) /\ SaysNoMore({f}, {}, s)
      BY <1>2, <1>4, <2>4, <2>5 DEF Still, Compiling, SaysNoMore, Ends
    <3> QED BY ONLY <1>6, <1>9, <3>1, s \in Script, StillKept
  <2>6. KeepsDone(F, x)
    <3>1. /\ Launching(x)' => Launching(x)
          /\ Ending(x) => Ending(x)'
      <4>1. \A g \in {} : ~(g.at = "launch" /\ g.s = x)
        OBVIOUS
      <4>2. \A g \in {f} : Ends(g, x) => \E h \in {} : Ends(h, x)
        BY <1>2 DEF Ends
      <4> QED BY <1>9, <4>1, <4>2, SaysOfScript
    <3>2. Compiling(x)' => Compiling(x)
      BY <1>4, <2>4 DEF Compiling
    <3>3. FinalStays(F, x)'
      BY <1>4, <1>7, <3>1, <3>2 DEF FinalStays
    <3>4. ErasedFinal(F, x)'
      BY <1>4, <1>7 DEF ErasedFinal
    <3>5. Prospers(x)'
      BY <1>4, <1>7, <1>9, <2>4, <3>1 DEF Prospers
    <3> QED BY <3>3, <3>4, <3>5 DEF KeepsDone
  <2>7. \A s \in Script : KeepsDone(F, s)
    BY <2>5, <2>6
  <2>8. PICK Z : Z = {}
    OBVIOUS
  <2>9. Says({f}, Z) /\ \A g \in Z : TellsFinal(F, g) /\ Rebuilds(F, g)'
    BY <1>9, <2>8
  <2>10. \A g \in Said' : Rebuilds(F, g)'
    BY <1>4, <1>5, <2>9, RebuildsKept
  <2>11. \A w \in Worker : AwaitsRest(F, w)'
    BY <1>2, <1>4, <1>6, <2>4, BuildAwaits
  <2> QED BY ONLY <1>6, <2>7, <2>9, <2>10, <2>11, DoneStep
<1>10. CASE /\ \E k \in Frame : Completes(k, x, FALSE, None) /\ Says({f}, {k})
            /\ buildDeps[x] = {} /\ x \in depsFailed /\ calls' = calls
  <2>1. PICK k \in Frame : Completes(k, x, FALSE, None) /\ Says({f}, {k})
    BY <1>10
  <2>2. k.at = "lock" /\ k.s = x /\ k.ok = FALSE /\ k.pid = None
    BY <2>1 DEF Completes
  <2>3. x \in Broken
    <3>1. PICK u \in Thread : Here("last", x, u)
      BY <1>1, <1>2, SaidFrame
    <3>2. HasToken("last", x, u) /\ "last" \in TokenKinds /\ u \in Thread \cup {None}
      BY <1>10, <3>1 DEF HasToken, TokenKinds
    <3>3. x \in beingBuilt
      BY <1>3, <3>2 DEF InHand, GoingOn, TokensGoOn
    <3>4. ~Ending(x)
      <4> SUFFICES ASSUME NEW g \in Said, Ends(g, x) PROVE FALSE
        BY DEF Ending
      <4>1. PICK v \in Thread : Here(g.at, x, v)
        BY SaidFrame DEF Ends
      <4>2. HasToken(g.at, x, v) /\ g.at \in TokenKinds /\ v \in Thread \cup {None} /\ g.at # "last"
        BY <4>1 DEF HasToken, TokenKinds, Ends
      <4> QED BY <1>3, <3>2, <4>2 DEF InHand, GoingOn, OneToken
    <3> QED BY <1>3, <1>7, <1>10, <3>3, <3>4 DEF Prospers
  <2>4. ASSUME NEW s \in Script, s # x PROVE KeepsDone(F, s)
    <3>1. Still(s)
      BY <1>4, <1>10, StillSame
    <3>2. SaysNoMore({f}, {k}, s)
      BY <1>2, <2>2 DEF SaysNoMore, Starts, Ends
    <3> QED BY ONLY <1>6, <2>1, <3>1, <3>2, s \in Script, StillKept
  <2>5. KeepsDone(F, x)
    <3>1. Still(x)
      BY <1>4, <1>10, StillSame
    <3>2. SaysNoMore({f}, {k}, x)
      BY <1>2, <2>2 DEF SaysNoMore, Starts, Ends
    <3> QED BY ONLY <1>3, <1>6, <2>1, <3>1, <3>2, StillKept
  <2>6. \A s \in Script : KeepsDone(F, s)
    BY <2>4, <2>5
  <2>7. \A g \in {k} : TellsFinal(F, g) /\ Rebuilds(F, g)'
    BY <2>2, <2>3 DEF TellsFinal, Rebuilds
  <2>8. \A g \in Said' : Rebuilds(F, g)'
    BY <1>4, <1>5, <2>1, <2>7, RebuildsKept
  <2>9. \A s, w : Posted(s, w)' => Posted(s, w)
    BY <1>10, CallsSame
  <2>10. \A w \in Worker : AwaitsRest(F, w)'
    BY <1>2, <1>4, <1>6, <2>9, BuildAwaits
  <2> QED BY ONLY <1>6, <2>1, <2>6, <2>7, <2>8, <2>10, DoneStep
<1> QED BY <1>1, <1>8, <1>9, <1>10, LastDependencySays
-----------------------------------------------------------------------------
(* The threads of the projects and of the user interface.                    *)
LEMMA NothingSaidDone ==
  ASSUME NEW F \in SUBSET Script, DoneWith(F), Said' = Said,
         compilers' = compilers, byteCode' = byteCode, beingBuilt' = beingBuilt,
         depsFailed' = depsFailed, someDepsCompiled' = someDepsCompiled, buildDeps' = buildDeps,
         workId' = workId, upToDate' \subseteq upToDate,
         \A s : /\ CompileFinished(s) \in Called' => CompileFinished(s) \in Called
                /\ BuildSelfThread(s) \in Called' => BuildSelfThread(s) \in Called,
         \A w \in Worker : AwaitsRest(F, w)'
  PROVE  Done'
<1>1. PICK Z : Z = {}
  OBVIOUS
<1>2. Says(Z, Z) /\ \A s : SaysNoMore(Z, Z, s)
  BY <1>1 DEF Says, SaysNoMore
<1>3. F \subseteq F /\ F \subseteq Script /\ DoneWith(F) /\ upToDate' \subseteq Known(F)
  BY DEF DoneWith, Finality
<1>4. ASSUME NEW s \in Script PROVE KeepsDone(F, s)
  <2>1. Still(s)
    BY DEF Still, Compiling
  <2>2. SaysNoMore(Z, Z, s) /\ (s \in F => s \in F)
    BY <1>2
  <2> QED BY ONLY <1>2, <1>3, <2>1, <2>2, s \in Script, StillKept
<1>5. \A g \in Z : TellsFinal(F, g) /\ Rebuilds(F, g)'
  BY <1>1
<1>6. \A g \in Said : g.at = "lock" => workId'[g.s] = workId[g.s]
  OBVIOUS
<1>7. \A g \in Said' : Rebuilds(F, g)'
  BY ONLY <1>2, <1>3, <1>5, <1>6, RebuildsKept
<1>8. \A s \in Script : KeepsDone(F, s)
  BY <1>4
<1>9. \A w \in Worker : AwaitsRest(F, w)'
  OBVIOUS
<1> QED BY ONLY <1>2, <1>3, <1>5, <1>7, <1>8, <1>9, DoneStep

(* A thread is started for a script that goes on.                            *)
LEMMA StartBuildSelfThreadDone ==
  ASSUME BuildAssumption, InOrder, InHand, Done, NEW x \in Script, NEW p \in Pool,
         StartBuildSelfThread(x, p)
  PROVE  Done'
<1>1. PICK k : Compiles(k, "check", x) /\ Says({}, {k})
  BY StartBuildSelfThreadSays
<1>2. k.at = "check" /\ k.s = x
  BY <1>1 DEF Compiles
<1>3. /\ compilers' = compilers /\ byteCode' = byteCode /\ beingBuilt' = beingBuilt
      /\ depsFailed' = depsFailed /\ upToDate' = upToDate /\ someDepsCompiled' = someDepsCompiled
      /\ buildDeps' = buildDeps /\ workId' = workId /\ working' = working /\ busy' = busy
  BY DEF StartBuildSelfThread, files, flags, requests, progress, workspace
<1>4. Called' = Called \ {BuildSelfThread(x)} /\ BuildSelfThread(x) \in Called
  <2>1. Calling(BuildSelfThread(x)) /\ BuildSelfThread(x) # WorkCompleted
    BY CallKinds DEF StartBuildSelfThread
  <2> QED BY <2>1, CallMade DEF InOrder, InHand, GoingOn
<1>5. GoesOn(x)
  BY <1>4 DEF GoesOn
<1>6. PICK F \in SUBSET Script : DoneWith(F)
  BY DoneIs
<1>7. F \subseteq F /\ F \subseteq Script /\ DoneWith(F) /\ upToDate' \subseteq Known(F)
  BY <1>3, <1>6 DEF DoneWith, Finality
<1>8. \A s : Still(s)
  BY <1>3, <1>4 DEF Still, Compiling
<1>9. ASSUME NEW s \in Script, s # x PROVE KeepsDone(F, s)
  <2>1. SaysNoMore({}, {k}, s) /\ (s \in F => s \in F) /\ Still(s)
    BY <1>2, <1>8, <1>9 DEF SaysNoMore, Starts
  <2> QED BY ONLY <1>1, <1>7, <2>1, s \in Script, StillKept
<1>10. KeepsDone(F, x)
  <2>1. FinalStays(F, x) /\ ErasedFinal(F, x) /\ Prospers(x)
    BY <1>6 DEF DoneWith, Finality
  <2>2. ~(k.at = "launch" /\ k.s = x)
    BY <1>2
  <2>3. /\ Launching(x)' => Launching(x)
        /\ Ending(x) => Ending(x)'
    <3>1. Launching(x)' => Launching(x)
      BY <1>1, <2>2 DEF Launching, Says
    <3>2. Said \subseteq Said'
      BY <1>1 DEF Says
    <3> QED BY <3>1, <3>2 DEF Ending, Ends
  <2>4. FinalStays(F, x)'
    BY <1>3, <1>8, <2>1, <2>3 DEF FinalStays, Still
  <2>5. ErasedFinal(F, x)'
    BY <1>3, <2>1 DEF ErasedFinal
  <2>6. Prospers(x)'
    BY <1>3, <1>5, <1>8, <2>1, <2>3 DEF Prospers, Still
  <2> QED BY <2>4, <2>5, <2>6 DEF KeepsDone
<1>11. \A s \in Script : KeepsDone(F, s)
  BY <1>9, <1>10
<1>12. \A g \in {k} : TellsFinal(F, g) /\ Rebuilds(F, g)'
  BY <1>2 DEF TellsFinal, Rebuilds
<1>13. PICK Z : Z = {}
  OBVIOUS
<1>14. Says(Z, {k})
  BY <1>1, <1>13
<1>15. \A g \in Said : g.at = "lock" => workId'[g.s] = workId[g.s]
  BY <1>3
<1>16. \A g \in {k} : Rebuilds(F, g)'
  BY <1>12
<1>17. \A g \in Said' : Rebuilds(F, g)'
  BY ONLY <1>7, <1>14, <1>15, <1>16, RebuildsKept
<1>18. \A w \in Worker : AwaitsRest(F, w)'
  <2>1. \A w \in Worker : stack'[w] = stack[w]
    BY DEF StartBuildSelfThread, InOrder, Types, Stacks, Thread, BuildAssumption
  <2>2. \A w \in Worker : Starting(w) => Starting(w)'
    BY <2>1 DEF Starting, On
  <2>3. \A s, w : Posted(s, w)' => Posted(s, w)
    BY <1>4 DEF Posted
  <2> QED BY <1>3, <1>7, <2>2, <2>3, AwaitsKept
<1> QED BY ONLY <1>7, <1>11, <1>12, <1>14, <1>17, <1>18, DoneStep

LEMMA OnlyOver ==
  ASSUME Called' \subseteq Called \cup {WorkCompleted}
  PROVE  \A s : /\ CompileFinished(s) \in Called' => CompileFinished(s) \in Called
                /\ BuildSelfThread(s) \in Called' => BuildSelfThread(s) \in Called
                /\ \A w : Posted(s, w)' => Posted(s, w)
<1>1. ASSUME NEW s
      PROVE  /\ CompileFinished(s) # WorkCompleted /\ BuildSelfThread(s) # WorkCompleted
             /\ \A w : ResourceWorkCompleted(s, w) # WorkCompleted
  BY ONLY CallKinds
<1> QED BY <1>1 DEF Posted

LEMMA OnWorkCompletedDone ==
  ASSUME BuildAssumption, InOrder, InHand, Done, OnWorkCompleted
  PROVE  Done'
<1>1. /\ compilers' = compilers /\ byteCode' = byteCode /\ beingBuilt' = beingBuilt
      /\ depsFailed' = depsFailed /\ upToDate' = {} /\ someDepsCompiled' = someDepsCompiled
      /\ buildDeps' = buildDeps /\ workId' = workId /\ working' = working /\ busy' = busy
      /\ stack' = stack
  BY DEF OnWorkCompleted, files, flags, requests, progress, workspace
<1>2. Called' \subseteq Called \cup {WorkCompleted}
  BY CallGone DEF OnWorkCompleted, InOrder
<1>3. \A s : /\ CompileFinished(s) \in Called' => CompileFinished(s) \in Called
             /\ BuildSelfThread(s) \in Called' => BuildSelfThread(s) \in Called
             /\ \A w : Posted(s, w)' => Posted(s, w)
  BY ONLY <1>2, OnlyOver
<1>4. Said' = Said
  BY <1>1, SaidSame
<1>5. PICK F \in SUBSET Script : DoneWith(F)
  BY DoneIs
<1>6. \A w \in Worker : AwaitsRest(F, w)'
  <2>1. \A w \in Worker : Starting(w) => Starting(w)'
    BY <1>1 DEF Starting, On
  <2> QED BY <1>1, <1>3, <1>5, <2>1, AwaitsKept
<1>7. upToDate' \subseteq upToDate
  BY <1>1
<1> QED BY <1>1, <1>3, <1>4, <1>5, <1>6, <1>7, NothingSaidDone

(* A project hears that a script is done, which is final if it is not        *)
(* broken.                                                                   *)
LEMMA OnResourceWorkCompletedDone ==
  ASSUME BuildAssumption, InOrder, InHand, Done, NEW x \in Script, NEW w \in Worker,
         OnResourceWorkCompleted(x, w)
  PROVE  Done'
<1>1. /\ compilers' = compilers /\ byteCode' = byteCode /\ beingBuilt' = beingBuilt
      /\ depsFailed' = depsFailed /\ upToDate' = upToDate /\ someDepsCompiled' = someDepsCompiled
      /\ buildDeps' = buildDeps /\ workId' = workId /\ stack' = stack
      /\ working' = [working EXCEPT ![w] = @ \ {x}]
      /\ busy' => busy
      /\ Types /\ CalledOnce
  BY DEF OnResourceWorkCompleted, files, flags, requests, progress, InOrder, InHand, GoingOn
<1>2. PICK c, over : /\ c = ResourceWorkCompleted(x, w)
                     /\ over = (busy /\ working[w] = {x} /\ \A v \in Worker \ {w} : ~Waits(v))
  OBVIOUS
<1>3. /\ calls # <<>> /\ Head(calls) = c
      /\ calls' = Tail(calls) \o (IF over THEN <<WorkCompleted>> ELSE <<>>)
  BY <1>2 DEF OnResourceWorkCompleted
<1>4. c # WorkCompleted
  BY <1>2, CallKinds
<1>5. Called' \subseteq (Called \ {c}) \cup {WorkCompleted}
  BY ONLY <1>1, <1>3, <1>4, CallsAfter
<1>6. Called' \subseteq Called \cup {WorkCompleted}
  BY <1>5
<1>7. \A s : /\ CompileFinished(s) \in Called' => CompileFinished(s) \in Called
             /\ BuildSelfThread(s) \in Called' => BuildSelfThread(s) \in Called
             /\ \A v : Posted(s, v)' => Posted(s, v)
  BY ONLY <1>6, OnlyOver
<1>8. Said' = Said
  BY <1>1, SaidSame
<1>9. PICK F \in SUBSET Script : DoneWith(F)
  BY DoneIs
<1>10. Posted(x, w)
  <2>1. calls \in Seq(DelayedCall)
    BY <1>1 DEF Types, CallsOK
  <2>2. c \in Called
    BY <1>3, <2>1, ElemsIn DEF Called
  <2> QED BY <1>2, <2>2 DEF Posted
<1>11. \A v \in Worker : Starting(v)' <=> Starting(v)
  BY <1>1 DEF Starting, On
<1>12. ASSUME NEW v \in Worker PROVE AwaitsRest(F, v)'
  <2>1. AwaitsRest(F, v)
    BY <1>9 DEF DoneWith, Finality
  <2>2. \A s \in working[v] : s \in working'[v] \/ (v = w /\ s = x)
    BY <1>1 DEF Types, WorkspaceOK
  <2>3. v = w => \A s \in ChildrenOf(v) \ Broken : s = x => s \in F
    BY <1>10, <2>1 DEF AwaitsRest
  <2> QED BY <1>1, <1>7, <1>11, <2>1, <2>2, <2>3 DEF AwaitsRest
<1>13. upToDate' \subseteq upToDate
  BY <1>1
<1> QED BY ONLY <1>1, <1>7, <1>8, <1>9, <1>12, <1>13, NothingSaidDone

(* The worker notes what its project waits for.                              *)
LEMMA WorkerDone ==
  ASSUME BuildAssumption, InOrder, InHand, Done, NEW w \in Worker, WorkStarts(w) \/ AskNext(w)
  PROVE  Done'
<1>1. Said' = Said
  BY WorkStartsSays, AskNextSays
<1>2. /\ compilers' = compilers /\ byteCode' = byteCode /\ beingBuilt' = beingBuilt
      /\ depsFailed' = depsFailed /\ upToDate' = upToDate /\ someDepsCompiled' = someDepsCompiled
      /\ buildDeps' = buildDeps /\ workId' = workId /\ calls' = calls /\ busy' = busy
  <2>1. CASE WorkStarts(w)
    BY <2>1 DEF WorkStarts, files, flags, requests, progress
  <2>2. CASE AskNext(w)
    BY <2>2 DEF AskNext, files, flags, requests, progress, workspace
  <2> QED BY <2>1, <2>2
<1>3. PICK F \in SUBSET Script : DoneWith(F)
  BY DoneIs
<1>4. Types /\ w \in Thread
  BY DEF InOrder, Thread
<1>5. \A s, v : Posted(s, v)' => Posted(s, v)
  BY <1>2, CallsSame
<1>6. ASSUME NEW v \in Worker, v # w PROVE AwaitsRest(F, v)'
  <2>1. stack'[v] = stack[v] /\ working'[v] = working[v]
    <3>0. v \in Thread /\ Stacks
      BY <1>4 DEF Thread, Types
    <3>1. CASE WorkStarts(w)
      BY <1>4, <1>6, <3>0, <3>1 DEF WorkStarts, Become, Stacks, Types, WorkspaceOK
    <3>2. CASE AskNext(w)
      BY <1>4, <1>6, <3>0, <3>2 DEF AskNext, Return, Stacks, workspace
    <3> QED BY <3>1, <3>2
  <2>2. Starting(v) => Starting(v)'
    BY <2>1 DEF Starting, On
  <2> QED BY <1>2, <1>3, <1>5, <2>1, <2>2, AwaitsKept
<1>7. AwaitsRest(F, w)'
  <2>1. AwaitsRest(F, w)
    BY <1>3 DEF DoneWith, Finality
  <2>2. CASE WorkStarts(w)
    <3>1. working'[w] = ChildrenOf(w)
      BY <1>4, <2>2 DEF WorkStarts, Types, WorkspaceOK
    <3> QED BY <1>5, <2>1, <3>1 DEF AwaitsRest
  <2>3. CASE AskNext(w)
    <3>1. ~Starting(w)
      <4>1. ~At(w, "start")
        BY <2>3 DEF AskNext, At
      <4> QED BY <4>1, StartingIs
    <3>2. working' = working
      BY <2>3 DEF AskNext, workspace
    <3> QED BY <1>2, <1>5, <2>1, <3>1, <3>2 DEF AwaitsRest
  <2> QED BY <2>2, <2>3
<1>8. \A v \in Worker : AwaitsRest(F, v)'
  BY <1>6, <1>7
<1>9. \A s : /\ CompileFinished(s) \in Called' => CompileFinished(s) \in Called
             /\ BuildSelfThread(s) \in Called' => BuildSelfThread(s) \in Called
  BY <1>2 DEF Called
<1> QED BY <1>1, <1>2, <1>3, <1>8, <1>9, NothingSaidDone

(* Nothing is being built when nobody builds: a script is built for one that *)
(* waits for it or for a project, and no chain of uses is endless.           *)
LEMMA HighestScript ==
  ASSUME BuildAssumption, NEW rank \in Ranking, NEW B \in SUBSET Script, B # {}
  PROVE  \E s \in B : \A r \in B : ~(rank[s] < rank[r])
<1> DEFINE Above(s) == {r \in Script : rank[s] < rank[r]}
           Sets == {Above(s) : s \in B}
<1>1. Sets \subseteq FiniteSubsetsOf(Script) /\ Sets # {}
  <2>1. ASSUME NEW s \in B PROVE Above(s) \in FiniteSubsetsOf(Script)
    <3>1. Above(s) \in SUBSET Script /\ IsFiniteSet(Script)
      BY DEF BuildAssumption
    <3> HIDE DEF Above
    <3>2. IsFiniteSet(Above(s))
      BY <3>1, FS_Subset
    <3> QED BY <3>1, <3>2 DEF FiniteSubsetsOf
  <2> HIDE DEF Above
  <2> QED BY <2>1
<1>2. IsWellFoundedOn(StrictSubsetOrdering(Script), FiniteSubsetsOf(Script))
  BY FS_StrictSubsetOrderingWellFounded
<1>3. PICK A \in Sets : \A C \in Sets : ~ (<<C, A>> \in StrictSubsetOrdering(Script))
  <2> HIDE DEF Sets
  <2> QED BY <1>1, <1>2, WFMin
<1>4. PICK s \in B : A = Above(s)
  OBVIOUS
<1>5. ASSUME NEW r \in B, rank[s] < rank[r] PROVE FALSE
  <2>1. \A x \in Script : rank[x] \in Nat
    BY DEF Ranking
  <2>2. Above(r) \subseteq Above(s) /\ r \in Above(s) /\ r \notin Above(r)
    BY <1>5, <2>1
  <2>3. <<Above(r), Above(s)>> \in StrictSubsetOrdering(Script)
    BY <2>2 DEF StrictSubsetOrdering
  <2> QED BY <1>3, <1>4, <2>3
<1> QED BY <1>5

LEMMA NothingBegun ==
  ASSUME BuildAssumption, InOrder, InHand, ~busy, \A t \in Thread : stack[t] = <<>>
  PROVE  beingBuilt = {}
<1>1. beingBuilt \subseteq Script /\ Types
  BY DEF InOrder, Types, FlagsOK
<1>2. \A w \in Worker : working[w] = {}
  BY DEF InHand, ProjectsWait
<1>3. ASSUME NEW s \in beingBuilt PROVE workId[s] \in beingBuilt /\ s \in Uses[workId[s]]
  <2>1. s \in Script /\ workId[s] \in Requester
    BY <1>1, <1>3 DEF InHand, Flags, Types, RequestsOK
  <2>2. ~Doing("tell", s)
    BY DEF Doing, Here, On, Elems
  <2>3. HasClaim("noted", s, workId[s])
    BY <2>2 DEF HasClaim, Notes
  <2>4. Expects(workId[s], s)
    BY <2>1, <2>3 DEF InHand, Claimed, ClaimsExpected, ClaimKinds
  <2>5. workId[s] \in Script
    BY <1>2, <2>1, <2>4 DEF Expects, Requester
  <2> QED BY <2>4, <2>5 DEF Expects, InOrder, RequestsUse
<1>4. SUFFICES ASSUME beingBuilt # {} PROVE FALSE
  OBVIOUS
<1>5. PICK rank \in Ranking : TRUE
  BY DEF BuildAssumption
<1>6. PICK s \in beingBuilt : \A r \in beingBuilt : ~(rank[s] < rank[r])
  BY <1>1, <1>4, HighestScript
<1>7. rank[s] < rank[workId[s]]
  BY <1>1, <1>3 DEF Ranking
<1> QED BY <1>3, <1>6, <1>7

(* A build starts with nothing built.                                        *)
LEMMA StartWorkingDone ==
  ASSUME BuildAssumption, InOrder, InHand, Done, StartWorking
  PROVE  Done'
<1>1. ~busy /\ \A t \in Thread : stack[t] = <<>>
  BY DEF StartWorking
<1>2. beingBuilt = {} /\ \A w \in Worker : working[w] = {}
  BY <1>1, NothingBegun DEF InHand, ProjectsWait
<1>3. /\ compilers' = compilers /\ beingBuilt' = beingBuilt /\ depsFailed' = depsFailed
      /\ upToDate' = {} /\ someDepsCompiled' = someDepsCompiled /\ buildDeps' = buildDeps
      /\ workId' = workId /\ working' = working /\ calls' = calls
  BY DEF StartWorking, requests, progress
<1>4. Said = {} /\ Said' = {}
  <2>1. Said = {}
    BY <1>1 DEF Said, On, Elems
  <2> QED BY <2>1, StartWorkingSays
<1>5. \A s \in Script : ~GoesOn(s)
  BY <1>2, GoesOnIs
<1>6. \A s \in Script : Prospers(s)'
  <2> TAKE s \in Script
  <2>1. Prospers(s) /\ ~GoesOn(s)
    BY <1>5 DEF Done
  <2>2. ~GoesOn(s)'
    BY <1>3, <1>4, <2>1 DEF GoesOn, Compiling, Called
  <2>3. CompileFinished(s) \notin Called'
    BY <1>3, <2>1 DEF GoesOn, Compiling, Called
  <2> QED BY <1>2, <1>3, <2>1, <2>2, <2>3 DEF Prospers
<1>7. PICK F \in SUBSET Script : F = {}
  OBVIOUS
<1>8. \A s \in Script : FinalStays(F, s)' /\ ErasedFinal(F, s)'
  BY <1>2, <1>3, <1>7 DEF FinalStays, ErasedFinal
<1>9. \A f \in Said' : TellsFinal(F, f)' /\ Rebuilds(F, f)'
  BY <1>4
<1>10. ASSUME NEW w \in Worker PROVE AwaitsRest(F, w)'
  <2>1. Starting(w)'
    <3>1. PICK k : k = WorkThread
      OBVIOUS
    <3>2. stack'[w] = <<k>> /\ k.at = "start"
      BY <3>1 DEF StartWorking, Thread, WorkThread
    <3> QED BY <3>2 DEF Starting, On, Elems
  <2>2. ASSUME NEW s \in Script PROVE ~Posted(s, w)'
    <3>1. SUFFICES ASSUME Posted(s, w) PROVE FALSE
      BY <1>3 DEF Posted, Called
    <3>2. HasClaim("posted", s, w) /\ w \in Requester /\ w \notin Script
      BY <3>1 DEF HasClaim, Requester, BuildAssumption
    <3>3. Expects(w, s)
      BY <3>2 DEF InHand, Claimed, ClaimsExpected, ClaimKinds
    <3> QED BY <1>2, <3>2, <3>3 DEF Expects
  <2>3. ChildrenOf(w) \subseteq Script
    BY DEF ChildrenOf, BuildAssumption
  <2> QED BY <2>1, <2>2, <2>3 DEF AwaitsRest
<1>11. Finality(F)'
  BY <1>3, <1>8, <1>9, <1>10 DEF Finality
<1> QED BY <1>6, <1>11 DEF Done
-----------------------------------------------------------------------------
(* The invariant, with what has been built for good.                         *)
LEMMA NextDone ==
  ASSUME BuildAssumption, InOrder, InHand, Done, Next, ~CancelWork, ~spoilt'
  PROVE  Done'
<1>1. ASSUME NEW t \in Thread, Build(t) PROVE Done'
  <2>1. CASE LockBuild(t) \/ AddBuildPseudoInitiator(t) \/ BuildDependency(t) \/ LeaveBuild(t)
             \/ UnlockComp(t)
    BY <2>1, MovesDone
  <2>2. CASE TestUpToDate(t) \/ StartBuild(t)
    BY <2>2, TestUpToDateDone, StartBuildDone
  <2>3. CASE CheckByteCode(t) \/ LaunchCompiler(t) \/ LaunchFails(t) \/ SetCompilerPid(t)
    BY <2>3, CheckByteCodeDone, LaunchCompilerDone, LaunchFailsDone, SetCompilerPidDone
  <2>4. CASE LockDone(t) \/ TellRequester(t) \/ BuildIsCompleted(t)
    BY <2>4, LockDoneDone, TellRequesterDone, BuildIsCompletedDone
  <2>5. CASE EraseDependency(t) \/ LastDependency(t)
    BY <2>5, EraseDependencyDone, LastDependencyDone
  <2> QED BY <1>1, <2>1, <2>2, <2>3, <2>4, <2>5 DEF Build
<1>2. ASSUME NEW w \in Worker, WorkStarts(w) \/ AskNext(w) PROVE Done'
  BY <1>2, WorkerDone
<1>3. ASSUME NEW s \in Script, CompilerEnds(s) PROVE Done'
  BY <1>3, CompilerEndsDone
<1>4. CASE MakeCall
  BY <1>4, OnCompileFinishedDone, OnResourceWorkCompletedDone, StartBuildSelfThreadDone,
     OnWorkCompletedDone DEF MakeCall
<1>5. CASE StartWorking
  BY <1>5, StartWorkingDone
<1>6. ~CancelStep
  <2>1. \A where \in CancelKinds : ~At(Gui, where)
    BY NobodyCancels
  <2> QED BY <2>1 DEF CancelStep, CancelKinds, CancelScript, CancelProject, Signals, ResetUpToDate,
                      JoinWorker, WorkCanceled, TerminateCompilers, TerminateDependency, LeaveTerminate
<1> QED BY <1>1, <1>2, <1>3, <1>4, <1>5, <1>6 DEF Next

LEMMA InitDone ==
  ASSUME BuildAssumption, Init
  PROVE  Done
<1>1. /\ \A t \in Thread : stack[t] = <<>>
      /\ calls = <<>> /\ compilers = {} /\ beingBuilt = {} /\ upToDate = {} /\ ~busy
      /\ depsFailed = Script /\ someDepsCompiled = {}
  BY DEF Init
<1>2. Said = {} /\ Called = {}
  BY <1>1 DEF Said, Called, On, Elems
<1>3. \A s \in Script : Prospers(s)
  BY <1>1, <1>2 DEF Prospers, GoesOn, Compiling
<1>4. PICK F \in SUBSET Script : F = {}
  OBVIOUS
<1>5. Finality(F)
  BY <1>1, <1>2, <1>4 DEF Finality, FinalStays, ErasedFinal, AwaitsRest, Posted
<1> QED BY <1>3, <1>5 DEF Done

DoneInvariant == Invariant /\ (spoilt \/ (Live => Done))

LEMMA NothingDoneStays ==
  ASSUME UNCHANGED vars, Done
  PROVE  Done'
<1>1. /\ stack' = stack /\ compilers' = compilers /\ calls' = calls /\ byteCode' = byteCode
      /\ beingBuilt' = beingBuilt /\ depsFailed' = depsFailed /\ upToDate' = upToDate
      /\ someDepsCompiled' = someDepsCompiled /\ buildDeps' = buildDeps /\ workId' = workId
      /\ working' = working /\ busy' = busy
  BY DEF vars, files, flags, requests, progress, workspace
<1>2. Said' = Said /\ Called' = Called
  BY <1>1, SaidSame DEF Called
<1>3. PICK F \in SUBSET Script : DoneWith(F)
  BY DoneIs
<1>4. \A w \in Worker : AwaitsRest(F, w)'
  BY <1>1, <1>2, <1>3 DEF DoneWith, Finality, AwaitsRest, Starting, On, Posted
<1> QED BY <1>1, <1>2, <1>3, <1>4, NothingSaidDone

LEMMA StaysDone ==
  ASSUME BuildAssumption, InOrder, Sane, Live => Done, [Next]_vars, ~spoilt'
  PROVE  Live' => Done'
<1>1. (Live => InHand /\ Done) /\ CancelsAlone
  BY DEF Sane
<1>2. CASE UNCHANGED vars
  BY <1>1, <1>2, NothingHappens, NothingDoneStays
<1>3. CASE Next /\ ~Live
  BY <1>1, <1>3, AfterLast
<1>4. CASE CancelWork
  BY <1>1, <1>4, CancelBegins
<1>5. CASE Next /\ Live /\ ~CancelWork
  BY <1>1, <1>5, NextDone
<1>6. UNCHANGED vars \/ (Next /\ ~Live) \/ CancelWork \/ (Next /\ Live /\ ~CancelWork)
  OBVIOUS
<1> QED BY <1>2, <1>3, <1>4, <1>5, <1>6

LEMMA NextDoneInvariant ==
  ASSUME BuildAssumption, DoneInvariant, [Next]_vars
  PROVE  DoneInvariant'
<1>0. Invariant /\ (spoilt \/ (Live => Done))
  BY Zenon DEF DoneInvariant
<1>1. Invariant'
  BY <1>0, NextInvariant
<1>2. InOrder /\ spoilt \in BOOLEAN /\ (spoilt \/ Sane)
  BY <1>0, SoundIsSane
<1>3. CASE spoilt
  <2>1. spoilt'
    BY <1>2, <1>3, SpoiltStays
  <2> QED BY <1>1, <2>1, Zenon DEF DoneInvariant
<1>4. CASE Sane /\ (Live => Done)
  <2>1. ~spoilt' => (Live' => Done')
    BY <1>2, <1>4, StaysDone
  <2> QED BY <1>1, <2>1, Zenon DEF DoneInvariant
<1> QED BY <1>0, <1>2, <1>3, <1>4, Zenon

LEMMA SoundIsDone ==
  ASSUME BuildAssumption, DoneInvariant, Soundly
  PROVE  InOrder /\ InHand /\ Done /\ busy /\ ~spoilt
<1>1. Invariant /\ (spoilt \/ (Live => Done))
  BY Zenon DEF DoneInvariant
<1>2. InOrder /\ Live /\ InHand
  BY <1>1, SoundIsSane
<1>3. ~spoilt /\ busy
  BY Zenon DEF Soundly, Working
<1> QED BY <1>1, <1>2, <1>3, Zenon

LEMMA FinalIsDone ==
  ASSUME BuildAssumption, InOrder, InHand, NEW F, DoneWith(F), NEW s \in Script, s \in F
  PROVE  s \in byteCode /\ s \notin compilers
BY DEF DoneWith, Finality, FinalStays, Compiling

LEMMA AwaitedOrFinal ==
  ASSUME BuildAssumption, InOrder, InHand, NEW F, DoneWith(F), busy,
         NEW w \in Worker, NEW s \in ChildrenOf(w) \ Broken
  PROVE  s \in Script /\ (At(w, "start") \/ s \in working[w] \/ s \in F)
<1>1. AwaitsRest(F, w)
  BY DEF DoneWith, Finality
<1>2. s \in Script
  BY DEF ChildrenOf, BuildAssumption
<1>3. Starting(w) => At(w, "start")
  BY StartingIs
<1> QED BY <1>1, <1>2, <1>3 DEF AwaitsRest

(* Only the last notice to the last project ends a build that nobody         *)
(* cancels.                                                                  *)
LEMMA WhoEndsBuild ==
  ASSUME BuildAssumption, InOrder, InHand, Next, busy, ~busy'
  PROVE  \E s \in Script, w \in Worker :
           /\ OnResourceWorkCompleted(s, w) /\ working[w] = {s}
           /\ \A v \in Worker \ {w} : ~Waits(v)
<1>1. ASSUME NEW t \in Thread, Build(t) PROVE FALSE
  BY <1>1, BuildElsewhere DEF InOrder, Types
<1>2. ASSUME NEW w \in Worker, WorkStarts(w) \/ AskNext(w) PROVE FALSE
  <2>1. CASE WorkStarts(w)
    BY <2>1 DEF WorkStarts
  <2>2. CASE AskNext(w)
    BY <2>2 DEF AskNext, workspace
  <2> QED BY <1>2, <2>1, <2>2
<1>3. ASSUME NEW s \in Script, CompilerEnds(s) PROVE FALSE
  BY <1>3 DEF CompilerEnds, workspace
<1>4. ~CancelStep
  <2>1. \A where \in CancelKinds : ~At(Gui, where)
    BY NobodyCancels
  <2> QED BY <2>1 DEF CancelStep, CancelKinds, CancelScript, CancelProject, Signals, ResetUpToDate,
                      JoinWorker, WorkCanceled, TerminateCompilers, TerminateDependency, LeaveTerminate
<1>5. ~StartWorking /\ ~CancelWork
  BY DEF StartWorking, CancelWork, workspace
<1>6. CASE MakeCall
  <2>1. ASSUME NEW s \in Script, OnCompileFinished(s) PROVE FALSE
    BY <2>1 DEF OnCompileFinished, workspace
  <2>2. ASSUME NEW s \in Script, NEW p \in Pool, StartBuildSelfThread(s, p) PROVE FALSE
    BY <2>2 DEF StartBuildSelfThread, workspace
  <2>3. ~OnWorkCompleted
    BY DEF OnWorkCompleted, workspace
  <2>4. PICK s \in Script, w \in Worker : OnResourceWorkCompleted(s, w)
    BY <1>6, <2>1, <2>2, <2>3 DEF MakeCall
  <2>5. working[w] = {s} /\ \A v \in Worker \ {w} : ~Waits(v)
    BY <2>4 DEF OnResourceWorkCompleted
  <2> QED BY <2>4, <2>5
<1> QED BY <1>1, <1>2, <1>3, <1>4, <1>5, <1>6 DEF Next

LEMMA OverMeansBuilt ==
  ASSUME BuildAssumption, InOrder, InHand, Done, Next, busy, ~busy'
  PROVE  Asked \ Broken \subseteq byteCode'
<1>1. PICK x \in Script, w \in Worker :
        /\ OnResourceWorkCompleted(x, w) /\ working[w] = {x}
        /\ \A v \in Worker \ {w} : ~Waits(v)
  BY WhoEndsBuild
<1>2. PICK F \in SUBSET Script : DoneWith(F)
  BY DoneIs
<1>3. byteCode' = byteCode
  BY <1>1 DEF OnResourceWorkCompleted, files
<1>4. Posted(x, w)
  <2>1. calls \in Seq(DelayedCall) /\ calls # <<>> /\ Head(calls) = ResourceWorkCompleted(x, w)
    BY <1>1 DEF OnResourceWorkCompleted, InOrder, Types, CallsOK
  <2> QED BY <2>1, ElemsIn DEF Posted, Called
<1>5. ASSUME NEW v \in Worker, NEW s \in ChildrenOf(v) \ Broken PROVE s \in byteCode
  <2>1. s \in Script /\ (At(v, "start") \/ s \in working[v] \/ s \in F)
    BY <1>2, AwaitedOrFinal
  <2>2. CASE v # w
    BY <1>1, <1>2, <2>1, <2>2, FinalIsDone DEF Waits
  <2>3. CASE v = w
    <3>1. s \in working[w] => s \in F
      <4>1. AwaitsRest(F, w)
        BY <1>2 DEF DoneWith, Finality
      <4> QED BY <1>1, <1>4, <2>3, <4>1 DEF AwaitsRest
    <3>2. ~At(w, "start")
      <4> SUFFICES ASSUME At(w, "start") PROVE FALSE
        OBVIOUS
      <4>1. Top(w) \in On(w) /\ Top(w).at = "start"
        BY TopKnown DEF Thread
      <4>2. Starting(w)
        BY <4>1 DEF Starting
      <4> QED BY <1>1, <4>2 DEF InHand, ProjectsWait
    <3> QED BY <1>2, <2>1, <2>3, <3>1, <3>2, FinalIsDone
  <2> QED BY <2>2, <2>3
<1> QED BY <1>3, <1>5 DEF Asked

(* While a script is compiled, whatever it uses has been and stays compiled, *)
(* although it may be shared and asked for again.                            *)
THEOREM DependenciesComeFirst ==
  Spec => []CompiledAfterDependencies
<1>1. Init => DoneInvariant
  BY BuildAssumption, InitOrder, InitInHand, InitDone DEF DoneInvariant, Invariant, Sane
<1>2. DoneInvariant /\ [Next]_vars => DoneInvariant'
  BY BuildAssumption, NextDoneInvariant
<1>3. DoneInvariant => CompiledAfterDependencies
  <2> SUFFICES ASSUME DoneInvariant, Soundly, NEW s \in compilers, NEW d \in Uses[s] \ Unresolvable
               PROVE  d \in byteCode /\ d \notin compilers
    BY DEF CompiledAfterDependencies
  <2>1. InOrder /\ InHand /\ Done /\ BuildAssumption
    BY BuildAssumption, SoundIsDone
  <2>2. s \in Script /\ d \in Script
    BY <2>1 DEF InOrder, Types, CompilersOK, BuildAssumption
  <2>3. PICK F \in SUBSET Script : DoneWith(F)
    BY <2>1, DoneIs
  <2>4. GoesOn(s)
    BY DEF GoesOn, Compiling
  <2>5. d \in F
    BY <2>1, <2>2, <2>3, <2>4, GoesOnFinal DEF Known
  <2> QED BY <2>1, <2>2, <2>3, <2>5, FinalIsDone
<1> QED BY <1>1, <1>2, <1>3, PTL DEF Spec

(* What a project has been told of is not compiled again in this build.      *)
THEOREM WhatIsToldStays ==
  Spec => []ToldIsFinal
<1>1. Init => DoneInvariant
  BY BuildAssumption, InitOrder, InitInHand, InitDone DEF DoneInvariant, Invariant, Sane
<1>2. DoneInvariant /\ [Next]_vars => DoneInvariant'
  BY BuildAssumption, NextDoneInvariant
<1>3. DoneInvariant => ToldIsFinal
  <2> SUFFICES ASSUME DoneInvariant, Soundly, NEW s \in compilers \ Broken, NEW w \in Worker,
                      s \in ChildrenOf(w)
               PROVE  s \in working[w] \/ At(w, "start")
    BY DEF ToldIsFinal
  <2>1. InOrder /\ InHand /\ Done /\ busy /\ BuildAssumption
    BY BuildAssumption, SoundIsDone
  <2>2. PICK F \in SUBSET Script : DoneWith(F)
    BY <2>1, DoneIs
  <2>3. s \in Script /\ (At(w, "start") \/ s \in working[w] \/ s \in F)
    BY <2>1, <2>2, AwaitedOrFinal
  <2> QED BY <2>1, <2>2, <2>3, FinalIsDone
<1> QED BY <1>1, <1>2, <1>3, PTL DEF Spec

(* When a build is over that nobody has canceled and nothing has spoilt, all *)
(* that the projects asked for has been built, unless it is broken.          *)
THEOREM AllIsBuiltAtTheEnd ==
  Spec => BuiltWhenOver
<1>1. Init => DoneInvariant
  BY BuildAssumption, InitOrder, InitInHand, InitDone DEF DoneInvariant, Invariant, Sane
<1>2. DoneInvariant /\ [Next]_vars => DoneInvariant'
  BY BuildAssumption, NextDoneInvariant
<1>3. DoneInvariant /\ [Next]_vars =>
        [busy /\ ~busy' /\ ~Canceling /\ ~spoilt => Asked \ Broken \subseteq byteCode']_vars
  <2> SUFFICES ASSUME DoneInvariant, Next, busy, ~busy', ~Canceling, ~spoilt
               PROVE  Asked \ Broken \subseteq byteCode'
    OBVIOUS
  <2>1. Soundly
    BY Zenon DEF Soundly, Working
  <2>2. InOrder /\ InHand /\ Done
    BY <2>1, BuildAssumption, SoundIsDone
  <2> QED BY <2>2, BuildAssumption, OverMeansBuilt
<1> QED BY <1>1, <1>2, <1>3, PTL DEF Spec, BuiltWhenOver
=============================================================================
