------------------------ MODULE DelayedCaller_proofs ------------------------
(***************************************************************************)
(* Proofs about DelayedCaller for every set of calls and both bounds: the *)
(* types and the nesting of the activations, that no call posted in time  *)
(* is stranded, and, without dialogs, that the calls form a queue.        *)
(***************************************************************************)
EXTENDS DelayedCaller, SequenceTheorems, TLAPS

Activations == [at : Points, batch : Seq(Calls), call : Calls \cup {NoCall}]

\* An activation has a function to call just before it returns, and has
\* calls left only while it calls them.
Sound(a) ==
    /\ a \in Activations
    /\ a.call # NoCall <=> a.at = "call"
    /\ a.at \in {"swap", "test", "clear"} => a.batch = <<>>

\* A step inside the innermost activation leaves the others alone.
LEMMA TopChanges ==
    ASSUME TypeOK, gui # <<>>, NEW a, Sound(a), Becomes(a)
    PROVE  /\ gui' \in Seq(Activations)
           /\ Len(gui') = Len(gui)
           /\ Len(gui) \in Nat \ {0}
           /\ \A i \in 1 .. Len(gui) : gui'[i] = IF i = Len(gui) THEN a ELSE gui[i]
           /\ \A i \in DOMAIN gui' : Sound(gui'[i])
<1>1. gui \in Seq(Activations) /\ Len(gui) \in Nat \ {0} /\ DOMAIN gui = 1 .. Len(gui)
  BY EmptySeq, LenProperties DEF TypeOK, Activations
<1>2. gui' = [gui EXCEPT ![Len(gui)] = a] /\ a \in Activations
  BY DEF Becomes, Sound
<1>3. /\ gui' \in Seq(Activations)
      /\ Len(gui') = Len(gui)
      /\ \A i \in 1 .. Len(gui) : gui'[i] = IF i = Len(gui) THEN a ELSE gui[i]
  BY <1>1, <1>2, ExceptSeq
<1>4. \A i \in DOMAIN gui : Sound(gui[i])
  BY <1>1, ElementOfSeq, LenProperties DEF TypeOK, Sound, Activations
<1>5. DOMAIN gui' = 1 .. Len(gui)
  BY <1>3, LenProperties
<1> QED BY <1>1, <1>3, <1>4, <1>5

\* What is known of the innermost activation.
LEMMA TopSound ==
    ASSUME TypeOK, gui # <<>>
    PROVE  Sound(Last(gui)) /\ Last(gui) = gui[Len(gui)] /\ Len(gui) \in Nat \ {0}
<1>1. gui \in Seq(Activations) /\ Len(gui) \in Nat \ {0} /\ DOMAIN gui = 1 .. Len(gui)
  BY EmptySeq, LenProperties DEF TypeOK, Activations
<1>2. Last(gui) = gui[Len(gui)]
  BY DEF Last
<1>3. gui[Len(gui)] \in Activations
  BY <1>1, ElementOfSeq
<1>4. Len(gui) \in DOMAIN gui
  BY <1>1
<1>5. Sound(gui[Len(gui)])
  BY <1>3, <1>4 DEF TypeOK, Sound
<1> QED BY <1>1, <1>2, <1>5

\* When the innermost activation returns the others stay as they are.
LEMMA TopReturns ==
    ASSUME TypeOK, gui # <<>>, gui' = Front(gui)
    PROVE  /\ Len(gui) \in Nat \ {0}
           /\ DOMAIN gui = 1 .. Len(gui)
           /\ DOMAIN gui' = 1 .. Len(gui) - 1
           /\ gui' \in Seq(Activations)
           /\ Len(gui') = Len(gui) - 1
           /\ \A i \in 1 .. Len(gui) - 1 : gui'[i] = gui[i]
<1>1. gui \in Seq(Activations) /\ Len(gui) \in Nat \ {0} /\ DOMAIN gui = 1 .. Len(gui)
  BY LenProperties, EmptySeq DEF TypeOK, Activations
<1>2. gui' = SubSeq(gui, 1, Len(gui) - 1)
  BY DEF Front
<1>3. \A i \in 1 .. Len(gui) - 1 : gui[i] \in Activations
  BY <1>1, ElementOfSeq
<1>4. Len(gui) - 1 \in Int
  BY <1>1
<1>5. /\ gui' \in Seq(Activations)
      /\ Len(gui') = IF 1 <= Len(gui) - 1 THEN (Len(gui) - 1) - 1 + 1 ELSE 0
      /\ \A i \in 1 .. (Len(gui) - 1) - 1 + 1 : gui'[i] = gui[1 + i - 1]
  BY <1>2, <1>3, <1>4, SubSeqProperties
<1>6. Len(gui') = Len(gui) - 1
  <2> DEFINE n == Len(gui)
             m == Len(gui')
  <2>1. n \in Nat \ {0} /\ m = IF 1 <= n - 1 THEN (n - 1) - 1 + 1 ELSE 0
    BY <1>1, <1>5
  <2> HIDE DEF n, m
  <2>2. m = n - 1
    BY <2>1
  <2> QED BY <2>2 DEF n, m
<1>7. ASSUME NEW i \in 1 .. Len(gui) - 1 PROVE gui'[i] = gui[i]
  <2>1. i \in 1 .. (Len(gui) - 1) - 1 + 1 /\ 1 + i - 1 = i
    BY <1>1
  <2> QED BY <1>5, <2>1
<1> QED BY <1>1, <1>5, <1>6, <1>7, LenProperties

-----------------------------------------------------------------------------
(* Types and nesting.                                                      *)

TypeNest == TypeOK /\ ActivationsNest

\* The two hold when the state is what TopChanges says it is.
LEMMA TypeNestOfStep ==
    ASSUME TypeNest, gui # <<>>, NEW a, Sound(a), Becomes(a),
           list' \in Seq(Calls), events' \in Nat, UNCHANGED <<duringCall, late>>
    PROVE  TypeNest'
<1>1. /\ gui' \in Seq(Activations)
      /\ Len(gui') = Len(gui)
      /\ Len(gui) \in Nat \ {0}
      /\ \A i \in 1 .. Len(gui) : gui'[i] = IF i = Len(gui) THEN a ELSE gui[i]
      /\ \A i \in DOMAIN gui' : Sound(gui'[i])
  BY TopChanges DEF TypeNest
<1>2. DOMAIN gui' = 1 .. Len(gui) /\ DOMAIN gui = 1 .. Len(gui) /\ gui' # <<>>
  BY <1>1, LenProperties, EmptySeq DEF TypeNest, TypeOK
<1>3. TypeOK'
  BY <1>1 DEF TypeNest, TypeOK, Sound, Activations
<1>4. ActivationsNest'
  <2>1. ASSUME NEW i \in DOMAIN gui', i < Len(gui') PROVE gui'[i].at = "call"
    <3> DEFINE n == Len(gui)
    <3>3. i \in 1 .. n /\ i < n /\ n \in Nat
      BY <1>1, <1>2, <2>1
    <3>4. gui'[i] = IF i = n THEN a ELSE gui[i]
      BY <1>1, <3>3
    <3>5. i \in DOMAIN gui /\ i < Len(gui) /\ gui'[i] = gui[i]
      BY <1>2, <3>3, <3>4
    <3>6. gui[i].at = "call"
      BY <3>5 DEF TypeNest, ActivationsNest
    <3> QED BY <3>5, <3>6
  <2> QED BY <1>2, <2>1 DEF ActivationsNest
<1> QED BY <1>3, <1>4 DEF TypeNest

LEMMA TypeNestInductive ==
    ASSUME TypeNest, [Next]_vars
    PROVE  TypeNest'
<1> USE DEF Activation, Points
<1>1. ASSUME NEW c \in Calls, PostDelayedCall(c) PROVE TypeNest'
  <2>1. list' \in Seq(Calls)
    BY <1>1, AppendProperties DEF TypeNest, TypeOK, PostDelayedCall
  <2>2. events' \in Nat /\ late' \subseteq Calls
    BY <1>1 DEF TypeNest, TypeOK, PostDelayedCall, NoteLate
  <2> QED BY <1>1, <2>1, <2>2 DEF TypeNest, TypeOK, ActivationsNest, PostDelayedCall
<1>2. CASE CancelAllDelayedCalls
  BY <1>2, EmptySeq DEF TypeNest, TypeOK, ActivationsNest, CancelAllDelayedCalls
<1>3. CASE OnCallExpired
  <2> DEFINE a == Activation("swap", <<>>, NoCall)
  <2>1. gui \in Seq(Activations) /\ Len(gui) \in Nat /\ DOMAIN gui = 1 .. Len(gui)
    BY LenProperties DEF TypeNest, TypeOK, Activations
  <2>2. a \in Activations /\ Sound(a)
    BY EmptySeq DEF Activations, Sound
  <2>3. gui' = Append(gui, a)
    BY <1>3 DEF OnCallExpired
  <2>4. /\ gui' \in Seq(Activations) /\ gui' # <<>> /\ Len(gui') = Len(gui) + 1
        /\ \A i \in 1 .. Len(gui) : gui'[i] = gui[i]
        /\ gui'[Len(gui) + 1] = a
    BY <2>1, <2>2, <2>3, AppendProperties
  <2>5. DOMAIN gui' = 1 .. Len(gui) + 1
    BY <2>4, LenProperties
  <2>6. \A i \in DOMAIN gui' : Sound(gui'[i])
    <3> TAKE i \in DOMAIN gui'
    <3>1. CASE i \in 1 .. Len(gui)
      BY <3>1, <2>1, <2>4, ElementOfSeq DEF TypeNest, TypeOK, Sound
    <3>2. CASE i = Len(gui) + 1
      BY <3>2, <2>2, <2>4
    <3> QED BY <3>1, <3>2, <2>1, <2>5
  <2>7. TypeOK'
    BY <1>3, <2>4, <2>6 DEF OnCallExpired, TypeNest, TypeOK, Sound, Activations
  <2>8. ActivationsNest'
    <3>1. ASSUME NEW i \in DOMAIN gui', i < Len(gui') PROVE gui'[i].at = "call"
      <4>1. i \in 1 .. Len(gui) /\ gui'[i] = gui[i]
        BY <3>1, <2>1, <2>4, <2>5
      <4>2. CASE i < Len(gui)
        BY <4>1, <4>2, <2>1 DEF TypeNest, ActivationsNest
      <4>3. CASE i = Len(gui)
        BY <4>1, <4>3, <2>1, <1>3, EmptySeq DEF OnCallExpired, GuiCodeRuns, At, Last
      <4> QED BY <4>1, <4>2, <4>3, <2>1
    <3> QED BY <3>1, <2>4 DEF ActivationsNest
  <2> QED BY <2>7, <2>8 DEF TypeNest
<1>4. CASE Swap
  <2>1. Sound(Activation("next", list, NoCall))
    BY DEF Sound, Activations, TypeNest, TypeOK
  <2> QED BY <1>4, <2>1, TypeNestOfStep, EmptySeq DEF Swap, At, TypeNest, TypeOK
<1>5. CASE CallNext
  <2>1. gui # <<>> /\ Sound(Last(gui))
    BY <1>5, TopSound DEF CallNext, At, TypeNest
  <2> DEFINE b == Last(gui).batch
  <2>2. b \in Seq(Calls)
    BY <2>1 DEF Sound, Activations
  <2>3. CASE b = <<>>
    <3>1. Sound(Activation("test", <<>>, NoCall))
      BY EmptySeq DEF Sound, Activations
    <3> QED BY <1>5, <2>1, <2>3, <3>1, TypeNestOfStep DEF CallNext, TypeNest, TypeOK
  <2>4. CASE b # <<>>
    <3>1. Head(b) \in Calls /\ Tail(b) \in Seq(Calls)
      BY <2>2, <2>4, HeadTailProperties
    <3>2. Sound(Activation("call", Tail(b), Head(b)))
      BY <3>1, CallsAssumption DEF Sound, Activations
    <3> QED BY <1>5, <2>1, <2>4, <3>2, TypeNestOfStep DEF CallNext, TypeNest, TypeOK
  <2> QED BY <2>3, <2>4
<1>6. CASE CallReturns
  <2>1. gui # <<>> /\ Sound(Last(gui))
    BY <1>6, TopSound DEF CallReturns, At, TypeNest
  <2>2. Sound(Activation("next", Last(gui).batch, NoCall))
    BY <2>1 DEF Sound, Activations
  <2> QED BY <1>6, <2>1, <2>2, TypeNestOfStep DEF CallReturns, TypeNest, TypeOK
<1>7. CASE CallThrows
  <2>1. Sound(Activation("test", <<>>, NoCall))
    BY EmptySeq DEF Sound, Activations
  <2> QED BY <1>7, <2>1, TypeNestOfStep DEF CallThrows, At, TypeNest, TypeOK
<1>8. CASE Test
  <2>1. Sound(Activation("clear", <<>>, NoCall))
    BY EmptySeq DEF Sound, Activations
  <2>2. events' \in Nat
    BY <1>8 DEF Test, TypeNest, TypeOK
  <2> QED BY <1>8, <2>1, <2>2, TypeNestOfStep DEF Test, At, TypeNest, TypeOK
<1>9. CASE Clear
  <2>1. /\ Len(gui) \in Nat \ {0}
        /\ DOMAIN gui = 1 .. Len(gui)
        /\ DOMAIN gui' = 1 .. Len(gui) - 1
        /\ gui' \in Seq(Activations)
        /\ Len(gui') = Len(gui) - 1
        /\ \A i \in 1 .. Len(gui) - 1 : gui'[i] = gui[i]
    BY <1>9, TopReturns DEF Clear, At, TypeNest
  <2>2. \A i \in DOMAIN gui' : i \in DOMAIN gui /\ i < Len(gui) /\ gui'[i] = gui[i]
    BY <2>1
  <2>3. \A i \in DOMAIN gui' : Sound(gui'[i])
    BY <2>1, <2>2, ElementOfSeq DEF TypeNest, TypeOK, Sound
  <2>4. TypeOK'
    BY <1>9, <2>1, <2>3 DEF Clear, TypeNest, TypeOK, Sound, Activations
  <2>5. ActivationsNest'
    BY <1>9, <2>1, <2>2 DEF Clear, TypeNest, ActivationsNest
  <2> QED BY <2>4, <2>5 DEF TypeNest
<1>10. CASE UNCHANGED vars
  BY <1>10 DEF vars, TypeNest, TypeOK, ActivationsNest
<1> QED BY <1>1, <1>2, <1>3, <1>4, <1>5, <1>6, <1>7, <1>8, <1>9, <1>10 DEF Next, GuiNext

\* Nothing is posted and nothing active at first.
LEMMA TypeNestInitially == Init => TypeNest
<1> SUFFICES ASSUME Init PROVE TypeNest
  OBVIOUS
<1>1. list \in Seq(Calls) /\ gui \in Seq(Activations)
  BY EmptySeq DEF Init
<1>2. DOMAIN gui = {}
  BY <1>1, LenProperties, EmptySeq DEF Init
<1>3. TypeOK
  BY <1>1, <1>2, Zenon DEF Init, TypeOK, Activations
<1>4. ActivationsNest
  BY <1>2 DEF Init, ActivationsNest
<1> QED BY <1>3, <1>4 DEF TypeNest

-----------------------------------------------------------------------------
(* Nobody is stranded.                                                     *)

\* An event is pending, or the test of the outermost activation is ahead.
Covered == events > 0 \/ (gui # <<>> /\ gui[1].at # "clear")

\* The outermost activation is still before its test after a step of the
\* innermost one that is not the test itself.
LEMMA StillAhead ==
    ASSUME TypeNest, gui # <<>>, NEW a, Sound(a), Becomes(a), a.at # "clear",
           NoCallStranded, UNCHANGED <<list, late, events>>
    PROVE  NoCallStranded'
<1>1. /\ gui' \in Seq(Activations)
      /\ Len(gui') = Len(gui)
      /\ Len(gui) \in Nat \ {0}
      /\ \A i \in 1 .. Len(gui) : gui'[i] = IF i = Len(gui) THEN a ELSE gui[i]
  BY TopChanges DEF TypeNest
<1>2. gui' # <<>>
  BY <1>1, EmptySeq
<1>3. gui'[1] = a \/ gui'[1] = gui[1]
  BY <1>1
<1>4. Covered => Covered'
  BY <1>2, <1>3 DEF Covered
<1> QED BY <1>4 DEF Covered, NoCallStranded

\* The outermost activation is inside a function when another one is inside it.
LEMMA OutermostCalls ==
    ASSUME TypeNest, gui # <<>>, Len(gui) # 1
    PROVE  gui[1].at = "call"
<1>1. Len(gui) \in Nat \ {0} /\ DOMAIN gui = 1 .. Len(gui)
  BY LenProperties, EmptySeq DEF TypeNest, TypeOK
<1>2. 1 \in DOMAIN gui /\ 1 < Len(gui)
  BY <1>1
<1> QED BY <1>2 DEF TypeNest, ActivationsNest

\* The calls of an empty list.
LEMMA EmptyList == Range(<<>>) = {}
BY EmptySeq DEF Range

LEMMA NoCallStrandedInductive ==
    ASSUME TypeNest, NoCallStranded, [Next]_vars
    PROVE  NoCallStranded'
<1> USE DEF Activation, Points
<1>1. ASSUME NEW c \in Calls, PostDelayedCall(c) PROVE NoCallStranded'
  <2>1. Range(list') = Range(list) \cup {c}
    <3>1. list \in Seq(Calls) /\ list' = Append(list, c)
      BY <1>1 DEF PostDelayedCall, TypeNest, TypeOK
    <3>2. /\ list' \in Seq(Calls) /\ Len(list') = Len(list) + 1 /\ Len(list) \in Nat
          /\ \A i \in 1 .. Len(list) : list'[i] = list[i]
          /\ list'[Len(list) + 1] = c
      BY <3>1, AppendProperties, LenProperties
    <3>3. DOMAIN list = 1 .. Len(list) /\ DOMAIN list' = 1 .. Len(list) + 1
      BY <3>1, <3>2, LenProperties
    <3> QED BY <3>2, <3>3 DEF Range
  <2>2. CASE TooLate
    <3>1. late' = late \cup {c} /\ UNCHANGED <<events, gui>>
      BY <1>1, <2>2 DEF PostDelayedCall, NoteLate, TooLate
    <3> QED BY <2>1, <3>1 DEF NoCallStranded
  <2>3. CASE ~TooLate
    <3>1. CASE duringCall
      <4>1. gui # <<>> /\ gui[1].at # "clear"
        BY <2>3, <3>1 DEF TooLate, TypeNest, ActivationsNest
      <4> QED BY <1>1, <4>1 DEF PostDelayedCall, NoCallStranded
    <3>2. CASE ~duringCall
      BY <1>1, <3>2 DEF PostDelayedCall, NoCallStranded, TypeNest, TypeOK
    <3> QED BY <3>1, <3>2
  <2> QED BY <2>2, <2>3
<1>2. CASE CancelAllDelayedCalls
  BY <1>2, EmptyList DEF CancelAllDelayedCalls, NoCallStranded
<1>3. CASE OnCallExpired
  <2> DEFINE a == Activation("swap", <<>>, NoCall)
  <2>1. gui \in Seq(Activations) /\ Len(gui) \in Nat
    BY LenProperties DEF TypeNest, TypeOK, Activations
  <2>2. a \in Activations /\ gui' = Append(gui, a)
    BY <1>3, EmptySeq DEF OnCallExpired, Activations
  <2>3. /\ gui' # <<>>
        /\ \A i \in 1 .. Len(gui) : gui'[i] = gui[i]
        /\ gui'[Len(gui) + 1] = a
    BY <2>1, <2>2, AppendProperties
  <2>4. gui'[1].at # "clear"
    <3>1. CASE gui = <<>>
      BY <2>3, <3>1
    <3>2. CASE gui # <<>>
      <4>1. gui[1].at = "call"
        BY <1>3, <3>2, OutermostCalls DEF OnCallExpired, GuiCodeRuns, At, Last
      <4>2. gui'[1] = gui[1]
        BY <2>1, <2>3, <3>2, EmptySeq
      <4> QED BY <4>1, <4>2
    <3> QED BY <3>1, <3>2
  <2> QED BY <2>3, <2>4 DEF NoCallStranded
<1>4. CASE Swap
  BY <1>4, EmptyList DEF Swap, NoCallStranded
<1>5. CASE CallNext
  <2>1. gui # <<>> /\ Sound(Last(gui))
    BY <1>5, TopSound DEF CallNext, At, TypeNest
  <2> DEFINE b == Last(gui).batch
  <2>2. b \in Seq(Calls)
    BY <2>1 DEF Sound, Activations
  <2>3. CASE b = <<>>
    <3>1. Sound(Activation("test", <<>>, NoCall))
      BY EmptySeq DEF Sound, Activations
    <3> QED BY <1>5, <2>1, <2>3, <3>1, StillAhead DEF CallNext
  <2>4. CASE b # <<>>
    <3>1. Head(b) \in Calls /\ Tail(b) \in Seq(Calls)
      BY <2>2, <2>4, HeadTailProperties
    <3>2. Sound(Activation("call", Tail(b), Head(b)))
      BY <3>1, CallsAssumption DEF Sound, Activations
    <3> QED BY <1>5, <2>1, <2>4, <3>2, StillAhead DEF CallNext
  <2> QED BY <2>3, <2>4
<1>6. CASE CallReturns
  <2>1. gui # <<>> /\ Sound(Last(gui))
    BY <1>6, TopSound DEF CallReturns, At, TypeNest
  <2>2. Sound(Activation("next", Last(gui).batch, NoCall))
    BY <2>1 DEF Sound, Activations
  <2> QED BY <1>6, <2>1, <2>2, StillAhead DEF CallReturns
<1>7. CASE CallThrows
  <2>1. Sound(Activation("test", <<>>, NoCall))
    BY EmptySeq DEF Sound, Activations
  <2> QED BY <1>7, <2>1, StillAhead DEF CallThrows, At
<1>8. CASE Test
  <2>1. CASE list = <<>>
    BY <1>8, <2>1, EmptyList DEF Test, NoCallStranded
  <2>2. CASE list # <<>>
    BY <1>8, <2>2 DEF Test, NoCallStranded, TypeNest, TypeOK
  <2> QED BY <2>1, <2>2
<1>9. CASE Clear
  <2>1. gui # <<>> /\ gui[Len(gui)].at = "clear"
    BY <1>9 DEF Clear, At, Last
  <2>2. CASE Len(gui) = 1
    BY <1>9, <2>1, <2>2 DEF Clear, NoCallStranded
  <2>3. CASE Len(gui) # 1
    <3>1. /\ Len(gui) \in Nat \ {0} /\ Len(gui') = Len(gui) - 1
          /\ gui' \in Seq(Activations)
          /\ \A i \in 1 .. Len(gui) - 1 : gui'[i] = gui[i]
      BY <1>9, TopReturns DEF Clear, At, TypeNest
    <3>2. gui' # <<>> /\ gui'[1] = gui[1]
      BY <2>3, <3>1, EmptySeq
    <3> QED BY <1>9, <2>1, <2>3, <3>2, OutermostCalls DEF NoCallStranded
  <2> QED BY <2>2, <2>3
<1>10. CASE UNCHANGED vars
  BY <1>10 DEF vars, NoCallStranded
<1> QED BY <1>1, <1>2, <1>3, <1>4, <1>5, <1>6, <1>7, <1>8, <1>9, <1>10 DEF Next, GuiNext

\* Every reachable state has the types of TypeOK: in particular a batch is
\* empty before it is taken over and after the calls, thrown or not.
THEOREM TypeCorrect == Spec => []TypeOK
<1>1. TypeNest /\ [Next]_vars => TypeNest'
  BY TypeNestInductive
<1>2. TypeNest => TypeOK
  BY DEF TypeNest
<1> QED BY TypeNestInitially, <1>1, <1>2, PTL DEF Spec

\* Activations of onCallExpired nest, however deep the dialogs.
THEOREM NestingHolds == Spec => []ActivationsNest
<1>1. TypeNest /\ [Next]_vars => TypeNest'
  BY TypeNestInductive
<1>2. TypeNest => ActivationsNest
  BY DEF TypeNest
<1> QED BY TypeNestInitially, <1>1, <1>2, PTL DEF Spec

\* onCallExpired sees to every call that is posted in time, whoever posts it
\* and however many dialogs are open.
THEOREM PostedInTimeIsSeen == Spec => []NoCallStranded
<1> DEFINE Inv == TypeNest /\ NoCallStranded
<1>1. Init => Inv
  BY TypeNestInitially, EmptyList DEF Init, NoCallStranded
<1>2. Inv /\ [Next]_vars => Inv'
  BY TypeNestInductive, NoCallStrandedInductive
<1>3. Inv => NoCallStranded
  OBVIOUS
<1> QED BY <1>1, <1>2, <1>3, PTL DEF Spec

-----------------------------------------------------------------------------
(* Without dialogs the calls are a queue.                                  *)

\* There are never more activations than MaxNesting.
NestingBounded == Len(gui) <= MaxNesting

LEMMA NestingBoundedInductive ==
    ASSUME TypeNest, NestingBounded, [Next]_vars
    PROVE  NestingBounded'
<1>1. Len(gui) \in Nat /\ gui \in Seq(Activations)
  BY LenProperties DEF TypeNest, TypeOK, Activations
<1>2. ASSUME NEW a, At("swap") \/ At("next") \/ At("call") \/ At("test"), Becomes(a)
      PROVE  NestingBounded'
  <2>1. Len([gui EXCEPT ![Len(gui)] = a]) = Len(gui)
    <3>1. DOMAIN [gui EXCEPT ![Len(gui)] = a] = DOMAIN gui
      OBVIOUS
    <3> QED BY <1>1, <3>1
  <2> QED BY <1>2, <2>1 DEF NestingBounded, Becomes
<1>3. CASE \E c \in Calls : PostDelayedCall(c)
  BY <1>3 DEF PostDelayedCall, NestingBounded
<1>4. CASE CancelAllDelayedCalls \/ UNCHANGED vars
  BY <1>4 DEF CancelAllDelayedCalls, vars, NestingBounded
<1>5. CASE OnCallExpired
  <2>1. Len(gui') = Len(gui) + 1
    BY <1>1, <1>5, EmptySeq, AppendProperties DEF OnCallExpired, Activation, Activations, Points
  <2> QED BY <1>1, <1>5, <2>1, BoundsAssumption DEF OnCallExpired, NestingBounded
<1>6. CASE Swap \/ CallNext \/ CallReturns \/ CallThrows \/ Test
  BY <1>2, <1>6 DEF Swap, CallNext, CallReturns, CallThrows, Test
<1>7. CASE Clear
  BY <1>1, <1>7, TopReturns, BoundsAssumption DEF Clear, At, TypeNest, NestingBounded
<1> QED BY <1>3, <1>4, <1>5, <1>6, <1>7 DEF Next, GuiNext

\* The calls not yet begun, and the one that runs, as CallQueue has them.
Pending == IF gui = <<>> THEN list ELSE gui[1].batch \o list
Running == IF gui = <<>> THEN NoCall ELSE gui[1].call

\* The only activation there is, before and after a step inside it.
LEMMA OnlyActivation ==
    ASSUME TypeNest, NestingBounded, MaxNesting = 1, gui # <<>>
    PROVE  /\ Len(gui) = 1
           /\ Last(gui) = gui[1]
           /\ Sound(gui[1])
           /\ \A a : Sound(a) /\ Becomes(a) => gui' # <<>> /\ gui'[1] = a
<1>1. Len(gui) = 1 /\ Last(gui) = gui[1] /\ Sound(gui[1])
  <2>1. Sound(Last(gui)) /\ Last(gui) = gui[Len(gui)] /\ Len(gui) \in Nat \ {0}
    BY TopSound DEF TypeNest
  <2>2. Len(gui) = 1
    BY <2>1 DEF NestingBounded
  <2> QED BY <2>1, <2>2
<1>2. ASSUME NEW a, Sound(a), Becomes(a) PROVE gui' # <<>> /\ gui'[1] = a
  <2>1. gui' \in Seq(Activations) /\ Len(gui') = 1 /\ gui'[1] = a
    BY <1>1, <1>2, TopChanges DEF TypeNest
  <2> QED BY <2>1, EmptySeq
<1> QED BY <1>1, <1>2

\* Sequences: what lies behind, and before, the first part of two.
LEMMA Parts ==
    ASSUME NEW S, NEW b \in Seq(S), NEW t \in Seq(S)
    PROVE  /\ Len(b) \in 0 .. Len(b \o t)
           /\ SubSeq(b \o t, 1, Len(b)) = b
           /\ SubSeq(b \o t, Len(b) + 1, Len(b \o t)) = t
<1>1. /\ b \o t \in Seq(S) /\ Len(b) \in Nat /\ Len(t) \in Nat
      /\ Len(b \o t) = Len(b) + Len(t)
      /\ \A i \in 1 .. Len(b) + Len(t) :
            (b \o t)[i] = IF i <= Len(b) THEN b[i] ELSE t[i - Len(b)]
  BY ConcatProperties, LenProperties
<1>2. SubSeq(b \o t, 1, Len(b)) = b
  <2>1. CASE b = <<>>
    BY <2>1, <1>1, EmptySeq, SubSeqEmpty
  <2>2. CASE b # <<>>
    <3>1. Len(b) \in Nat \ {0}
      BY <2>2, EmptySeq
    <3> QED BY <3>1, SubSeqOfConcat1, SubSeqFull
  <2> QED BY <2>1, <2>2
<1>3. SubSeq(b \o t, Len(b) + 1, Len(b \o t)) = t
  <2>1. CASE t = <<>>
    <3>1. Len(t) = 0
      BY <2>1, EmptySeq
    <3> QED BY <2>1, <3>1, <1>1, SubSeqEmpty
  <2>2. CASE t # <<>>
    <3>1. Len(t) \in Nat \ {0}
      BY <2>2, EmptySeq
    <3>2. SubSeq(b \o t, Len(b) + 1, Len(b) + Len(t)) = SubSeq(t, Len(b) + 1 - Len(b), Len(b) + Len(t) - Len(b))
      BY <1>1, <3>1, SubSeqOfConcat2
    <3>3. Len(b) + 1 - Len(b) = 1 /\ Len(b) + Len(t) - Len(b) = Len(t)
      BY <1>1
    <3> QED BY <1>1, <3>2, <3>3, SubSeqFull
  <2> QED BY <2>1, <2>2
<1> QED BY <1>1, <1>2, <1>3

\* Sequences: the first part of two gives the head, the last one grows.
LEMMA Ends ==
    ASSUME NEW S, NEW b \in Seq(S), NEW t \in Seq(S)
    PROVE  /\ \A c \in S : b \o Append(t, c) = Append(b \o t, c)
           /\ b # <<>> => /\ b \o t # <<>>
                          /\ Head(b \o t) = Head(b)
                          /\ Tail(b \o t) = Tail(b) \o t
<1>1. /\ b \o t \in Seq(S) /\ Len(b) \in Nat /\ Len(t) \in Nat
      /\ Len(b \o t) = Len(b) + Len(t)
      /\ \A i \in 1 .. Len(b) + Len(t) :
            (b \o t)[i] = IF i <= Len(b) THEN b[i] ELSE t[i - Len(b)]
  BY ConcatProperties, LenProperties
<1>2. ASSUME NEW c \in S PROVE b \o Append(t, c) = Append(b \o t, c)
  <2>1. <<c>> \in Seq(S)
    OBVIOUS
  <2>2. Append(t, c) = t \o <<c>> /\ Append(b \o t, c) = (b \o t) \o <<c>>
    BY <1>1, AppendIsConcat
  <2>3. (b \o t) \o <<c>> = b \o (t \o <<c>>)
    BY <2>1, ConcatAssociative
  <2> QED BY <2>2, <2>3
<1>3. ASSUME b # <<>>
      PROVE  b \o t # <<>> /\ Head(b \o t) = Head(b) /\ Tail(b \o t) = Tail(b) \o t
  <2>1. Len(b) \in Nat \ {0}
    BY <1>3, EmptySeq
  <2>2. b \o t # <<>>
    BY <1>1, <2>1, EmptySeq
  <2>3. (b \o t)[1] = b[1]
    BY <1>1, <2>1
  <2>4. Head(b \o t) = Head(b)
    BY <1>1, <1>3, <2>2, <2>3
  <2>5. /\ Tail(b) \in Seq(S) /\ Len(Tail(b)) = Len(b) - 1
        /\ \A i \in 1 .. Len(Tail(b)) : Tail(b)[i] = b[i + 1]
    BY <1>3, HeadTailProperties
  <2>6. /\ Tail(b \o t) \in Seq(S) /\ Len(Tail(b \o t)) = Len(b \o t) - 1
        /\ \A i \in 1 .. Len(Tail(b \o t)) : Tail(b \o t)[i] = (b \o t)[i + 1]
    BY <1>1, <2>2, HeadTailProperties
  <2>7. /\ Tail(b) \o t \in Seq(S) /\ Len(Tail(b) \o t) = Len(Tail(b)) + Len(t)
        /\ \A i \in 1 .. Len(Tail(b)) + Len(t) :
              (Tail(b) \o t)[i] = IF i <= Len(Tail(b)) THEN Tail(b)[i] ELSE t[i - Len(Tail(b))]
    BY <2>5, ConcatProperties
  <2>8. ASSUME NEW i \in 1 .. Len(b) + Len(t) - 1 PROVE Tail(b \o t)[i] = (Tail(b) \o t)[i]
    <3>1. Tail(b \o t)[i] = (b \o t)[i + 1]
      BY <1>1, <2>6
    <3>2. CASE i <= Len(b) - 1
      <4>1. (b \o t)[i + 1] = b[i + 1]
        BY <1>1, <2>1, <3>2
      <4>2. (Tail(b) \o t)[i] = b[i + 1]
        BY <1>1, <2>1, <2>5, <2>7, <3>2
      <4> QED BY <3>1, <4>1, <4>2
    <3>3. CASE ~(i <= Len(b) - 1)
      <4>1. (b \o t)[i + 1] = t[i + 1 - Len(b)]
        BY <1>1, <2>1, <3>3
      <4>2. (Tail(b) \o t)[i] = t[i - (Len(b) - 1)]
        BY <1>1, <2>1, <2>5, <2>7, <3>3
      <4>3. i + 1 - Len(b) = i - (Len(b) - 1)
        BY <1>1
      <4> QED BY <3>1, <4>1, <4>2, <4>3
    <3> QED BY <3>2, <3>3
  <2>9. Len(Tail(b \o t)) = Len(b) + Len(t) - 1 /\ Len(Tail(b) \o t) = Len(b) + Len(t) - 1
    BY <1>1, <2>1, <2>5, <2>6, <2>7
  <2>10. Tail(b \o t) = Tail(b) \o t
    BY <2>6, <2>7, <2>8, <2>9, SeqEqual
  <2> QED BY <2>2, <2>4, <2>10
<1> QED BY <1>2, <1>3

\* Every step is a step of the queue, or leaves it alone.
LEMMA QueueStep ==
    ASSUME TypeNest, NestingBounded, MaxNesting = 1, [Next]_vars
    PROVE  [Queue!CQNext]_<<Pending, Running>>
<1> USE DEF Activation, Points
<1>1. list \in Seq(Calls)
  BY DEF TypeNest, TypeOK
<1>2. gui # <<>> => gui[1].batch \in Seq(Calls)
  BY OnlyActivation DEF Sound, Activations
<1>3. Pending \in Seq(Calls)
  BY <1>1, <1>2, ConcatProperties DEF Pending
<1>4. ASSUME NEW c \in Calls, PostDelayedCall(c) PROVE Queue!Post(c)
  <2>1. list' = Append(list, c) /\ gui' = gui
    BY <1>4 DEF PostDelayedCall
  <2>2. gui # <<>> => gui[1].batch \o Append(list, c) = Append(gui[1].batch \o list, c)
    <3> DEFINE b == gui[1].batch
    <3>1. gui # <<>> => b \in Seq(Calls)
      BY <1>2
    <3> HIDE DEF b
    <3>2. gui # <<>> => b \o Append(list, c) = Append(b \o list, c)
      BY <1>1, <3>1, Ends
    <3> QED BY <3>2 DEF b
  <2> QED BY <2>1, <2>2 DEF Queue!Post
<1>5. ASSUME CancelAllDelayedCalls PROVE \E n \in 0 .. Len(Pending) : Queue!CallOff(n)
  <2>1. list' = <<>> /\ gui' = gui
    BY <1>5 DEF CancelAllDelayedCalls
  <2>2. CASE gui = <<>>
    <3>1. Pending' = SubSeq(Pending, 1, 0) /\ Running' = Running
      BY <2>1, <2>2, SubSeqEmpty DEF Pending, Running
    <3>2. 0 \in 0 .. Len(Pending)
      BY <1>3, LenProperties
    <3> QED BY <3>1, <3>2 DEF Queue!CallOff, Pending, Running
  <2>3. CASE gui # <<>>
    <3> DEFINE b == gui[1].batch
    <3>1. Pending = b \o list /\ b \in Seq(Calls)
      BY <2>3, <1>2 DEF Pending
    <3>2. Pending' = b /\ Running' = Running
      BY <2>1, <2>3, <3>1, ConcatEmptySeq DEF Pending, Running
    <3>3. Len(b) \in 0 .. Len(Pending) /\ Pending' = SubSeq(Pending, 1, Len(b))
      BY <1>1, <3>1, <3>2, Parts
    <3> QED BY <3>2, <3>3 DEF Queue!CallOff, Pending, Running
  <2> QED BY <2>2, <2>3
<1>6. ASSUME OnCallExpired PROVE UNCHANGED <<Pending, Running>>
  <2>1. gui = <<>>
    BY <1>6, EmptySeq, LenProperties DEF OnCallExpired, TypeNest, TypeOK
  <2>2. gui' # <<>> /\ gui'[1] = Activation("swap", <<>>, NoCall) /\ list' = list
    BY <1>6, <2>1 DEF OnCallExpired
  <2> QED BY <1>1, <2>1, <2>2, ConcatEmptySeq DEF Pending, Running
<1>7. ASSUME Swap PROVE UNCHANGED <<Pending, Running>>
  <2>1. gui # <<>> /\ gui[1].at = "swap" /\ Sound(gui[1])
    BY <1>7, OnlyActivation DEF Swap, At
  <2>2. gui[1].batch = <<>> /\ gui[1].call = NoCall
    BY <2>1 DEF Sound
  <2>3. Sound(Activation("next", list, NoCall))
    BY <1>1 DEF Sound, Activations
  <2>4. gui' # <<>> /\ gui'[1] = Activation("next", list, NoCall) /\ list' = <<>>
    BY <1>7, <2>1, <2>3, OnlyActivation DEF Swap
  <2> QED BY <1>1, <2>1, <2>2, <2>4, ConcatEmptySeq DEF Pending, Running
<1>8. ASSUME CallNext PROVE Queue!Start \/ UNCHANGED <<Pending, Running>>
  <2>1. gui # <<>> /\ gui[1].at = "next" /\ Sound(gui[1]) /\ Last(gui) = gui[1]
    BY <1>8, OnlyActivation DEF CallNext, At
  <2> DEFINE b == gui[1].batch
  <2>2. gui[1].call = NoCall /\ b \in Seq(Calls) /\ list' = list
    BY <1>8, <2>1 DEF Sound, Activations, CallNext
  <2>3. CASE b = <<>>
    <3>1. Sound(Activation("test", <<>>, NoCall))
      BY EmptySeq DEF Sound, Activations
    <3>2. gui' # <<>> /\ gui'[1] = Activation("test", <<>>, NoCall)
      BY <1>8, <2>1, <2>3, <3>1, OnlyActivation DEF CallNext
    <3> QED BY <2>1, <2>2, <2>3, <3>2 DEF Pending, Running
  <2>4. CASE b # <<>>
    <3>1. Head(b) \in Calls /\ Tail(b) \in Seq(Calls)
      BY <2>2, <2>4, HeadTailProperties
    <3>2. Sound(Activation("call", Tail(b), Head(b)))
      BY <3>1, CallsAssumption DEF Sound, Activations
    <3>3. gui' # <<>> /\ gui'[1] = Activation("call", Tail(b), Head(b))
      BY <1>8, <2>1, <2>4, <3>2, OnlyActivation DEF CallNext
    <3>4. b \o list # <<>> /\ Head(b \o list) = Head(b) /\ Tail(b \o list) = Tail(b) \o list
      BY <1>1, <2>2, <2>4, Ends
    <3> QED BY <2>1, <2>2, <3>3, <3>4 DEF Queue!Start
  <2> QED BY <2>3, <2>4
<1>9. ASSUME CallReturns PROVE Queue!Finish
  <2>1. gui # <<>> /\ gui[1].at = "call" /\ Sound(gui[1]) /\ Last(gui) = gui[1]
    BY <1>9, OnlyActivation DEF CallReturns, At
  <2>2. Sound(Activation("next", gui[1].batch, NoCall))
    BY <2>1 DEF Sound, Activations
  <2>3. gui' # <<>> /\ gui'[1] = Activation("next", gui[1].batch, NoCall) /\ list' = list
    BY <1>9, <2>1, <2>2, OnlyActivation DEF CallReturns
  <2> QED BY <2>1, <2>3 DEF Sound, Queue!Finish
<1>10. ASSUME CallThrows PROVE \E n \in 0 .. Len(Pending) : Queue!Fail(n)
  <2>1. gui # <<>> /\ gui[1].at = "call" /\ Sound(gui[1])
    BY <1>10, OnlyActivation DEF CallThrows, At
  <2>2. Sound(Activation("test", <<>>, NoCall))
    BY EmptySeq DEF Sound, Activations
  <2>3. gui' # <<>> /\ gui'[1] = Activation("test", <<>>, NoCall) /\ list' = list
    BY <1>10, <2>1, <2>2, OnlyActivation DEF CallThrows
  <2> DEFINE b == gui[1].batch
  <2>4. Pending = b \o list /\ Pending' = list /\ Running # NoCall /\ Running' = NoCall
    BY <1>1, <2>1, <2>3, ConcatEmptySeq DEF Pending, Running, Sound
  <2>5. Len(b) \in 0 .. Len(b \o list) /\ SubSeq(b \o list, Len(b) + 1, Len(b \o list)) = list
    <3>1. b \in Seq(Calls)
      BY <1>2, <2>1
    <3> HIDE DEF b
    <3> QED BY <1>1, <3>1, Parts
  <2>6. Len(b) \in 0 .. Len(Pending) /\ Pending' = SubSeq(Pending, Len(b) + 1, Len(Pending))
    BY <2>4, <2>5, Zenon
  <2> QED BY <2>4, <2>6 DEF Queue!Fail, Pending, Running
<1>11. ASSUME Test PROVE UNCHANGED <<Pending, Running>>
  <2>1. gui # <<>> /\ gui[1].at = "test" /\ Sound(gui[1])
    BY <1>11, OnlyActivation DEF Test, At
  <2>2. Sound(Activation("clear", <<>>, NoCall))
    BY EmptySeq DEF Sound, Activations
  <2>3. gui' # <<>> /\ gui'[1] = Activation("clear", <<>>, NoCall) /\ list' = list
    BY <1>11, <2>1, <2>2, OnlyActivation DEF Test
  <2>4. gui[1].batch = <<>> /\ gui[1].call = NoCall
    BY <2>1 DEF Sound
  <2> QED BY <2>1, <2>3, <2>4 DEF Pending, Running
<1>12. ASSUME Clear PROVE UNCHANGED <<Pending, Running>>
  <2>1. gui # <<>> /\ gui[1].at = "clear" /\ Sound(gui[1]) /\ Len(gui) = 1
    BY <1>12, OnlyActivation DEF Clear, At
  <2>2. gui' = <<>> /\ list' = list
    BY <1>12, <2>1, SubSeqEmpty DEF Clear, Front
  <2> QED BY <1>1, <2>1, <2>2, ConcatEmptySeq DEF Pending, Running, Sound
<1>13. ASSUME UNCHANGED vars PROVE UNCHANGED <<Pending, Running>>
  BY <1>13 DEF vars, Pending, Running
<1> QED
  BY <1>4, <1>5, <1>6, <1>7, <1>8, <1>9, <1>10, <1>11, <1>12, <1>13
  DEF Next, GuiNext, Queue!CQNext, Pending, Running

\* As long as no function opens a dialog, delayed calls are started in the
\* order they were posted, one at a time and each once.
THEOREM Refinement == MaxNesting = 1 => (Spec => ImplementsCallQueue)
<1> SUFFICES ASSUME MaxNesting = 1 PROVE Spec => ImplementsCallQueue
  OBVIOUS
<1> DEFINE Inv == TypeNest /\ NestingBounded
<1>1. Init => Inv
  BY TypeNestInitially, EmptySeq, BoundsAssumption DEF Init, NestingBounded
<1>2. Inv /\ [Next]_vars => Inv'
  BY TypeNestInductive, NestingBoundedInductive
<1>3. Init => Queue!CQInit
  BY DEF Init, Queue!CQInit
<1>4. Inv /\ [Next]_vars => [Queue!CQNext]_<<Pending, Running>>
  BY QueueStep
<1> QED BY <1>1, <1>2, <1>3, <1>4, PTL
        DEF Spec, ImplementsCallQueue, Queue!CQSpec, Pending, Running
=============================================================================
