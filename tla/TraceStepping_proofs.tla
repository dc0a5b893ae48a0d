------------------------- MODULE TraceStepping_proofs -------------------------
(***************************************************************************)
(* Proofs about TraceStepping for every program, every set of virtual     *)
(* machines and both bounds, also of a program that goes on while a       *)
(* command is posted: callNesting counts the calls, and the trace commands *)
(* stop where they should and nowhere else, unless the program executed an *)
(* instruction before the command was posted whole; that command is then  *)
(* lost, those posted after it are not.                                   *)
(***************************************************************************)
EXTENDS TraceStepping, FiniteSetTheorems, SequenceTheorems, TLAPS

\* The calls among entries m to n, and their number.
Called(s, m, n) == {i \in m..n : IsCalled(s[i])}
CalledTo(s, n) == Cardinality(Called(s, 1, n))

-----------------------------------------------------------------------------
(* Counting calls.                                                         *)

LEMMA CalledType ==
    ASSUME NEW s, NEW m \in Int, NEW n \in Int
    PROVE  IsFiniteSet(Called(s, m, n)) /\ Cardinality(Called(s, m, n)) \in Nat
<1>1. IsFiniteSet(m..n)
  BY FS_Interval
<1>2. Called(s, m, n) \in SUBSET (m..n)
  BY DEF Called
<1>3. IsFiniteSet(Called(s, m, n))
  BY <1>1, <1>2, FS_Subset
<1> QED BY <1>3, FS_CardinalityType

\* The calls among entries depend on no other entry.
LEMMA CalledSame ==
    ASSUME NEW s, NEW t, NEW m \in Int, NEW n \in Int, \A i \in m..n : t[i] = s[i]
    PROVE  Called(t, m, n) = Called(s, m, n)
BY DEF Called

\* Calls add up.
LEMMA CalledAdds ==
    ASSUME NEW s, NEW n \in Nat, NEW m \in 0..n
    PROVE  /\ CalledTo(s, n) = CalledTo(s, m) + Cardinality(Called(s, m + 1, n))
           /\ CalledTo(s, n) \in Nat /\ CalledTo(s, m) \in Nat
           /\ Cardinality(Called(s, m + 1, n)) \in Nat
<1> DEFINE A == Called(s, 1, m)
           B == Called(s, m + 1, n)
           C == Called(s, 1, n)
<1>0. m \in Int /\ n \in Int /\ 1 \in Int /\ m + 1 \in Int
  OBVIOUS
<1>1. IsFiniteSet(A) /\ Cardinality(A) \in Nat
  BY <1>0, CalledType
<1>2. IsFiniteSet(B) /\ Cardinality(B) \in Nat
  BY <1>0, CalledType
<1>3. IsFiniteSet(C) /\ Cardinality(C) \in Nat
  BY <1>0, CalledType
<1>4. C = A \cup B /\ A \cap B = {}
  BY DEF Called
<1>5. Cardinality(A \cap B) = 0
  BY <1>4, FS_EmptySet
<1>6. Cardinality(C) = Cardinality(A) + Cardinality(B) - Cardinality(A \cap B)
  BY <1>1, <1>2, <1>4, FS_Union
<1>7. CalledTo(s, n) = Cardinality(C) /\ CalledTo(s, m) = Cardinality(A)
  BY DEF CalledTo
<1>8. B = Called(s, m + 1, n)
  OBVIOUS
<1> HIDE DEF A, B, C
<1>9. Cardinality(C) = Cardinality(A) + Cardinality(B)
  BY <1>1, <1>2, <1>5, <1>6
<1> QED BY <1>1, <1>2, <1>3, <1>7, <1>8, <1>9

\* The next entry adds one, or nothing if it is global code.
LEMMA CalledNext ==
    ASSUME NEW s, NEW n \in Nat \ {0}
    PROVE  /\ IsCalled(s[n]) => CalledTo(s, n) = CalledTo(s, n - 1) + 1
           /\ ~IsCalled(s[n]) => CalledTo(s, n) = CalledTo(s, n - 1)
           /\ CalledTo(s, n - 1) \in Nat
<1>1. n \in Nat /\ n - 1 \in 0..n /\ n - 1 + 1 = n
  OBVIOUS
<1>2. /\ CalledTo(s, n) = CalledTo(s, n - 1) + Cardinality(Called(s, n - 1 + 1, n))
      /\ CalledTo(s, n - 1) \in Nat
  BY <1>1, CalledAdds
<1>3. Called(s, n - 1 + 1, n) = Called(s, n, n)
  BY <1>1
<1>4. IsCalled(s[n]) => Called(s, n, n) = {n}
  BY DEF Called
<1>5. ~IsCalled(s[n]) => Called(s, n, n) = {}
  BY DEF Called
<1>6. IsCalled(s[n]) => Cardinality(Called(s, n, n)) = 1
  BY <1>4, FS_Singleton
<1>7. ~IsCalled(s[n]) => Cardinality(Called(s, n, n)) = 0
  BY <1>5, FS_EmptySet
<1> QED BY <1>2, <1>3, <1>6, <1>7

\* Where there is no global code every entry is a call.
LEMMA CalledAll ==
    ASSUME NEW s, NEW n \in Nat, NEW m \in 0..n, \A i \in m + 1..n : IsCalled(s[i])
    PROVE  CalledTo(s, n) = CalledTo(s, m) + (n - m)
<1>1. Called(s, m + 1, n) = m + 1..n
  BY DEF Called
<1>2. m + 1 \in Int /\ n \in Int
  OBVIOUS
<1>3. Cardinality(m + 1..n) = IF m + 1 > n THEN 0 ELSE n - (m + 1) + 1
  BY <1>2, FS_Interval
<1>4. (IF m + 1 > n THEN 0 ELSE n - (m + 1) + 1) = n - m
  OBVIOUS
<1>5. Cardinality(Called(s, m + 1, n)) = n - m
  BY <1>1, <1>3, <1>4
<1> QED BY <1>5, CalledAdds

\* No call above an entry: what is above is global code.
LEMMA CalledNone ==
    ASSUME NEW s, NEW n \in Nat, NEW m \in 0..n, CalledTo(s, n) = CalledTo(s, m)
    PROVE  \A i \in m + 1..n : ~IsCalled(s[i])
<1>1. Cardinality(Called(s, m + 1, n)) = 0
  <2>1. /\ CalledTo(s, n) = CalledTo(s, m) + Cardinality(Called(s, m + 1, n))
        /\ CalledTo(s, m) \in Nat /\ Cardinality(Called(s, m + 1, n)) \in Nat
    BY CalledAdds
  <2> QED BY <2>1
<1>2. m + 1 \in Int /\ n \in Int
  OBVIOUS
<1>3. IsFiniteSet(Called(s, m + 1, n))
  BY <1>2, CalledType
<1>4. Called(s, m + 1, n) = {}
  BY <1>1, <1>3, FS_EmptySet
<1> QED BY <1>4 DEF Called

-----------------------------------------------------------------------------
(* Stacks.                                                                 *)

LEMMA Pushing ==
    ASSUME NEW s \in Seq(Entries), NEW e \in Entries
    PROVE  /\ Append(s, e) \in Seq(Entries) /\ Append(s, e) # <<>>
           /\ Len(s) \in Nat /\ Len(Append(s, e)) = Len(s) + 1
           /\ \A i \in 1..Len(s) : Append(s, e)[i] = s[i]
           /\ Append(s, e)[Len(s) + 1] = e
BY AppendProperties, LenProperties

LEMMA Keeping ==
    ASSUME NEW s \in Seq(Entries), NEW n \in 0..Len(s)
    PROVE  /\ SubSeq(s, 1, n) \in Seq(Entries)
           /\ Len(s) \in Nat /\ n \in Nat /\ Len(SubSeq(s, 1, n)) = n
           /\ \A i \in 1..n : SubSeq(s, 1, n)[i] = s[i]
<1>1. Len(s) \in Nat
  BY LenProperties
<1>2. n \in Nat /\ n \in Int /\ 1 \in Int
  BY <1>1
<1>3. \A i \in 1..n : s[i] \in Entries
  BY <1>1, ElementOfSeq
<1>4. /\ SubSeq(s, 1, n) \in Seq(Entries)
      /\ Len(SubSeq(s, 1, n)) = IF 1 <= n THEN n - 1 + 1 ELSE 0
      /\ \A i \in 1..n - 1 + 1 : SubSeq(s, 1, n)[i] = s[1 + i - 1]
  BY <1>2, <1>3, SubSeqProperties
<1>5. \A i \in 1..n : i \in 1..n - 1 + 1 /\ 1 + i - 1 = i
  BY <1>2
<1> QED BY <1>1, <1>2, <1>4, <1>5

\* A script entry on top is a newest entry.
LEMMA TopEntry ==
    ASSUME stack \in Seq(Entries), stack # <<>>
    PROVE  /\ Len(stack) \in Nat \ {0} /\ Top = stack[Len(stack)] /\ Top \in Entries
           /\ Top.vm \in VMs
<1>1. Len(stack) \in Nat \ {0}
  BY EmptySeq, LenProperties
<1>2. stack[Len(stack)] \in Entries
  BY <1>1, ElementOfSeq
<1> QED BY <1>1, <1>2 DEF Top, Entries

\* The calls on the stack.
LEMMA CallsType ==
    ASSUME NEW s \in Seq(Entries), NEW n \in 0..Len(s)
    PROVE  /\ Calls(s) = CalledTo(s, Len(s)) /\ Calls(s) \in Nat
           /\ CalledIn(s, n + 1) \in Nat /\ CalledTo(s, n) \in Nat
           /\ CalledIn(s, n + 1) = Calls(s) - CalledTo(s, n)
<1>1. Len(s) \in Nat
  BY LenProperties
<1>2. /\ CalledTo(s, Len(s)) = CalledTo(s, n) + Cardinality(Called(s, n + 1, Len(s)))
      /\ CalledTo(s, Len(s)) \in Nat /\ CalledTo(s, n) \in Nat
      /\ Cardinality(Called(s, n + 1, Len(s))) \in Nat
  BY <1>1, CalledAdds
<1>3. CalledIn(s, n + 1) = Cardinality(Called(s, n + 1, Len(s)))
  BY DEF CalledIn, Called
<1>4. Calls(s) = CalledTo(s, Len(s))
  BY DEF Calls, CalledIn, CalledTo, Called
<1> QED BY <1>2, <1>3, <1>4

-----------------------------------------------------------------------------
(* Types.                                                                  *)

Fields == {"callNesting", "postedBy", "done", "data", "isBreakFromTraceCommand"}

LEMMA PostTypes ==
    ASSUME TypeOK, NEW command \in Commands, NEW value \in Nat, Post(command, value)
    PROVE  TypeOK'
<1>1. stack # <<>> /\ Top.vm \in VMs /\ Len(stack) \in Nat
  BY TopEntry DEF TypeOK, Post, AtScript
<1>2. Calls(stack) \in Nat
  BY CallsType, <1>1 DEF TypeOK
<1>3. posting' \in Seq(Fields)
  <2>1. /\ <<"callNesting", "postedBy", "done">> \in Seq(Fields)
        /\ <<"data">> \in Seq(Fields) /\ <<>> \in Seq(Fields)
        /\ <<"isBreakFromTraceCommand">> \in Seq(Fields)
    BY DEF Fields
  <2>2. (IF command \in {"SelectiveStepIn", "RunTo"} THEN <<"data">> ELSE <<>>)
          \in Seq(Fields)
    BY <2>1
  <2> QED BY <2>1, <2>2, ConcatProperties DEF Post
<1>4. origin' \in [vm : VMs \cup {NoVM}, depth : Nat, calls : Nat, low : Nat,
                   target : Nat, cut : BOOLEAN]
  BY <1>1, <1>2 DEF Post, OriginHere
<1> QED BY <1>1, <1>3, <1>4 DEF TypeOK, Post, AtScript, Top, Fields

LEMMA CodeTypes ==
    ASSUME NEW v \in VMs, NEW i \in DOMAIN Code[v]
    PROVE  i \in Nat \ {0} /\ Line(v, i) \in Nat /\ Code[v][i].leads \in BOOLEAN
<1>1. Code[v] \in Seq([line : Nat, leads : BOOLEAN, call : BOOLEAN])
  BY CodeAssumption
<1>2. Len(Code[v]) \in Nat /\ i \in 1..Len(Code[v])
  BY <1>1, LenProperties
<1>3. Code[v][i] \in [line : Nat, leads : BOOLEAN, call : BOOLEAN]
  BY <1>1, <1>2, ElementOfSeq
<1> QED BY <1>2, <1>3 DEF Line

LEMMA ServiceTypes ==
    ASSUME TypeOK, ServiceThread
    PROVE  TypeOK'
<1>1. CASE Step \/ StepIn \/ StepOut \/ Continue
  BY <1>1, PostTypes DEF Step, StepIn, StepOut, Continue, Commands, TraceCommands
<1>2. CASE SelectiveStepIn
  <2>1. Top.vm \in VMs
    BY <1>2, TopEntry DEF TypeOK, SelectiveStepIn, AtScript
  <2>2. PICK target \in DOMAIN Code[Top.vm] : Post("SelectiveStepIn", target)
    BY <1>2 DEF SelectiveStepIn
  <2> QED BY <2>1, <2>2, CodeTypes, PostTypes DEF Commands, TraceCommands
<1>3. CASE RunTo
  <2>1. Top.vm \in VMs
    BY <1>3, TopEntry DEF TypeOK, RunTo, AtScript
  <2>2. PICK i \in DOMAIN Code[Top.vm] : Post("RunTo", Line(Top.vm, i))
    BY <1>3 DEF RunTo
  <2> QED BY <2>1, <2>2, CodeTypes, PostTypes DEF Commands, TraceCommands
<1>4. CASE WriteField
  <2>1. posting \in Seq(Fields) /\ posting # <<>>
    BY <1>4 DEF TypeOK, WriteField, Fields
  <2>2. Tail(posting) \in Seq(Fields)
    BY <2>1, HeadTailProperties
  <2>3. request' \in [cmmd : Commands, vm : VMs \cup {NoVM}, data : Nat]
    BY <1>4 DEF TypeOK, WriteField, NoRequest, Commands
  <2>4. callNesting' \in Int /\ postedBy' \in VMs \cup {NoVM}
    BY <1>4 DEF TypeOK, WriteField
  <2>5. done' \in BOOLEAN /\ isBreakFromTraceCommand' \in BOOLEAN
    BY <1>4 DEF TypeOK, WriteField
  <2>6. data' \in Nat
    BY <1>4 DEF TypeOK, WriteField
  <2>7. phase' # "handle" => AtScript'
    BY <1>4 DEF TypeOK, WriteField, AtScript, Top
  <2>8. posting' \in Seq(Fields)
    BY <1>4, <2>2 DEF WriteField
  <2> QED BY <1>4, <2>3, <2>4, <2>5, <2>6, <2>7, <2>8 DEF TypeOK, WriteField, Fields
<1>5. CASE BreakExecution
  BY <1>5 DEF TypeOK, BreakExecution, commandVars, postVars, AtScript, Top
<1> QED BY <1>1, <1>2, <1>3, <1>4, <1>5 DEF ServiceThread

LEMMA StopTypes ==
    ASSUME TypeOK, phase # "handle", NEW marked \in BOOLEAN, Stop(marked), UNCHANGED pc
    PROVE  TypeOK'
<1>1. AtScript'
  BY DEF TypeOK, Stop, AtScript, Top
<1>2. Nowhere \in [vm : VMs \cup {NoVM}, depth : Nat, calls : Nat, low : Nat,
                  target : Nat, cut : BOOLEAN]
  BY DEF Nowhere
<1>3. /\ origin' = Nowhere /\ phase' = "break" /\ stack' = stack /\ pc' = pc
      /\ posting' = posting /\ request' = request /\ data' = data
  BY DEF Stop, postVars
<1>4. cmmd' \in Commands /\ callNesting' \in Int /\ postedBy' \in VMs \cup {NoVM}
  BY DEF Stop, Commands
<1>5. /\ done' \in BOOLEAN /\ isBreakFromTraceCommand' \in BOOLEAN
      /\ breakExecutionRequested' \in BOOLEAN /\ torn' \in BOOLEAN
  BY Zenon DEF Stop
<1> QED BY <1>1, <1>2, <1>3, <1>4, <1>5 DEF TypeOK

LEMMA BreakTypes ==
    ASSUME TypeOK, Breaks
    PROVE  TypeOK'
<1>1. CASE LeaveBreak
  BY <1>1 DEF TypeOK, LeaveBreak, commandVars, postVars, AtScript, Top
<1>2. CASE IsBreakPointTime
  BY <1>2, StopTypes DEF TypeOK, IsBreakPointTime
<1>3. CASE IsNoBreakPointTime
  BY <1>3 DEF TypeOK, IsNoBreakPointTime, commandVars, postVars, AtScript, Top
<1>4. CASE OnArtificialBreakPoint
  BY <1>4, StopTypes DEF TypeOK, OnArtificialBreakPoint
<1>5. CASE AtScript /\ \E i \in DOMAIN Code[Top.vm] : HandleAnyTraceCommand(i)
  <2>1. PICK i \in DOMAIN Code[Top.vm] : HandleAnyTraceCommand(i)
    BY <1>5
  <2>2. Top.vm \in VMs /\ Len(stack) \in Nat /\ stack # <<>>
    BY <1>5, TopEntry DEF TypeOK, AtScript
  <2>3. i \in Nat /\ Calls(stack) \in Nat
    BY <2>2, CodeTypes, CallsType DEF TypeOK
  <2>4. done' \in BOOLEAN
    BY <2>1 DEF HandleAnyTraceCommand
  <2>5. /\ origin' \in [vm : VMs \cup {NoVM}, depth : Nat, calls : Nat, low : Nat,
                        target : Nat, cut : BOOLEAN]
        /\ cmmd' \in Commands /\ callNesting' \in Int /\ postedBy' \in VMs \cup {NoVM}
    <3>1. OriginHere(Top.vm, 0) \in [vm : VMs \cup {NoVM}, depth : Nat, calls : Nat,
                                     low : Nat, target : Nat, cut : BOOLEAN]
      BY <2>2, <2>3 DEF OriginHere
    <3> QED BY <2>1, <2>2, <3>1
        DEF TypeOK, HandleAnyTraceCommand, Commands, TraceCommands
  <2> QED BY <2>1, <2>3, <2>4, <2>5, <1>5
      DEF TypeOK, HandleAnyTraceCommand, postVars, AtScript, Top
<1> QED BY <1>1, <1>2, <1>3, <1>4, <1>5 DEF Breaks

\* What an instruction or native code does to the rest of the state.
LEMMA ExecutedTypes ==
    ASSUME TypeOK, Executed, stack' \in Seq(Entries), callNesting' \in Int,
           origin' \in [vm : VMs \cup {NoVM}, depth : Nat, calls : Nat, low : Nat,
                        target : Nat, cut : BOOLEAN]
    PROVE  TypeOK'
BY DEF TypeOK, Executed, postVars

LEMMA CountTypes ==
    ASSUME TypeOK, NEW n \in Int, Count(n)
    PROVE  callNesting' \in Int
BY DEF TypeOK, Count

LEMMA KeepTypes ==
    ASSUME TypeOK, NEW n \in 0..Len(stack), Keep(n)
    PROVE  /\ stack' \in Seq(Entries) /\ n \in Nat
           /\ origin' \in [vm : VMs \cup {NoVM}, depth : Nat, calls : Nat, low : Nat,
                           target : Nat, cut : BOOLEAN]
<1>1. stack' \in Seq(Entries) /\ n \in Nat
  BY Keeping DEF TypeOK, Keep
<1>2. origin.low \in Nat
  BY DEF TypeOK
<1>3. Least(origin.low, n) \in Nat
  BY <1>1, <1>2 DEF Least
<1> QED BY <1>1, <1>3 DEF TypeOK, Keep

LEMMA ExecutionTypes ==
    ASSUME TypeOK, Execution
    PROVE  TypeOK'
<1>0. /\ stack \in Seq(Entries) /\ Len(stack) \in Nat
      /\ stack # <<>> => Len(stack) # 0 /\ Top.vm \in VMs
      /\ phase = "execute" => stack # <<>>
  BY TopEntry, LenProperties DEF TypeOK, AtScript
<1>1. CASE Proceed
  BY <1>1, ExecutedTypes DEF Proceed, TypeOK
<1>2. CASE OnCallingLibraryFunction
  <2>1. Entry("library", Top.vm) \in Entries
    BY <1>0, <1>2 DEF OnCallingLibraryFunction, Entry, Entries
  <2> QED BY <1>0, <1>2, <2>1, Pushing, CountTypes, ExecutedTypes
      DEF OnCallingLibraryFunction, Push, TypeOK
<1>3. ASSUME NEW w \in VMs, OnCallingProgramFunction(w)
      PROVE TypeOK'
  <2>1. Entry("function", w) \in Entries
    BY DEF Entry, Entries
  <2> QED BY <1>0, <1>3, <2>1, Pushing, CountTypes, ExecutedTypes
      DEF OnCallingProgramFunction, Push, TypeOK
<1>4. ASSUME NEW w \in VMs, OnStartingExecution(w)
      PROVE TypeOK'
  <2>1. Entry("global", w) \in Entries
    BY DEF Entry, Entries
  <2> QED BY <1>0, <1>4, <2>1, Pushing, ExecutedTypes DEF OnStartingExecution, Push, TypeOK
<1>5. CASE OnReturnFunction
  <2>1. Len(stack) - 1 \in 0..Len(stack)
    BY <1>0, <1>5 DEF OnReturnFunction
  <2> QED BY <1>5, <2>1, KeepTypes, CountTypes, ExecutedTypes DEF OnReturnFunction
<1>6. CASE OnEndingExecution
  <2>1. Len(stack) - 1 \in 0..Len(stack)
    BY <1>0, <1>6 DEF OnEndingExecution
  <2> QED BY <1>6, <2>1, KeepTypes, ExecutedTypes DEF OnEndingExecution, TypeOK
<1>7. ASSUME NEW n \in 0..Len(stack) - 1, OnStackUnWinding(n)
      PROVE TypeOK'
  <2>0. n \in 0..Len(stack)
    BY <1>0
  <2>1. - CalledIn(stack, n + 1) \in Int
    <3>1. CalledIn(stack, n + 1) \in Nat
      BY <1>0, <2>0, CallsType
    <3> QED BY <3>1
  <2> QED BY <1>7, <2>0, <2>1, KeepTypes, CountTypes, ExecutedTypes DEF OnStackUnWinding
<1>8. ASSUME NEW n \in 0..Len(stack) - 1, OnExecutionError(n)
      PROVE TypeOK'
  <2>1. n \in 0..Len(stack) /\ n - Len(stack) \in Int /\ n \in Nat
    BY <1>0
  <2>2. stack' \in Seq(Entries)
    BY <1>0, <1>8, <2>1, Keeping DEF OnExecutionError
  <2>3. Least(origin.low, n) \in Nat
    BY <2>1 DEF TypeOK, Least
  <2>4. origin' \in [vm : VMs \cup {NoVM}, depth : Nat, calls : Nat, low : Nat,
                     target : Nat, cut : BOOLEAN]
    BY <1>8, <2>3 DEF TypeOK, OnExecutionError
  <2> QED BY <1>8, <2>1, <2>2, <2>4, CountTypes, ExecutedTypes DEF OnExecutionError
<1> QED BY <1>1, <1>2, <1>3, <1>4, <1>5, <1>6, <1>7, <1>8 DEF Execution

\* The variables have their types, of every program, also of one that goes on
\* while a command is posted.
THEOREM TypesHold == Spec => []TypeOK
<1>1. Init => TypeOK
  <2> SUFFICES ASSUME Init PROVE TypeOK
    OBVIOUS
  <2>1. stack \in Seq(Entries) /\ posting \in Seq(Fields)
    BY EmptySeq DEF Init
  <2>2. request \in [cmmd : Commands, vm : VMs \cup {NoVM}, data : Nat]
    BY DEF Init, NoRequest, Commands
  <2>3. origin \in [vm : VMs \cup {NoVM}, depth : Nat, calls : Nat, low : Nat,
                   target : Nat, cut : BOOLEAN]
    BY DEF Init, Nowhere
  <2>4. /\ cmmd \in Commands /\ callNesting \in Int /\ postedBy \in VMs \cup {NoVM}
        /\ data \in Nat /\ pc \in Nat /\ phase = "handle"
    BY DEF Init, Commands
  <2>5. /\ done \in BOOLEAN /\ isBreakFromTraceCommand \in BOOLEAN
        /\ breakExecutionRequested \in BOOLEAN /\ torn \in BOOLEAN
    BY Zenon DEF Init
  <2> QED BY <2>1, <2>2, <2>3, <2>4, <2>5 DEF TypeOK, Fields
<1>2. TypeOK /\ [Next]_vars => TypeOK'
  <2> SUFFICES ASSUME TypeOK, [Next]_vars PROVE TypeOK'
    OBVIOUS
  <2>1. CASE UNCHANGED vars
    BY <2>1 DEF TypeOK, vars, commandVars, postVars, AtScript, Top
  <2> QED BY <2>1, ServiceTypes, BreakTypes, ExecutionTypes DEF Next
<1> QED BY <1>1, <1>2, PTL DEF Spec

-----------------------------------------------------------------------------
(* The inductive invariant.                                                *)

\* A field of the command that is still to be written.
Pending(field) == \E i \in 1..Len(posting) : posting[i] = field

\* Commands are posted in breaks.
Posted ==
    posting # <<>> =>
        /\ cmmd = "None" => phase = "break"
        /\ cmmd # "None" /\ ~torn =>
              /\ phase \in {"break", "execute"}
              /\ request = [cmmd |-> cmmd, vm |-> origin.vm, data |-> origin.target]

\* What is written of the command is where it was posted.
Written ==
    cmmd # "None" /\ ~torn =>
        /\ ~Pending("isBreakFromTraceCommand") /\ cmmd \in TraceCommands
              => isBreakFromTraceCommand
        /\ ~Pending("postedBy") => postedBy = origin.vm
        /\ ~Pending("data") /\ cmmd \in {"SelectiveStepIn", "RunTo"}
              => data = origin.target

\* In a break nothing is counted yet, nor before the next instruction.
AtRest == phase = "break" \/ (posting # <<>> /\ ~torn) => callNesting = 0

\* The property, also while the command is posted.
Counted ==
    cmmd \in TraceCommands /\ ~torn /\ ~origin.cut =>
        callNesting = Calls(stack) - origin.calls

\* A completed command stops the program at once.
DoneAtTest == done => phase = "test" /\ cmmd # "None" /\ Line(Top.vm, pc) # 0

\* Only library functions run programs.
Nested(s) ==
    \A i \in Nat \ {0} :
        i < Len(s) /\ s[i + 1].kind = "global" => s[i].kind = "library"

\* The entry a command was posted in, or the newest entry that is left of its
\* callers: no call more than where it was posted, and less if it was left.
WhereOf(s, o) ==
    /\ o.low <= o.depth /\ o.low <= Len(s)
    /\ CalledTo(s, o.low) <= o.calls
    /\ o.low = o.depth =>
          /\ o.depth >= 1 /\ s[o.depth].kind # "library" /\ s[o.depth].vm = o.vm
          /\ CalledTo(s, o.depth) = o.calls
    /\ o.low < o.depth /\ o.low >= 1 /\ s[o.low].kind # "library"
          => CalledTo(s, o.low) < o.calls

Where == cmmd # "None" /\ ~torn => WhereOf(stack, origin)

IInv == /\ Posted /\ Written /\ AtRest /\ Counted /\ DoneAtTest
        /\ Nested(stack) /\ Where

Origins == [vm : VMs \cup {NoVM}, depth : Nat, calls : Nat, low : Nat,
            target : Nat, cut : BOOLEAN]

-----------------------------------------------------------------------------
(* What calls and returns do to the stack.                                 *)

LEMMA NestedPush ==
    ASSUME NEW s \in Seq(Entries), NEW e \in Entries, Nested(s),
           e.kind = "global" /\ s # <<>> => s[Len(s)].kind = "library"
    PROVE  Nested(Append(s, e))
<1> SUFFICES ASSUME NEW i \in Nat \ {0}, i < Len(Append(s, e)),
                    Append(s, e)[i + 1].kind = "global"
             PROVE  Append(s, e)[i].kind = "library"
  BY DEF Nested
<1>1. /\ Len(s) \in Nat /\ Len(Append(s, e)) = Len(s) + 1
      /\ \A j \in 1..Len(s) : Append(s, e)[j] = s[j]
      /\ Append(s, e)[Len(s) + 1] = e
  BY Pushing
<1>2. CASE i < Len(s)
  BY <1>1, <1>2 DEF Nested
<1>3. CASE i = Len(s)
  <2>1. s # <<>>
    BY <1>3, EmptySeq
  <2> QED BY <1>1, <1>3, <2>1
<1> QED BY <1>1, <1>2, <1>3

LEMMA NestedKeep ==
    ASSUME NEW s \in Seq(Entries), NEW n \in 0..Len(s), Nested(s)
    PROVE  Nested(SubSeq(s, 1, n))
BY Keeping DEF Nested

LEMMA WherePush ==
    ASSUME NEW s \in Seq(Entries), NEW e \in Entries, NEW o \in Origins, WhereOf(s, o)
    PROVE  WhereOf(Append(s, e), o)
<1>1. /\ Len(s) \in Nat /\ Len(Append(s, e)) = Len(s) + 1
      /\ \A j \in 1..Len(s) : Append(s, e)[j] = s[j]
  BY Pushing
<1>2. o.low \in Nat /\ o.depth \in Nat /\ o.calls \in Nat /\ o.low <= Len(s)
  BY DEF Origins, WhereOf
<1>3. \A j \in 1..o.low : Append(s, e)[j] = s[j]
  BY <1>1, <1>2
<1>4. CalledTo(Append(s, e), o.low) = CalledTo(s, o.low)
  <2>0. 1 \in Int /\ o.low \in Int
    BY <1>2
  <2>1. Called(Append(s, e), 1, o.low) = Called(s, 1, o.low)
    BY <2>0, <1>3, CalledSame
  <2> QED BY <2>1 DEF CalledTo
<1>5. o.low >= 1 => Append(s, e)[o.low] = s[o.low]
  BY <1>2, <1>3
<1> QED BY <1>1, <1>2, <1>4, <1>5 DEF WhereOf

\* Fewer entries have no more calls.
LEMMA CalledFewer ==
    ASSUME NEW s, NEW n \in Nat, NEW m \in 0..n
    PROVE  CalledTo(s, m) <= CalledTo(s, n) /\ CalledTo(s, m) \in Nat /\ CalledTo(s, n) \in Nat
<1>1. /\ CalledTo(s, n) = CalledTo(s, m) + Cardinality(Called(s, m + 1, n))
      /\ CalledTo(s, n) \in Nat /\ CalledTo(s, m) \in Nat
      /\ Cardinality(Called(s, m + 1, n)) \in Nat
  BY CalledAdds
<1> QED BY <1>1

LEMMA WhereKeep ==
    ASSUME NEW s \in Seq(Entries), NEW n \in 0..Len(s), NEW o \in Origins,
           NEW p \in Origins, p.vm = o.vm, p.depth = o.depth, p.calls = o.calls,
           p.low = Least(o.low, n), Nested(s), WhereOf(s, o)
    PROVE  WhereOf(SubSeq(s, 1, n), p)
<1> DEFINE t == SubSeq(s, 1, n)
<1>1. /\ Len(s) \in Nat /\ n \in Nat /\ Len(t) = n
      /\ \A i \in 1..n : t[i] = s[i]
  BY Keeping
<1>2. /\ o.low \in Nat /\ o.depth \in Nat /\ o.calls \in Nat
      /\ o.low <= Len(s) /\ o.low <= o.depth /\ CalledTo(s, o.low) <= o.calls
  BY DEF Origins, WhereOf
<1>3. /\ p.low \in Nat /\ p.low <= n /\ p.low <= o.low
      /\ p.low = o.low \/ (p.low = n /\ n < o.low)
  BY <1>1, <1>2 DEF Least
<1>4. CalledTo(t, p.low) = CalledTo(s, p.low)
  <2>1. \A i \in 1..p.low : t[i] = s[i]
    BY <1>1, <1>3
  <2>0. 1 \in Int /\ p.low \in Int
    BY <1>3
  <2>2. Called(t, 1, p.low) = Called(s, 1, p.low)
    BY <2>0, <2>1, CalledSame
  <2> QED BY <2>2 DEF CalledTo
<1>5. p.low >= 1 => t[p.low] = s[p.low]
  BY <1>1, <1>3
<1> HIDE DEF t
<1>6. ASSUME p.low = o.low
      PROVE  WhereOf(t, p)
  BY <1>1, <1>2, <1>3, <1>4, <1>5, <1>6 DEF WhereOf
<1>7. ASSUME p.low = n /\ n < o.low
      PROVE  WhereOf(t, p)
  <2>1. n \in 0..o.low /\ n + 1 \in 0..o.low /\ n + 1 \in Nat \ {0} /\ n + 1 - 1 = n
    BY <1>1, <1>2, <1>7
  <2>2. /\ CalledTo(s, n) <= CalledTo(s, o.low) /\ CalledTo(s, n) \in Nat
        /\ CalledTo(s, o.low) \in Nat
    BY <1>2, <2>1, CalledFewer
  <2>3. CalledTo(s, n + 1) <= CalledTo(s, o.low) /\ CalledTo(s, n + 1) \in Nat
    BY <1>2, <2>1, CalledFewer
  <2>4. IsCalled(s[n + 1]) => CalledTo(s, n + 1) = CalledTo(s, n) + 1
    BY <2>1, CalledNext
  <2>5. n >= 1 /\ s[n].kind # "library" => IsCalled(s[n + 1])
    BY <1>1, <1>2, <1>7 DEF Nested, IsCalled
  <2> QED BY <1>1, <1>2, <1>3, <1>4, <1>5, <1>7, <2>2, <2>3, <2>4, <2>5 DEF WhereOf
<1> QED BY <1>3, <1>6, <1>7 DEF t

LEMMA WhereHere ==
    ASSUME stack \in Seq(Entries), AtScript, NEW target
    PROVE  /\ WhereOf(stack, OriginHere(Top.vm, target))
           /\ Calls(stack) \in Nat /\ Calls(stack) = OriginHere(Top.vm, target).calls
           /\ OriginHere(Top.vm, target).vm = Top.vm
           /\ OriginHere(Top.vm, target).target = target
<1>1. Len(stack) \in Nat \ {0} /\ Top = stack[Len(stack)] /\ Top.kind # "library"
  BY TopEntry DEF AtScript
<1>2. Len(stack) \in 0..Len(stack)
  BY <1>1
<1>3. Calls(stack) = CalledTo(stack, Len(stack)) /\ Calls(stack) \in Nat
  BY <1>2, CallsType
<1> QED BY <1>1, <1>3 DEF WhereOf, OriginHere

-----------------------------------------------------------------------------
(* Posting a command.                                                      *)

LEMMA PostWrites ==
    ASSUME TypeOK, NEW command, NEW value, Post(command, value)
    PROVE  /\ posting' # <<>>
           /\ Pending("isBreakFromTraceCommand")' /\ Pending("postedBy")'
           /\ command \in {"SelectiveStepIn", "RunTo"} => Pending("data")'
<1> DEFINE first == <<"callNesting", "postedBy", "done">>
           mid == IF command \in {"SelectiveStepIn", "RunTo"} THEN <<"data">> ELSE <<>>
           last == <<"isBreakFromTraceCommand">>
<1>1. /\ first \in Seq(Fields) /\ Len(first) = 3 /\ first[2] = "postedBy"
      /\ last \in Seq(Fields) /\ Len(last) = 1 /\ last[1] = "isBreakFromTraceCommand"
  BY DEF Fields
<1>2. /\ mid \in Seq(Fields) /\ Len(mid) \in {0, 1}
      /\ command \in {"SelectiveStepIn", "RunTo"} => Len(mid) = 1 /\ mid[1] = "data"
  <2>1. /\ <<"data">> \in Seq(Fields) /\ Len(<<"data">>) = 1 /\ <<"data">>[1] = "data"
        /\ <<>> \in Seq(Fields) /\ Len(<<>>) = 0
    BY DEF Fields
  <2>2. CASE command \in {"SelectiveStepIn", "RunTo"}
    <3>1. mid = <<"data">>
      BY <2>2
    <3> QED BY <2>1, <3>1
  <2>3. CASE command \notin {"SelectiveStepIn", "RunTo"}
    <3>1. mid = <<>>
      BY <2>3
    <3> QED BY <2>1, <2>3, <3>1
  <2> QED BY <2>2, <2>3
<1>3. posting' = (first \o mid) \o last
  BY DEF Post
<1> HIDE DEF first, mid, last
<1>4. /\ Len(posting') = 4 + Len(mid) /\ posting'[2] = "postedBy"
      /\ Len(mid) = 1 => posting'[4] = mid[1]
      /\ posting'[4 + Len(mid)] = last[1]
  <2>1. /\ first \o mid \in Seq(Fields) /\ Len(first \o mid) = Len(first) + Len(mid)
        /\ \A i \in 1..Len(first) + Len(mid) : (first \o mid)[i] =
              IF i <= Len(first) THEN first[i] ELSE mid[i - Len(first)]
    BY <1>1, <1>2, ConcatProperties
  <2> DEFINE front == first \o mid
  <2> HIDE DEF front
  <2>2. front \in Seq(Fields) /\ posting' = front \o last
    BY <1>3, <2>1 DEF front
  <2>3. /\ Len(posting') = Len(front) + Len(last)
        /\ \A i \in 1..Len(front) + Len(last) : posting'[i] =
              IF i <= Len(front) THEN front[i] ELSE last[i - Len(front)]
    BY <1>1, <2>2, ConcatProperties
  <2>4. /\ Len(front) = Len(first) + Len(mid)
        /\ \A i \in 1..Len(first) + Len(mid) : front[i] =
              IF i <= Len(first) THEN first[i] ELSE mid[i - Len(first)]
    BY <2>1 DEF front
  <2>5. CASE Len(mid) = 0
    BY <1>1, <2>3, <2>4, <2>5
  <2>6. CASE Len(mid) = 1
    BY <1>1, <2>3, <2>4, <2>6
  <2> QED BY <1>2, <2>5, <2>6
<1>5. Pending("postedBy")' /\ Pending("isBreakFromTraceCommand")'
  BY <1>1, <1>2, <1>4 DEF Pending
<1>6. command \in {"SelectiveStepIn", "RunTo"} => Pending("data")'
  BY <1>2, <1>4 DEF Pending
<1>7. posting' # <<>>
  <2>1. Len(posting') > 0
    BY <1>2, <1>4
  <2> QED BY <2>1
<1> QED BY <1>5, <1>6, <1>7

LEMMA PostKeeps ==
    ASSUME TypeOK, IInv, NEW command \in Commands \ {"None"}, NEW value,
           Post(command, value)
    PROVE  IInv'
<1>1. AtScript /\ stack \in Seq(Entries)
  BY DEF TypeOK, Post
<1>2. /\ WhereOf(stack, OriginHere(Top.vm, value))
      /\ Calls(stack) \in Nat /\ Calls(stack) = OriginHere(Top.vm, value).calls
      /\ OriginHere(Top.vm, value).vm = Top.vm
      /\ OriginHere(Top.vm, value).target = value
  BY <1>1, WhereHere
<1>3. /\ phase' = phase /\ phase = "break" /\ cmmd' = command /\ cmmd = "None"
      /\ stack' = stack /\ callNesting' = callNesting /\ done' = done
      /\ origin' = OriginHere(Top.vm, value)
      /\ request' = [cmmd |-> command, vm |-> Top.vm, data |-> value]
      /\ torn' = torn
  BY DEF Post
<1>4. Posted'
  BY <1>2, <1>3 DEF Posted
<1>5. Written'
  BY <1>3, PostWrites DEF Written
<1>6. AtRest' /\ DoneAtTest'
  BY <1>3 DEF IInv, AtRest, DoneAtTest
<1>7. Counted'
  BY <1>2, <1>3 DEF IInv, AtRest, Counted
<1>8. Nested(stack)' /\ Where'
  BY <1>2, <1>3 DEF IInv, Where
<1> QED BY <1>4, <1>5, <1>6, <1>7, <1>8 DEF IInv

\* A write that is no longer pending has been made.
LEMMA WritePending ==
    ASSUME TypeOK, posting # <<>>, posting' = Tail(posting), NEW field, ~Pending(field)'
    PROVE  Head(posting) = field \/ ~Pending(field)
<1> SUFFICES ASSUME Pending(field) PROVE Head(posting) = field
  OBVIOUS
<1>1. posting \in Seq(Fields)
  BY DEF TypeOK, Fields
<1>2. /\ Len(posting) \in Nat /\ Len(Tail(posting)) = Len(posting) - 1
      /\ \A i \in 1..Len(Tail(posting)) : Tail(posting)[i] = posting[i + 1]
  BY <1>1, LenProperties, HeadTailProperties
<1>3. PICK i \in 1..Len(posting) : posting[i] = field
  BY DEF Pending
<1>4. CASE i = 1
  BY <1>1, <1>3, <1>4
<1>5. CASE i # 1
  <2>1. i - 1 \in 1..Len(Tail(posting)) /\ Tail(posting)[i - 1] = field
    BY <1>2, <1>3, <1>5
  <2> QED BY <2>1 DEF Pending
<1> QED BY <1>4, <1>5

LEMMA WriteKeeps ==
    ASSUME TypeOK, IInv, WriteField
    PROVE  IInv'
<1>0. /\ stack' = stack /\ phase' = phase /\ pc' = pc /\ cmmd' = cmmd /\ origin' = origin
      /\ torn' = torn /\ posting # <<>> /\ posting' = Tail(posting)
      /\ callNesting' \in {0, callNesting} /\ done' \in {FALSE, done}
  BY DEF WriteField
<1>a. CASE cmmd = "None" \/ torn
  <2>1. posting # <<>> /\ (cmmd = "None" => phase = "break")
    BY <1>0 DEF IInv, Posted
  <2>2. Posted'
    BY <1>0, <1>a, <2>1 DEF Posted
  <2>5. DoneAtTest'
    <3>1. done => phase = "test" /\ cmmd # "None" /\ Line(Top.vm, pc) # 0
      BY DEF IInv, DoneAtTest
    <3>2. done' => done
      BY <1>0
    <3> QED BY <1>0, <3>1, <3>2 DEF DoneAtTest, Top
  <2>4. AtRest'
    <3>1. phase = "break" => callNesting = 0
      BY DEF IInv, AtRest
    <3> QED BY <1>0, <1>a, <2>1, <3>1 DEF AtRest
  <2>3. Written' /\ Counted' /\ Where' /\ Nested(stack)'
    BY <1>0, <1>a DEF IInv, Written, Counted, Where, TraceCommands
  <2> QED BY <2>2, <2>3, <2>4, <2>5 DEF IInv
<1> SUFFICES ASSUME cmmd # "None", ~torn PROVE IInv'
  BY <1>a
<1>1. /\ posting # <<>> /\ callNesting = 0 /\ phase \in {"break", "execute"}
      /\ request.cmmd = cmmd /\ request.vm = origin.vm /\ request.data = origin.target
      /\ ~done
  BY DEF IInv, Posted, AtRest, DoneAtTest, WriteField
<1>2. /\ stack' = stack /\ phase' = phase /\ pc' = pc /\ cmmd' = cmmd /\ origin' = origin
      /\ callNesting' = 0 /\ ~done' /\ posting' = Tail(posting) /\ torn' = torn
      /\ posting' # <<>> => request' = request
      /\ postedBy' = IF Head(posting) = "postedBy" THEN request.vm ELSE postedBy
      /\ data' = IF Head(posting) = "data" THEN request.data ELSE data
  <2>1. posting' # <<>> => Len(posting) # 1
    <3>1. posting \in Seq(Fields) /\ Len(Tail(posting)) = Len(posting) - 1
          /\ Tail(posting) \in Seq(Fields)
      BY <1>1, HeadTailProperties DEF TypeOK, Fields
    <3>2. Tail(posting) # <<>> => Len(Tail(posting)) \in Nat \ {0}
      BY <3>1, EmptySeq
    <3>3. Len(posting) = 1 => Tail(posting) = <<>>
      BY <3>1, <3>2
    <3> QED BY <3>3 DEF WriteField
  <2> QED BY <1>1, <2>1 DEF WriteField
<1>3. isBreakFromTraceCommand' = IF Head(posting) = "isBreakFromTraceCommand"
         THEN request.cmmd # "Continue" ELSE isBreakFromTraceCommand
  BY DEF WriteField
<1>4. Posted'
  BY <1>1, <1>2 DEF IInv, Posted
<1>5. Written'
  <2>1. ~Pending("isBreakFromTraceCommand")' /\ cmmd \in TraceCommands
           => isBreakFromTraceCommand'
    <3> SUFFICES ASSUME ~Pending("isBreakFromTraceCommand")', cmmd \in TraceCommands
                 PROVE  isBreakFromTraceCommand'
      OBVIOUS
    <3>1. CASE Head(posting) = "isBreakFromTraceCommand"
      BY <1>1, <1>3, <3>1 DEF TraceCommands
    <3>2. CASE Head(posting) # "isBreakFromTraceCommand"
      <4>1. ~Pending("isBreakFromTraceCommand")
        BY <1>1, <1>2, <3>2, WritePending
      <4>2. isBreakFromTraceCommand
        BY <1>1, <4>1 DEF IInv, Written
      <4> QED BY <1>3, <3>2, <4>2
    <3> QED BY <3>1, <3>2
  <2>2. ~Pending("postedBy")' => postedBy' = origin.vm
    BY <1>1, <1>2, WritePending DEF IInv, Written
  <2>3. ~Pending("data")' /\ cmmd \in {"SelectiveStepIn", "RunTo"} => data' = origin.target
    BY <1>1, <1>2, WritePending DEF IInv, Written
  <2> QED BY <1>2, <2>1, <2>2, <2>3 DEF Written
<1>6. AtRest' /\ DoneAtTest' /\ Counted' /\ Nested(stack)' /\ Where'
  BY <1>1, <1>2 DEF IInv, AtRest, DoneAtTest, Counted, Where
<1> QED BY <1>4, <1>5, <1>6 DEF IInv

LEMMA ServiceKeeps ==
    ASSUME TypeOK, IInv, ServiceThread
    PROVE  IInv'
<1> USE DEF Commands, TraceCommands
<1>1. CASE Step \/ StepIn \/ StepOut \/ Continue
  BY <1>1, PostKeeps DEF Step, StepIn, StepOut, Continue
<1>2. CASE SelectiveStepIn
  <2>1. PICK target : Post("SelectiveStepIn", target)
    BY <1>2 DEF SelectiveStepIn
  <2> QED BY <2>1, PostKeeps
<1>3. CASE RunTo
  <2>1. PICK i : Post("RunTo", Line(Top.vm, i))
    BY <1>3 DEF RunTo
  <2> QED BY <2>1, PostKeeps
<1>4. CASE WriteField
  BY <1>4, WriteKeeps
<1>5. CASE BreakExecution
  BY <1>5 DEF BreakExecution, commandVars, postVars, IInv, Posted, Written, AtRest,
              Counted, DoneAtTest, Where, Pending, Top
<1> QED BY <1>1, <1>2, <1>3, <1>4, <1>5 DEF ServiceThread

-----------------------------------------------------------------------------
(* Breaks.                                                                 *)

LEMMA StopKeeps ==
    ASSUME TypeOK, IInv, phase # "break", NEW marked, Stop(marked)
    PROVE  IInv'
<1>1. phase' = "break"
  BY DEF Stop
<1>2. cmmd' = "None" /\ callNesting' = 0 /\ ~done' /\ stack' = stack
  BY DEF Stop
<1>3. Nested(stack)'
  BY <1>2 DEF IInv
<1> QED BY <1>1, <1>2, <1>3
    DEF IInv, Posted, Written, AtRest, Counted, DoneAtTest, Where, TraceCommands

\* The trace command handler, where a command may be completed.
LEMMA HandleKeeps ==
    ASSUME TypeOK, IInv, NEW i, HandleAnyTraceCommand(i)
    PROVE  IInv'
<1>1. /\ posting' = posting /\ phase = "handle" /\ phase' = "test" /\ torn' = torn
      /\ pc' = i /\ stack' = stack /\ data' = data /\ AtScript /\ ~done
      /\ isBreakFromTraceCommand' = isBreakFromTraceCommand
      /\ stack \in Seq(Entries)
  BY DEF IInv, Posted, DoneAtTest, HandleAnyTraceCommand, postVars, TypeOK
<1>0. ~torn => posting = <<>>
  BY <1>1 DEF IInv, Posted
<1>2. Posted' /\ AtRest' /\ Nested(stack)'
  <2>1. cmmd' = "None" => cmmd = "None"
    BY DEF HandleAnyTraceCommand
  <2> QED BY <1>0, <1>1, <2>1 DEF IInv, Posted, AtRest
<1>3. ~torn => /\ ~Pending("isBreakFromTraceCommand") /\ ~Pending("postedBy")
                /\ ~Pending("data")
  BY <1>0, EmptySeq DEF Pending
<1>4. DoneAtTest'
  <2> SUFFICES ASSUME done' PROVE (cmmd # "None" /\ Line(Top.vm, pc) # 0)'
    BY <1>1 DEF DoneAtTest
  <2>1. Line(Top.vm, i) # 0 /\ cmmd # "None"
    BY <1>1 DEF HandleAnyTraceCommand
  <2>2. cmmd' # "None"
    BY <2>1 DEF HandleAnyTraceCommand
  <2>3. Top' = Top
    BY <1>1 DEF Top
  <2> QED BY <1>1, <2>1, <2>2, <2>3 DEF Line
<1>b. CASE torn
  <2>1. Written' /\ Counted' /\ Where'
    BY <1>1, <1>b DEF Written, Counted, Where
  <2> QED BY <1>2, <1>4, <2>1 DEF IInv
<1> SUFFICES ASSUME ~torn PROVE IInv'
  BY <1>b
<1>5. CASE cmmd' = "StepIn" /\ callNesting' = 0 /\ postedBy' = Top.vm
           /\ origin' = OriginHere(Top.vm, 0) /\ cmmd = "SelectiveStepIn"
  <2>1. isBreakFromTraceCommand
    BY <1>3, <1>5 DEF IInv, Written, TraceCommands
  <2>2. /\ WhereOf(stack, origin') /\ Calls(stack) \in Nat
        /\ Calls(stack) = origin'.calls /\ origin'.vm = Top.vm
    BY <1>1, <1>5, WhereHere
  <2>3. Where'
    BY <1>1, <2>2 DEF Where
  <2>4. Written'
    BY <1>1, <1>5, <2>1, <2>2 DEF Written
  <2>5. Counted'
    BY <1>1, <1>5, <2>2 DEF Counted
  <2> QED BY <1>2, <1>4, <2>3, <2>4, <2>5 DEF IInv
<1>6. CASE UNCHANGED <<cmmd, callNesting, postedBy, origin>>
  <2>1. Written' /\ Counted' /\ Where'
    BY <1>1, <1>3, <1>6 DEF IInv, Written, Counted, Where
  <2> QED BY <1>2, <1>4, <2>1 DEF IInv
<1>7. \/ /\ cmmd' = "StepIn" /\ callNesting' = 0 /\ postedBy' = Top.vm
         /\ origin' = OriginHere(Top.vm, 0) /\ cmmd = "SelectiveStepIn"
      \/ UNCHANGED <<cmmd, callNesting, postedBy, origin>>
  BY DEF HandleAnyTraceCommand
<1> QED BY <1>5, <1>6, <1>7

LEMMA BreakKeeps ==
    ASSUME TypeOK, IInv, Breaks
    PROVE  IInv'
<1>1. CASE LeaveBreak
  BY <1>1 DEF LeaveBreak, commandVars, postVars, IInv, Posted, Written, AtRest,
              Counted, DoneAtTest, Where, Pending, Top
<1>2. CASE IsBreakPointTime
  BY <1>2, StopKeeps DEF IsBreakPointTime
<1>3. CASE IsNoBreakPointTime
  <2>1. ~done
    BY <1>3 DEF IsNoBreakPointTime, IInv, DoneAtTest, IsTraceCommandCompleted
  <2>2. /\ posting # <<>> => torn
        /\ posting # <<>> => cmmd # "None"
    BY <1>3 DEF IsNoBreakPointTime, IInv, Posted
  <2> QED BY <1>3, <2>1, <2>2
      DEF IsNoBreakPointTime, commandVars, postVars, IInv, Posted, Written, AtRest,
          Counted, DoneAtTest, Where, Pending
<1>4. CASE OnArtificialBreakPoint
  BY <1>4, StopKeeps DEF OnArtificialBreakPoint
<1>5. CASE AtScript /\ \E i \in DOMAIN Code[Top.vm] : HandleAnyTraceCommand(i)
  BY <1>5, HandleKeeps
<1> QED BY <1>1, <1>2, <1>3, <1>4, <1>5 DEF Breaks

-----------------------------------------------------------------------------
(* Calls and returns.                                                      *)

\* What is left to show of an instruction or of native code.
LEMMA ExecutedKeeps ==
    ASSUME TypeOK, IInv, phase \in {"execute", "handle"}, Executed,
           Nested(stack'), cmmd # "None" /\ ~torn => WhereOf(stack', origin'),
           origin'.vm = origin.vm, origin'.target = origin.target,
           cmmd \in TraceCommands /\ ~torn /\ isBreakFromTraceCommand /\ ~origin'.cut =>
               callNesting' = Calls(stack') - origin.calls,
           origin'.calls = origin.calls
    PROVE  IInv'
<1>a. CASE torn'
  <2>1. /\ posting' = posting /\ cmmd' = cmmd /\ ~done' /\ phase' = "handle"
        /\ posting # <<>> => cmmd # "None"
    BY DEF IInv, Posted, DoneAtTest, Executed, postVars
  <2> QED BY <1>a, <2>1 DEF IInv, Posted, Written, AtRest, Counted, DoneAtTest, Where
<1> SUFFICES ASSUME ~torn' PROVE IInv'
  BY <1>a
<1>0. ~torn /\ posting = <<>>
  BY DEF Executed
<1>1. /\ posting = <<>> /\ posting' = <<>> /\ cmmd' = cmmd /\ ~done /\ ~done'
      /\ postedBy' = postedBy /\ data' = data /\ phase' = "handle"
      /\ isBreakFromTraceCommand' = isBreakFromTraceCommand
  BY <1>0 DEF IInv, DoneAtTest, Executed, postVars
<1>2. ~Pending("isBreakFromTraceCommand") /\ ~Pending("postedBy") /\ ~Pending("data")
  BY <1>1, EmptySeq DEF Pending
<1>3. Posted' /\ AtRest' /\ DoneAtTest'
  BY <1>1 DEF Posted, AtRest, DoneAtTest
<1>4. Written'
  BY <1>0, <1>1, <1>2 DEF IInv, Written
<1>5. cmmd \in TraceCommands => isBreakFromTraceCommand
  BY <1>0, <1>2 DEF IInv, Written, TraceCommands
<1>6. Counted'
  BY <1>0, <1>1, <1>5 DEF Counted, Calls, CalledIn, IsCalled
<1>7. Where' /\ Nested(stack)'
  BY <1>0, <1>1 DEF Where
<1> QED BY <1>3, <1>4, <1>6, <1>7 DEF IInv

LEMMA PushKeeps ==
    ASSUME TypeOK, IInv, phase \in {"execute", "handle"}, Executed,
           NEW e \in Entries, Push(e),
           e.kind = "global" /\ stack # <<>> => stack[Len(stack)].kind = "library",
           IsCalled(e) => Count(1), ~IsCalled(e) => UNCHANGED callNesting
    PROVE  IInv'
<1>1. /\ stack' = Append(stack, e) /\ stack \in Seq(Entries) /\ origin' = origin
      /\ origin \in Origins /\ callNesting \in Int
  BY DEF Push, TypeOK, Origins
<1>2. Nested(stack')
  BY <1>1, NestedPush DEF IInv
<1>3. cmmd # "None" /\ ~torn => WhereOf(stack', origin')
  BY <1>1, WherePush DEF IInv, Where
<1>4. /\ Calls(stack) \in Nat
      /\ Calls(stack') = Calls(stack) + (IF IsCalled(e) THEN 1 ELSE 0)
  <2> DEFINE t == Append(stack, e)
             n == Len(stack)
  <2>1. /\ t \in Seq(Entries) /\ n \in Nat /\ Len(t) = n + 1
        /\ \A i \in 1..n : t[i] = stack[i]
        /\ t[n + 1] = e
    BY <1>1, Pushing
  <2>2. n \in 0..n /\ n + 1 \in 0..n + 1 /\ n + 1 \in Nat \ {0} /\ n + 1 - 1 = n
        /\ 1 \in Int /\ n \in Int
    BY <2>1
  <2> HIDE DEF t, n
  <2>3. Calls(t) = CalledTo(t, n + 1)
    BY <2>1, <2>2, CallsType
  <2>4. Calls(stack) = CalledTo(stack, n) /\ Calls(stack) \in Nat
    BY <1>1, <2>2, CallsType DEF n
  <2>5. CalledTo(t, n) = CalledTo(stack, n)
    <3>1. Called(t, 1, n) = Called(stack, 1, n)
      BY <2>1, <2>2, CalledSame
    <3> QED BY <3>1 DEF CalledTo
  <2>6. CalledTo(t, n + 1) = CalledTo(t, n) + (IF IsCalled(e) THEN 1 ELSE 0)
    BY <2>1, <2>2, <2>4, <2>5, CalledNext
  <2>7. stack' = t
    BY <1>1 DEF t
  <2> QED BY <2>3, <2>4, <2>5, <2>6, <2>7
<1>5. cmmd \in TraceCommands /\ ~torn /\ isBreakFromTraceCommand /\ ~origin'.cut =>
          callNesting' = Calls(stack') - origin.calls
  <2> SUFFICES ASSUME cmmd \in TraceCommands, ~torn, isBreakFromTraceCommand, ~origin.cut
               PROVE  callNesting' = Calls(stack') - origin.calls
    BY <1>1
  <2>1. callNesting = Calls(stack) - origin.calls /\ origin.calls \in Nat
    BY <1>1 DEF IInv, Counted, Origins
  <2>2. callNesting' = callNesting + (IF IsCalled(e) THEN 1 ELSE 0)
    BY <1>1 DEF Count
  <2> QED BY <1>1, <1>4, <2>1, <2>2
<1> QED BY <1>1, <1>2, <1>3, <1>5, ExecutedKeeps

\* The entries above n are left; without an error each call of them is counted.
LEMMA LeaveKeeps ==
    ASSUME TypeOK, IInv, phase \in {"execute", "handle"}, Executed,
           NEW n \in 0..Len(stack), stack' = SubSeq(stack, 1, n), origin' \in Origins,
           origin'.vm = origin.vm, origin'.target = origin.target,
           origin'.depth = origin.depth, origin'.calls = origin.calls,
           origin'.low = Least(origin.low, n), origin.cut => origin'.cut,
           ~origin'.cut /\ isBreakFromTraceCommand =>
               callNesting' = callNesting - CalledIn(stack, n + 1)
    PROVE  IInv'
<1>1. stack \in Seq(Entries) /\ origin \in Origins /\ callNesting \in Int
  BY DEF TypeOK, Origins
<1>2. Nested(stack')
  BY <1>1, NestedKeep DEF IInv
<1>3. cmmd # "None" /\ ~torn => WhereOf(stack', origin')
  BY <1>1, WhereKeep DEF IInv, Where
<1>4. /\ Calls(stack) \in Nat /\ Calls(stack') \in Nat
      /\ Calls(stack') = Calls(stack) - CalledIn(stack, n + 1)
      /\ CalledIn(stack, n + 1) \in Nat
  <2> DEFINE t == SubSeq(stack, 1, n)
  <2>1. /\ t \in Seq(Entries) /\ Len(stack) \in Nat /\ n \in Nat /\ Len(t) = n
        /\ \A i \in 1..n : t[i] = stack[i]
    BY <1>1, Keeping
  <2>2. n \in 0..n /\ 1 \in Int /\ n \in Int
    BY <2>1
  <2> HIDE DEF t
  <2>3. Calls(t) = CalledTo(t, n) /\ Calls(t) \in Nat
    BY <2>1, <2>2, CallsType
  <2>4. CalledTo(t, n) = CalledTo(stack, n)
    <3>1. Called(t, 1, n) = Called(stack, 1, n)
      BY <2>1, <2>2, CalledSame
    <3> QED BY <3>1 DEF CalledTo
  <2>5. /\ Calls(stack) \in Nat /\ CalledIn(stack, n + 1) \in Nat
        /\ CalledTo(stack, n) \in Nat
        /\ CalledIn(stack, n + 1) = Calls(stack) - CalledTo(stack, n)
    BY <1>1, CallsType
  <2>6. Calls(t) = Calls(stack) - CalledIn(stack, n + 1)
    BY <2>3, <2>4, <2>5
  <2>7. Calls(stack') = Calls(t)
    BY DEF t
  <2> QED BY <2>3, <2>5, <2>6, <2>7
<1>5. cmmd \in TraceCommands /\ ~torn /\ isBreakFromTraceCommand /\ ~origin'.cut =>
          callNesting' = Calls(stack') - origin.calls
  <2> SUFFICES ASSUME cmmd \in TraceCommands, ~torn, isBreakFromTraceCommand, ~origin'.cut
               PROVE  callNesting' = Calls(stack') - origin.calls
    OBVIOUS
  <2>1. callNesting = Calls(stack) - origin.calls /\ origin.calls \in Nat
    BY <1>1 DEF IInv, Counted, Origins
  <2> QED BY <1>1, <1>4, <2>1
<1> QED BY <1>2, <1>3, <1>5, ExecutedKeeps

LEMMA ExecutionKeeps ==
    ASSUME TypeOK, IInv, Execution
    PROVE  IInv'
<1>0. /\ stack \in Seq(Entries) /\ Len(stack) \in Nat /\ origin \in Origins
      /\ stack # <<>> => /\ Len(stack) \in Nat \ {0} /\ Top = stack[Len(stack)]
                         /\ Top \in Entries /\ Top.vm \in VMs
      /\ phase = "execute" => AtScript
  BY TopEntry, LenProperties DEF TypeOK, Origins
<1>1. CASE Proceed
  <2>1. cmmd \in TraceCommands /\ ~torn /\ ~origin.cut =>
            callNesting = Calls(stack) - origin.calls
    BY DEF IInv, Counted
  <2> QED BY <1>1, <2>1, ExecutedKeeps DEF Proceed, IInv, Where
<1>2. CASE OnCallingLibraryFunction
  <2>1. /\ Entry("library", Top.vm) \in Entries /\ IsCalled(Entry("library", Top.vm))
        /\ Entry("library", Top.vm).kind # "global"
    BY <1>0, <1>2 DEF OnCallingLibraryFunction, Entry, Entries, IsCalled, AtScript
  <2> QED BY <1>2, <2>1, PushKeeps DEF OnCallingLibraryFunction
<1>3. ASSUME NEW w \in VMs, OnCallingProgramFunction(w)
      PROVE IInv'
  <2>1. /\ Entry("function", w) \in Entries /\ IsCalled(Entry("function", w))
        /\ Entry("function", w).kind # "global"
    BY DEF Entry, Entries, IsCalled
  <2> QED BY <1>3, <2>1, PushKeeps DEF OnCallingProgramFunction, AtNative
<1>4. ASSUME NEW w \in VMs, OnStartingExecution(w)
      PROVE IInv'
  <2>1. Entry("global", w) \in Entries /\ ~IsCalled(Entry("global", w))
    BY DEF Entry, Entries, IsCalled
  <2>2. stack # <<>> => stack[Len(stack)].kind = "library"
    BY <1>0, <1>4 DEF OnStartingExecution, AtNative, AtScript
  <2> QED BY <1>4, <2>1, <2>2, PushKeeps DEF OnStartingExecution, AtNative
<1>5. ASSUME NEW n \in 0..Len(stack), Keep(n), Executed, phase \in {"execute", "handle"},
             isBreakFromTraceCommand => callNesting' = callNesting - CalledIn(stack, n + 1)
      PROVE  IInv'
  <2>1. /\ stack' = SubSeq(stack, 1, n)
        /\ origin' = [origin EXCEPT !.low = Least(origin.low, n)]
    BY <1>5 DEF Keep
  <2>2. Least(origin.low, n) \in Nat
    BY <1>0 DEF Origins, Least
  <2>3. /\ origin' \in Origins /\ origin'.vm = origin.vm /\ origin'.target = origin.target
        /\ origin'.depth = origin.depth /\ origin'.calls = origin.calls
        /\ origin'.low = Least(origin.low, n) /\ origin'.cut = origin.cut
    BY <1>0, <2>1, <2>2 DEF Origins
  <2> QED BY <1>5, <2>1, <2>3, LeaveKeeps
<1>6. CASE OnReturnFunction
  <2>1. /\ stack # <<>> /\ Top.kind # "global" /\ phase \in {"execute", "handle"}
    BY <1>0, <1>6 DEF OnReturnFunction, AtNative, AtScript
  <2>2. Len(stack) - 1 \in 0..Len(stack)
    BY <1>0, <2>1
  <2>3. CalledIn(stack, Len(stack) - 1 + 1) = 1
    <3>1. CalledIn(stack, Len(stack) - 1 + 1) = Calls(stack) - CalledTo(stack, Len(stack) - 1)
      BY <1>0, <2>2, CallsType
    <3>2. Calls(stack) = CalledTo(stack, Len(stack))
      BY <1>0, <2>2, CallsType
    <3>3. /\ CalledTo(stack, Len(stack)) = CalledTo(stack, Len(stack) - 1) + 1
          /\ CalledTo(stack, Len(stack) - 1) \in Nat
      BY <1>0, <2>1, CalledNext DEF IsCalled
    <3> QED BY <3>1, <3>2, <3>3
  <2>4. isBreakFromTraceCommand => callNesting' = callNesting - 1
    BY <1>6 DEF OnReturnFunction, Count, TypeOK
  <2> QED BY <1>5, <1>6, <2>1, <2>2, <2>3, <2>4 DEF OnReturnFunction
<1>7. CASE OnEndingExecution
  <2>1. /\ stack # <<>> /\ Top.kind = "global" /\ phase = "execute"
    BY <1>0, <1>7 DEF OnEndingExecution, AtScript
  <2>2. Len(stack) - 1 \in 0..Len(stack)
    BY <1>0, <2>1
  <2>3. CalledIn(stack, Len(stack) - 1 + 1) = 0
    <3>1. CalledIn(stack, Len(stack) - 1 + 1) = Calls(stack) - CalledTo(stack, Len(stack) - 1)
      BY <1>0, <2>2, CallsType
    <3>2. Calls(stack) = CalledTo(stack, Len(stack))
      BY <1>0, <2>2, CallsType
    <3>3. /\ CalledTo(stack, Len(stack)) = CalledTo(stack, Len(stack) - 1)
          /\ CalledTo(stack, Len(stack) - 1) \in Nat
      BY <1>0, <2>1, CalledNext DEF IsCalled
    <3> QED BY <3>1, <3>2, <3>3
  <2>4. callNesting' = callNesting - 0
    BY <1>7 DEF OnEndingExecution, TypeOK
  <2> QED BY <1>5, <1>7, <2>1, <2>2, <2>3, <2>4 DEF OnEndingExecution
<1>8. ASSUME NEW n \in 0..Len(stack) - 1, OnStackUnWinding(n)
      PROVE IInv'
  <2>1. n \in 0..Len(stack) /\ phase \in {"execute", "handle"}
    BY <1>0, <1>8 DEF OnStackUnWinding, AtNative
  <2>2. CalledIn(stack, n + 1) \in Nat
    BY <1>0, <2>1, CallsType
  <2>3. isBreakFromTraceCommand => callNesting' = callNesting - CalledIn(stack, n + 1)
    BY <1>8, <2>2 DEF OnStackUnWinding, Count, TypeOK
  <2> QED BY <1>5, <1>8, <2>1, <2>3 DEF OnStackUnWinding
<1>9. ASSUME NEW n \in 0..Len(stack) - 1, OnExecutionError(n)
      PROVE IInv'
  <2> DEFINE takesGlobal == \E i \in n + 1..Len(stack) : stack[i].kind = "global"
  <2>1. n \in 0..Len(stack) /\ n \in Nat /\ phase \in {"execute", "handle"}
    BY <1>0, <1>9 DEF OnExecutionError, AtNative
  <2>2. /\ stack' = SubSeq(stack, 1, n) /\ Executed
        /\ origin' = [origin EXCEPT !.low = Least(origin.low, n),
                                    !.cut = origin.cut \/ takesGlobal]
    BY <1>9 DEF OnExecutionError
  <2>3. Least(origin.low, n) \in Nat
    BY <1>0, <2>1 DEF Origins, Least
  <2>4. /\ origin' \in Origins /\ origin'.vm = origin.vm /\ origin'.target = origin.target
        /\ origin'.depth = origin.depth /\ origin'.calls = origin.calls
        /\ origin'.low = Least(origin.low, n)
        /\ origin'.cut = (origin.cut \/ takesGlobal)
    BY <1>0, <2>2, <2>3 DEF Origins
  <2>5. ~takesGlobal => CalledIn(stack, n + 1) = Len(stack) - n
    <3> SUFFICES ASSUME ~takesGlobal PROVE CalledIn(stack, n + 1) = Len(stack) - n
      OBVIOUS
    <3>1. \A i \in n + 1..Len(stack) : IsCalled(stack[i])
      BY DEF IsCalled
    <3>2. CalledTo(stack, Len(stack)) = CalledTo(stack, n) + (Len(stack) - n)
      BY <1>0, <2>1, <3>1, CalledAll
    <3>3. /\ Calls(stack) = CalledTo(stack, Len(stack)) /\ CalledTo(stack, n) \in Nat
          /\ CalledIn(stack, n + 1) = Calls(stack) - CalledTo(stack, n)
      BY <1>0, <2>1, CallsType
    <3> QED BY <1>0, <2>1, <3>2, <3>3
  <2>6. isBreakFromTraceCommand => callNesting' = callNesting + (n - Len(stack))
    BY <1>9 DEF OnExecutionError, Count
  <2> HIDE DEF takesGlobal
  <2>7. ~origin'.cut /\ isBreakFromTraceCommand =>
            callNesting' = callNesting - CalledIn(stack, n + 1)
    <3> SUFFICES ASSUME ~origin'.cut, isBreakFromTraceCommand
                 PROVE  callNesting' = callNesting - CalledIn(stack, n + 1)
      OBVIOUS
    <3>1. ~takesGlobal
      BY <2>4
    <3> QED BY <1>0, <2>1, <2>5, <2>6, <3>1 DEF TypeOK
  <2>8. origin.cut => origin'.cut
    BY <2>4
  <2> QED BY <2>1, <2>2, <2>4, <2>7, <2>8, LeaveKeeps
<1> QED BY <1>1, <1>2, <1>3, <1>4, <1>6, <1>7, <1>8, <1>9 DEF Execution

-----------------------------------------------------------------------------
(* The theorems.                                                           *)

\* The inductive invariant holds.
THEOREM InvariantHolds ==
    Spec => [](TypeOK /\ IInv)
<1>1. Init => IInv
  <2> SUFFICES ASSUME Init PROVE IInv
    OBVIOUS
  <2>1. Nested(stack)
    <3>1. Len(stack) = 0
      BY EmptySeq DEF Init
    <3> QED BY <3>1 DEF Nested
  <2> QED BY <2>1 DEF Init, IInv, Posted, Written, AtRest, Counted, DoneAtTest, Where,
                      TraceCommands
<1>2. TypeOK /\ IInv /\ [Next]_vars => IInv'
  <2> SUFFICES ASSUME TypeOK, IInv, [Next]_vars PROVE IInv'
    OBVIOUS
  <2>1. CASE UNCHANGED vars
    BY <2>1 DEF vars, commandVars, postVars, IInv, Posted, Written, AtRest, Counted,
                DoneAtTest, Where, Pending, Top
  <2> QED BY <2>1, ServiceKeeps, BreakKeeps, ExecutionKeeps DEF Next
<1> QED BY <1>1, <1>2, TypesHold, PTL DEF Spec

\* callNesting counts the calls since the command was posted, over all virtual
\* machines and however the calls end.
THEOREM NestingIsCounted ==
    Spec => []NestingCountsCalls
<1>1. IInv => NestingCountsCalls
  BY DEF IInv, Counted, NestingCountsCalls, Traced
<1> QED BY <1>1, InvariantHolds, PTL

-----------------------------------------------------------------------------
(* Where commands stop.                                                    *)

LEMMA OnlyTheHandlerHandles ==
    ASSUME TypeOK, [Next]_vars, IsHandled
    PROVE  AtScript /\ \E i \in DOMAIN Code[Top.vm] : HandleAnyTraceCommand(i)
<1>1. phase = "handle" /\ phase' = "test" /\ posting = <<>>
  BY DEF IsHandled, Traced
<1>2. CASE ServiceThread
  BY <1>1, <1>2 DEF ServiceThread, Step, StepIn, StepOut, Continue, SelectiveStepIn,
                    RunTo, Post, WriteField, BreakExecution
<1>3. CASE Breaks
  BY <1>1, <1>3 DEF Breaks, LeaveBreak, IsBreakPointTime, Stop, IsNoBreakPointTime,
                    OnArtificialBreakPoint
<1>4. CASE Execution
  BY <1>1, <1>4 DEF Execution, Proceed, OnCallingProgramFunction,
                    OnCallingLibraryFunction, OnStartingExecution, OnReturnFunction,
                    OnEndingExecution, OnStackUnWinding, OnExecutionError, Executed
<1>5. CASE UNCHANGED vars
  BY <1>1, <1>5 DEF vars
<1> QED BY <1>2, <1>3, <1>4, <1>5 DEF Next

\* Nesting tells where the program is: zero in the function of the command and in
\* global code that runs nowhere but in its calls, less in its callers.
LEMMA NestingTells ==
    ASSUME TypeOK, IInv, Traced, ~origin.cut, AtScript
    PROVE  /\ ~LeftFunction => callNesting >= 0
           /\ ~LeftFunction /\ callNesting = 0 => InFunction
           /\ InFunction => callNesting = 0 /\ Top.vm = origin.vm
           /\ InCaller => callNesting < 0
<1>1. /\ stack \in Seq(Entries) /\ Len(stack) \in Nat \ {0} /\ Top = stack[Len(stack)]
      /\ Top.kind # "library"
      /\ origin.low \in Nat /\ origin.depth \in Nat /\ origin.calls \in Nat
      /\ callNesting \in Int
  BY TopEntry DEF TypeOK, AtScript
<1>2. WhereOf(stack, origin) /\ Nested(stack)
  BY DEF IInv, Where, Traced, TraceCommands
<1>3. origin.low <= origin.depth /\ origin.low <= Len(stack)
  BY <1>2 DEF WhereOf
<1>4. /\ callNesting = CalledTo(stack, Len(stack)) - origin.calls
      /\ CalledTo(stack, Len(stack)) \in Nat
  <2>1. Len(stack) \in 0..Len(stack)
    BY <1>1
  <2>2. Calls(stack) = CalledTo(stack, Len(stack)) /\ Calls(stack) \in Nat
    BY <1>1, <2>1, CallsType
  <2> QED BY <2>2 DEF IInv, Counted, Traced
<1>5. CalledTo(stack, origin.low) <= CalledTo(stack, Len(stack))
  BY <1>1, <1>3, CalledFewer
<1>6. ~LeftFunction => callNesting >= 0
  <2> SUFFICES ASSUME ~LeftFunction PROVE callNesting >= 0
    OBVIOUS
  <2>1. origin.low = origin.depth
    BY <1>1, <1>3 DEF LeftFunction
  <2>2. CalledTo(stack, origin.low) = origin.calls
    BY <1>2, <2>1 DEF WhereOf
  <2> QED BY <1>1, <1>4, <1>5, <2>2
<1>7. ~LeftFunction /\ callNesting = 0 => InFunction
  <2> SUFFICES ASSUME ~LeftFunction, callNesting = 0, Len(stack) # origin.depth
               PROVE  FALSE
    BY <1>1, <1>3 DEF LeftFunction, InFunction
  <2>1. origin.low = origin.depth /\ origin.depth < Len(stack)
    BY <1>1, <1>3 DEF LeftFunction
  <2>2. /\ CalledTo(stack, origin.depth) = origin.calls
        /\ origin.depth >= 1 /\ stack[origin.depth].kind # "library"
    BY <1>2, <2>1 DEF WhereOf
  <2>3. CalledTo(stack, Len(stack)) = CalledTo(stack, origin.depth)
    BY <1>1, <1>4, <2>2
  <2>4. \A i \in origin.depth + 1..Len(stack) : ~IsCalled(stack[i])
    BY <1>1, <2>1, <2>3, CalledNone
  <2>5. stack[origin.depth + 1].kind = "global"
    BY <1>1, <2>1, <2>4 DEF IsCalled
  <2> QED BY <1>1, <1>2, <2>1, <2>2, <2>5 DEF Nested
<1>8. InFunction => callNesting = 0 /\ Top.vm = origin.vm
  BY <1>1, <1>2, <1>4 DEF InFunction, WhereOf
<1>9. InCaller => callNesting < 0
  BY <1>1, <1>2, <1>4 DEF InCaller, WhereOf
<1> QED BY <1>6, <1>7, <1>8, <1>9

\* What the handler knows of the command is where it was posted.
LEMMA HandlerKnows ==
    ASSUME IInv, Traced, phase = "handle"
    PROVE  /\ ~done /\ postedBy = origin.vm
           /\ cmmd \in {"SelectiveStepIn", "RunTo"} => data = origin.target
<1>1. ~Pending("postedBy") /\ ~Pending("data") /\ cmmd # "None"
  BY EmptySeq DEF Traced, Pending, TraceCommands
<1> QED BY <1>1 DEF IInv, Written, DoneAtTest, Traced

\* The trace commands stop where they were told to, and nowhere before.
THEOREM CommandsStopWhereCommanded ==
    Spec => StopsWhereCommanded
<1> DEFINE Stops == IsHandled /\ done' =>
        CASE cmmd \in {"Step", "SelectiveStepIn"} ->
                LeftFunction \/ (InFunction /\ Leads(Top.vm, pc'))
          [] cmmd = "StepIn"  -> LeftFunction \/ Leads(Top.vm, pc')
          [] cmmd = "StepOut" -> LeftFunction
          [] cmmd = "RunTo"   -> /\ Top.vm = origin.vm
                                 /\ Line(Top.vm, pc') = origin.target
<1>1. TypeOK /\ IInv /\ [Next]_vars => Stops
  <2> SUFFICES ASSUME TypeOK, IInv, [Next]_vars, IsHandled, done' PROVE Stops
    OBVIOUS
  <2>1. AtScript /\ Traced /\ ~origin.cut /\ phase = "handle"
    BY OnlyTheHandlerHandles DEF IsHandled
  <2>2. PICK i \in DOMAIN Code[Top.vm] : HandleAnyTraceCommand(i)
    BY OnlyTheHandlerHandles
  <2>3. /\ ~done /\ postedBy = origin.vm
        /\ cmmd \in {"SelectiveStepIn", "RunTo"} => data = origin.target
    BY <2>1, HandlerKnows
  <2>4. /\ ~LeftFunction => callNesting >= 0
        /\ ~LeftFunction /\ callNesting = 0 => InFunction
        /\ callNesting \in Int
    BY <2>1, NestingTells DEF TypeOK
  <2>5. /\ pc' = i
        /\ \/ cmmd = "Step" /\ HandleStep(Top.vm, i)
           \/ cmmd = "StepIn" /\ HandleStepIn(Top.vm, i)
           \/ cmmd = "SelectiveStepIn" /\ HandleSelectiveStepIn(Top.vm, i)
           \/ cmmd = "StepOut" /\ HandleStepOut
           \/ cmmd = "RunTo" /\ HandleRunTo(Top.vm, i)
    BY <2>2, <2>3 DEF HandleAnyTraceCommand
  <2>6. CASE cmmd = "Step" /\ HandleStep(Top.vm, i)
    BY <2>4, <2>5, <2>6 DEF HandleStep
  <2>7. CASE cmmd = "StepIn" /\ HandleStepIn(Top.vm, i)
    BY <2>4, <2>5, <2>7 DEF HandleStepIn
  <2>8. CASE cmmd = "SelectiveStepIn" /\ HandleSelectiveStepIn(Top.vm, i)
    BY <2>4, <2>5, <2>8 DEF HandleSelectiveStepIn
  <2>9. CASE cmmd = "StepOut" /\ HandleStepOut
    BY <2>4, <2>5, <2>9 DEF HandleStepOut
  <2>10. CASE cmmd = "RunTo" /\ HandleRunTo(Top.vm, i)
    BY <2>3, <2>5, <2>10 DEF HandleRunTo
  <2> QED BY <2>5, <2>6, <2>7, <2>8, <2>9, <2>10
<1>2. TypeOK /\ IInv /\ [Next]_vars => [Stops]_vars
  BY <1>1
<1> QED BY <1>2, InvariantHolds, PTL DEF Spec, StopsWhereCommanded

\* No trace command misses the instruction it should stop at.
THEOREM CommandsMissNoStop ==
    Spec => MissesNoStop
<1> DEFINE MissesNone == IsHandled /\ ~done' =>
        /\ cmmd \in {"Step", "StepIn", "StepOut"} /\ InCaller => Line(Top.vm, pc') = 0
        /\ cmmd = "Step" /\ InFunction => ~Leads(Top.vm, pc')
        /\ cmmd = "StepIn" => ~Leads(Top.vm, pc')
        /\ cmmd = "SelectiveStepIn" /\ InCaller /\ pc' # origin.target
              => Line(Top.vm, pc') = 0
        /\ cmmd = "RunTo" /\ Top.vm = origin.vm /\ Leads(Top.vm, pc')
              => Line(Top.vm, pc') # origin.target
<1>1. TypeOK /\ IInv /\ [Next]_vars => MissesNone
  <2> SUFFICES ASSUME TypeOK, IInv, [Next]_vars, IsHandled, ~done' PROVE MissesNone
    OBVIOUS
  <2>1. AtScript /\ Traced /\ ~origin.cut /\ phase = "handle"
    BY OnlyTheHandlerHandles DEF IsHandled
  <2>2. PICK i \in DOMAIN Code[Top.vm] : HandleAnyTraceCommand(i)
    BY OnlyTheHandlerHandles
  <2>3. /\ postedBy = origin.vm
        /\ cmmd \in {"SelectiveStepIn", "RunTo"} => data = origin.target
    BY <2>1, HandlerKnows
  <2>4. /\ InFunction => callNesting = 0 /\ Top.vm = origin.vm
        /\ InCaller => callNesting < 0
    BY <2>1, NestingTells
  <2>5. /\ pc' = i
        /\ \/ Line(Top.vm, i) = 0
           \/ cmmd = "SelectiveStepIn" /\ i = data
           \/ /\ cmmd = "Step" => ~HandleStep(Top.vm, i)
              /\ cmmd = "StepIn" => ~HandleStepIn(Top.vm, i)
              /\ cmmd = "SelectiveStepIn" => ~HandleSelectiveStepIn(Top.vm, i)
              /\ cmmd = "StepOut" => ~HandleStepOut
              /\ cmmd = "RunTo" => ~HandleRunTo(Top.vm, i)
    BY <2>2 DEF HandleAnyTraceCommand
  <2>6. CASE Line(Top.vm, i) = 0
    BY <2>5, <2>6 DEF Leads
  <2>7. CASE cmmd = "SelectiveStepIn" /\ i = data
    BY <2>3, <2>5, <2>7
  <2>8. CASE /\ cmmd = "Step" => ~HandleStep(Top.vm, i)
             /\ cmmd = "StepIn" => ~HandleStepIn(Top.vm, i)
             /\ cmmd = "SelectiveStepIn" => ~HandleSelectiveStepIn(Top.vm, i)
             /\ cmmd = "StepOut" => ~HandleStepOut
             /\ cmmd = "RunTo" => ~HandleRunTo(Top.vm, i)
    <3>1. cmmd = "Step" /\ (InCaller \/ (InFunction /\ Leads(Top.vm, pc'))) => FALSE
      BY <2>3, <2>4, <2>5, <2>8 DEF HandleStep
    <3>2. cmmd = "StepIn" /\ (InCaller \/ Leads(Top.vm, pc')) => FALSE
      BY <2>4, <2>5, <2>8 DEF HandleStepIn
    <3>3. cmmd = "StepOut" /\ InCaller => FALSE
      BY <2>4, <2>8 DEF HandleStepOut
    <3>4. cmmd = "SelectiveStepIn" /\ InCaller /\ pc' # origin.target => FALSE
      BY <2>3, <2>4, <2>5, <2>8 DEF HandleSelectiveStepIn
    <3>5. cmmd = "RunTo" /\ Top.vm = origin.vm /\ Leads(Top.vm, pc')
             => Line(Top.vm, pc') # origin.target
      BY <2>3, <2>5, <2>8 DEF HandleRunTo
    <3> QED BY <3>1, <3>2, <3>3, <3>4, <3>5
  <2> QED BY <2>5, <2>6, <2>7, <2>8
<1>2. TypeOK /\ IInv /\ [Next]_vars => [MissesNone]_vars
  BY <1>1
<1> QED BY <1>2, InvariantHolds, PTL DEF Spec, MissesNoStop

=============================================================================
