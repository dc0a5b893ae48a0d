------------------------- MODULE ScriptBuild_proofs -------------------------
(***************************************************************************)
(* Theorems about ScriptBuild, for every set of scripts and every relation *)
(* of use: the types, and that no function waits for a mutex that is below *)
(* one its thread holds.  The stacks of functions are sequences of frames; *)
(* the first lemmas say what an entry, a return and a step of the function *)
(* at the top make of one, and the inductive invariant InOrder says what a *)
(* function at each depth of a stack holds, awaits and is about.           *)
(***************************************************************************)
EXTENDS ScriptBuild, FiniteSetTheorems, SequenceTheorems, TLAPS

(* Frames, by the place they are at.                                         *)
LEMMA FrameKinds ==
  ASSUME NEW f \in Frame
  PROVE  /\ f.at \in {"start", "work"} => f \in WorkFrame
         /\ f.at \in {"enter", "test", "progress", "deps", "leave", "unresolved"} =>
              f \in BuildFrame
         /\ f.at \in {"check", "launch", "launched", "unlock"} => f \in CompileFrame
         /\ f.at \in {"lock", "tell"} => f \in DoneFrame
         /\ f.at \in {"erase", "last"} => f \in ToldFrame
         /\ f.at \in {"terminate", "terminating", "cancel", "reset", "join"} =>
              f \in CancelFrame
<1>1. /\ \A g \in WorkFrame : g.at \in {"start", "work"}
      /\ \A g \in BuildFrame :
           g.at \in {"enter", "test", "progress", "deps", "leave", "unresolved"}
      /\ \A g \in CompileFrame : g.at \in {"check", "launch", "launched", "unlock"}
      /\ \A g \in DoneFrame : g.at \in {"lock", "tell"}
      /\ \A g \in ToldFrame : g.at \in {"erase", "last"}
      /\ \A g \in CancelFrame :
           g.at \in {"terminate", "terminating", "cancel", "reset", "join"}
  BY DEF WorkFrame, BuildFrame, CompileFrame, DoneFrame, ToldFrame, CancelFrame
<1> QED BY <1>1 DEF Frame

LEMMA PutOn ==
  ASSUME NEW S, NEW s \in Seq(S), NEW f \in S
  PROVE  <<f>> \o s \in Seq(S)
OBVIOUS

LEMMA OneByOne ==
  ASSUME NEW S, NEW s \in Seq(S), NEW f \in S, NEW g \in S
  PROVE  <<f, g>> \o s = <<f>> \o (<<g>> \o s)
<1> DEFINE one == <<f>>
           two == <<g>>
           both == <<f, g>>
<1>1. /\ one \in Seq(S) /\ Len(one) = 1 /\ one[1] = f
      /\ two \in Seq(S) /\ Len(two) = 1 /\ two[1] = g
      /\ both \in Seq(S) /\ Len(both) = 2 /\ both[1] = f /\ both[2] = g
  OBVIOUS
<1> HIDE DEF one, two, both
<1>2. one \o two = both
  <2>1. /\ one \o two \in Seq(S) /\ Len(one \o two) = 2
        /\ (one \o two)[1] = f /\ (one \o two)[2] = g
    BY <1>1, ConcatProperties
  <2>2. \A i \in 1..2 : (one \o two)[i] = both[i]
    <3>1. \A i \in 1..2 : i = 1 \/ i = 2
      OBVIOUS
    <3> QED BY <1>1, <2>1, <3>1
  <2> QED BY <1>1, <2>1, <2>2, SeqEqual
<1>3. (one \o two) \o s = one \o (two \o s)
  <2>1. one \in Seq(S) /\ two \in Seq(S) /\ s \in Seq(S)
    BY <1>1
  <2> QED BY ONLY <2>1, ConcatAssociative
<1> QED BY <1>2, <1>3 DEF one, two, both

LEMMA PutTwo ==
  ASSUME NEW S, NEW s \in Seq(S), NEW f \in S, NEW g \in S
  PROVE  <<f, g>> \o s \in Seq(S)
OBVIOUS

Stacks == stack \in [Thread -> Seq(Frame)]

LEMMA TopIsFrame ==
  ASSUME Stacks, NEW t \in Thread, NEW where, At(t, where)
  PROVE  /\ stack[t] \in Seq(Frame) /\ stack[t] # <<>>
         /\ Top(t) \in Frame /\ Top(t).at = where
         /\ Tail(stack[t]) \in Seq(Frame)
BY DEF Stacks, At, Top

LEMMA TopReplaced ==
  ASSUME NEW S, NEW s \in Seq(S), s # <<>>, NEW f \in S
  PROVE  [s EXCEPT ![1] = f] = <<f>> \o Tail(s)
<1> DEFINE new == [s EXCEPT ![1] = f]
           old == <<f>> \o Tail(s)
<1>1. new \in Seq(S) /\ Len(new) = Len(s) /\ Len(s) \in Nat /\ Len(s) > 0
      /\ \A i \in 1..Len(s) : new[i] = IF i = 1 THEN f ELSE s[i]
  OBVIOUS
<1>2. Tail(s) \in Seq(S) /\ Len(Tail(s)) = Len(s) - 1
      /\ \A i \in 1..Len(Tail(s)) : Tail(s)[i] = s[i + 1]
  BY HeadTailProperties
<1>3. <<f>> \in Seq(S) /\ Len(<<f>>) = 1 /\ <<f>>[1] = f
  OBVIOUS
<1>4. old \in Seq(S) /\ Len(old) = Len(s)
      /\ \A i \in 1..Len(s) : old[i] = IF i <= 1 THEN f ELSE Tail(s)[i - 1]
  <2>1. /\ old \in Seq(S) /\ Len(old) = 1 + Len(Tail(s))
        /\ \A i \in 1..1 + Len(Tail(s)) : old[i] = IF i <= 1 THEN <<f>>[i] ELSE Tail(s)[i - 1]
    BY <1>2, <1>3, ConcatProperties
  <2> HIDE DEF old
  <2> QED BY <2>1, <1>1, <1>2, <1>3
<1> HIDE DEF new, old
<1>5. \A i \in 1..Len(s) : new[i] = old[i]
  <2> SUFFICES ASSUME NEW i \in 1..Len(s) PROVE new[i] = old[i]
    OBVIOUS
  <2>1. CASE i = 1
    BY <2>1, <1>1, <1>4
  <2>2. CASE i # 1
    <3>1. i - 1 \in 1..Len(Tail(s)) /\ (i - 1) + 1 = i /\ ~(i <= 1)
      BY <2>2, <1>1, <1>2
    <3>2. Tail(s)[i - 1] = s[i]
      BY <3>1, <1>2
    <3> QED BY <3>1, <3>2, <2>2, <1>1, <1>4
  <2> QED BY <2>1, <2>2
<1>6. new = old
  BY <1>1, <1>4, <1>5, SeqEqual
<1> QED BY <1>6 DEF new, old

LEMMA BecomeKeeps ==
  ASSUME Stacks, NEW t \in Thread, NEW where, At(t, where), NEW f \in Frame, Become(t, f)
  PROVE  Stacks'
<1>1. stack[t] \in Seq(Frame) /\ Tail(stack[t]) \in Seq(Frame)
  BY TopIsFrame
<1>2. <<f>> \o Tail(stack[t]) \in Seq(Frame)
  BY <1>1, PutOn
<1> QED BY <1>2 DEF Stacks, Become

LEMMA EnterKeeps ==
  ASSUME Stacks, NEW t \in Thread, NEW here, At(t, here), NEW f \in Frame, NEW where,
         [Top(t) EXCEPT !.at = where] \in Frame, Enter(t, f, where)
  PROVE  Stacks'
<1>1. stack[t] \in Seq(Frame) /\ Tail(stack[t]) \in Seq(Frame)
  BY TopIsFrame
<1>2. <<f, [Top(t) EXCEPT !.at = where]>> \o Tail(stack[t]) \in Seq(Frame)
  BY <1>1, PutTwo
<1> QED BY <1>2 DEF Stacks, Enter, Top

LEMMA ReturnKeeps ==
  ASSUME Stacks, NEW t \in Thread, NEW where, At(t, where), Return(t)
  PROVE  Stacks'
<1>1. Tail(stack[t]) \in Seq(Frame)
  BY TopIsFrame
<1> QED BY <1>1 DEF Stacks, Return

LEMMA TopChanged ==
  ASSUME NEW S, NEW s \in Seq(S), s # <<>>, NEW f \in S
  PROVE  [s EXCEPT ![1] = f] \in Seq(S)
OBVIOUS

LEMMA GoToKeeps ==
  ASSUME Stacks, NEW t \in Thread, NEW here, At(t, here), NEW where,
         [Top(t) EXCEPT !.at = where] \in Frame, GoTo(t, where)
  PROVE  Stacks'
<1>1. stack[t] \in Seq(Frame) /\ stack[t] # <<>>
  BY TopIsFrame
<1>2. stack' = [stack EXCEPT ![t] = [stack[t] EXCEPT ![1] = [Top(t) EXCEPT !.at = where]]]
  BY <1>1 DEF GoTo, Top, Stacks
<1>3. [stack[t] EXCEPT ![1] = [Top(t) EXCEPT !.at = where]] \in Seq(Frame)
  BY <1>1, TopChanged
<1> QED BY <1>2, <1>3 DEF Stacks

-----------------------------------------------------------------------------
(* The frames the actions put on a stack.                                    *)
LEMMA NewFrames ==
  /\ WorkThread \in Frame
  /\ \A cs \in Seq(Script) : Work(cs) \in Frame
  /\ \A s \in Script, r \in Requester : BuildImpl(s, r) \in Frame
  /\ \A s \in Script : BuildSelf(s) \in Frame /\ Terminate(s) \in Frame
  /\ \A s \in Script : [at |-> "unlock", s |-> s] \in Frame
  /\ \A s \in Script, ok \in BOOLEAN, pid \in Script \cup {None} :
        SetBuildCompleted(s, ok, pid) \in Frame
  /\ \A s, d \in Script, ok \in BOOLEAN, pid \in Script \cup {None} :
        SetInitiatedBuildIsCompleted(s, d, ok, pid) \in Frame
  /\ \A left \in Seq(Script \cup Worker), where \in {"cancel", "reset", "join"} :
        [at |-> where, left |-> left] \in Frame
<1>1. /\ WorkThread \in WorkFrame
      /\ \A cs \in Seq(Script) : Work(cs) \in WorkFrame
  BY DEF WorkThread, Work, WorkFrame
<1>2. \A s \in Script, r \in Requester : BuildImpl(s, r) \in BuildFrame
  BY DEF BuildImpl, BuildFrame
<1>3. \A s \in Script : BuildSelf(s) \in CompileFrame /\ [at |-> "unlock", s |-> s] \in CompileFrame
  BY DEF BuildSelf, CompileFrame
<1>4. \A s \in Script, ok \in BOOLEAN, pid \in Script \cup {None} :
        SetBuildCompleted(s, ok, pid) \in DoneFrame
  <2>1. <<>> \in Seq(Requester \X (Script \cup {None}))
    OBVIOUS
  <2> QED BY <2>1 DEF SetBuildCompleted, DoneFrame
<1>5. \A s, d \in Script, ok \in BOOLEAN, pid \in Script \cup {None} :
        SetInitiatedBuildIsCompleted(s, d, ok, pid) \in ToldFrame
  BY DEF SetInitiatedBuildIsCompleted, ToldFrame
<1>6. /\ \A s \in Script : Terminate(s) \in CancelFrame
      /\ \A left \in Seq(Script \cup Worker), where \in {"cancel", "reset", "join"} :
           [at |-> where, left |-> left] \in CancelFrame
  BY DEF Terminate, CancelFrame
<1> QED BY <1>1, <1>2, <1>3, <1>4, <1>5, <1>6 DEF Frame

(* Where a frame may go on.                                                  *)
LEMMA FramesGoOn ==
  ASSUME NEW f \in Frame
  PROVE  /\ f \in BuildFrame => \A w \in {"test", "progress", "deps", "leave", "unresolved"} :
              [f EXCEPT !.at = w] \in Frame
         /\ f \in CompileFrame => \A w \in {"launch", "launched", "unlock"} :
              [f EXCEPT !.at = w] \in Frame
         /\ f \in ToldFrame => [f EXCEPT !.at = "last"] \in Frame
         /\ f.at \in {"cancel", "reset", "join"} => [f EXCEPT !.at = "cancel"] \in Frame
<1>1. ASSUME f \in BuildFrame, NEW w \in {"test", "progress", "deps", "leave", "unresolved"}
      PROVE  [f EXCEPT !.at = w] \in BuildFrame
  BY <1>1 DEF BuildFrame
<1>2. ASSUME f \in CompileFrame, NEW w \in {"launch", "launched", "unlock"}
      PROVE  [f EXCEPT !.at = w] \in CompileFrame
  BY <1>2 DEF CompileFrame
<1>3. ASSUME f \in ToldFrame PROVE [f EXCEPT !.at = "last"] \in ToldFrame
  BY <1>3 DEF ToldFrame
<1>4. ASSUME f.at \in {"cancel", "reset", "join"}
      PROVE  [f EXCEPT !.at = "cancel"] \in CancelFrame
  <2>1. f \in CancelFrame
    BY <1>4, FrameKinds
  <2>2. f \in [at : {"cancel", "reset", "join"}, left : Seq(Script \cup Worker)]
    BY <2>1, <1>4 DEF CancelFrame
  <2>3. [f EXCEPT !.at = "cancel"] \in [at : {"cancel", "reset", "join"}, left : Seq(Script \cup Worker)]
    BY <2>2
  <2> QED BY <2>3 DEF CancelFrame
<1> QED BY <1>1, <1>2, <1>3, <1>4 DEF Frame
-----------------------------------------------------------------------------
(* TypeOK, a group of variables at a time.                                   *)
CallsOK     == calls \in Seq(DelayedCall)
CompilersOK == compilers \subseteq Script
FilesOK     == /\ byteCode \subseteq Script /\ rejected \subseteq Script
               /\ newerThan \in [Script -> SUBSET Script]
FlagsOK     == /\ beingBuilt \subseteq Script /\ upToDate \subseteq Script
               /\ buildCanceled \subseteq Script
RequestsOK  == /\ workId \in [Script -> Requester \cup {None}]
               /\ initiator \in [Script -> Script \cup {None}]
               /\ pseudoInitiators \in [Script -> Seq(Requester)]
ProgressOK  == /\ buildDeps \in [Script -> SUBSET Script]
               /\ pids \in [Script -> SUBSET Script]
               /\ depsFailed \subseteq Script /\ someDepsCompiled \subseteq Script
MutexesOK   == /\ buildMutex \in [Script -> Thread \cup {None}]
               /\ doneMutex \in [Script -> Thread \cup {None}]
               /\ compMutex \in [Script -> Thread \cup {None}]
               /\ callMutex \in Thread \cup {None}
WorkspaceOK == /\ working \in [Worker -> SUBSET Script] /\ stopWorker \subseteq Worker
               /\ session \in 0..MaxSessions /\ busy \in BOOLEAN /\ spoilt \in BOOLEAN

Types == /\ Stacks /\ CallsOK /\ CompilersOK /\ FilesOK /\ FlagsOK
         /\ RequestsOK /\ ProgressOK /\ MutexesOK /\ WorkspaceOK

LEMMA TypesAreTypeOK == Types <=> TypeOK
BY DEF Types, TypeOK, Stacks, CallsOK, CompilersOK, FilesOK, FlagsOK, RequestsOK,
       ProgressOK, MutexesOK, WorkspaceOK

(* What an action leaves alone keeps its types.                              *)
LEMMA GroupsKept ==
  ASSUME Types
  PROVE  /\ stack' = stack => Stacks'
         /\ calls' = calls => CallsOK'
         /\ compilers' = compilers => CompilersOK'
         /\ files' = files => FilesOK'
         /\ flags' = flags => FlagsOK'
         /\ requests' = requests => RequestsOK'
         /\ progress' = progress => ProgressOK'
         /\ mutexes' = mutexes => MutexesOK'
         /\ workspace' = workspace => WorkspaceOK'
<1>1. /\ stack' = stack => Stacks'
      /\ calls' = calls => CallsOK'
      /\ compilers' = compilers => CompilersOK'
  BY DEF Types, Stacks, CallsOK, CompilersOK
<1>2. /\ files' = files => FilesOK'
      /\ flags' = flags => FlagsOK'
      /\ requests' = requests => RequestsOK'
  BY DEF Types, FilesOK, FlagsOK, RequestsOK, files, flags, requests
<1>3. /\ progress' = progress => ProgressOK'
      /\ mutexes' = mutexes => MutexesOK'
      /\ workspace' = workspace => WorkspaceOK'
  BY DEF Types, ProgressOK, MutexesOK, WorkspaceOK, progress, mutexes, workspace
<1> QED BY <1>1, <1>2, <1>3

(* What is posted is a delayed call.                                         *)
LEMMA PostKeeps ==
  ASSUME CallsOK, NEW c \in DelayedCall, Post(c)
  PROVE  CallsOK'
BY DEF CallsOK, Post

LEMMA PostAllKeeps ==
  ASSUME CallsOK, NEW cs \in Seq(DelayedCall), PostAll(cs)
  PROVE  CallsOK'
BY DEF CallsOK, PostAll

LEMMA ToldIsCalls ==
  ASSUME NEW s \in Script, NEW r
  PROVE  Told(s, r) \in Seq(DelayedCall)
<1>1. CASE r \in Worker
  <2>1. ResourceWorkCompleted(s, r) \in DelayedCall
    BY <1>1 DEF ResourceWorkCompleted, DelayedCall
  <2> QED BY <1>1, <2>1 DEF Told
<1>2. CASE r \notin Worker
  BY <1>2 DEF Told
<1> QED BY <1>1, <1>2

LEMMA NewCalls ==
  /\ \A s \in Script : CompileFinished(s) \in DelayedCall /\ BuildSelfThread(s) \in DelayedCall
  /\ WorkCompleted \in DelayedCall
BY DEF CompileFinished, BuildSelfThread, WorkCompleted, DelayedCall

(* Two groups of assignments.                                                *)
LEMMA ClearKeeps ==
  ASSUME Types, NEW s \in Script, ClearBuildInformation(s)
  PROVE  RequestsOK' /\ ProgressOK' /\ beingBuilt' \subseteq Script
<1>1. RequestsOK'
  BY DEF Types, RequestsOK, ClearBuildInformation
<1>2. ProgressOK' /\ beingBuilt' \subseteq Script
  BY DEF Types, ProgressOK, FlagsOK, ClearBuildInformation
<1> QED BY <1>1, <1>2

LEMMA MarkKeeps ==
  ASSUME Types, NEW s \in Script, NEW r \in Requester, SetIsBeingBuiltFor(s, r)
  PROVE  /\ beingBuilt' \subseteq Script
         /\ workId' \in [Script -> Requester \cup {None}]
         /\ initiator' \in [Script -> Script \cup {None}]
BY DEF Types, FlagsOK, RequestsOK, SetIsBeingBuiltFor

LEMMA CompileKeeps ==
  ASSUME Types, BuildAssumption, NEW s \in Script, Compile(s)
  PROVE  FilesOK'
<1>1. byteCode' \subseteq Script /\ rejected' \subseteq Script
  BY DEF Types, FilesOK, Compile
<1>2. newerThan' \in [Script -> SUBSET Script]
  <2>1. newerThan \in [Script -> SUBSET Script] /\ Uses \in [Script -> SUBSET Script]
    BY DEF Types, FilesOK, BuildAssumption
  <2>2. CASE newerThan' = newerThan
    BY <2>1, <2>2
  <2>3. CASE newerThan' = [x \in Script |-> IF x = s THEN Uses[s] ELSE newerThan[x] \ {s}]
    BY <2>1, <2>3
  <2> QED BY <2>2, <2>3 DEF Compile
<1> QED BY <1>1, <1>2 DEF FilesOK
-----------------------------------------------------------------------------
(* What the innermost function of a thread works on.                         *)
LEMMA BuildFields ==
  ASSUME Types, NEW t \in Thread,
         NEW where \in {"enter", "test", "progress", "deps", "leave", "unresolved"}, At(t, where)
  PROVE  /\ Top(t) \in BuildFrame /\ Top(t).s \in Script /\ Top(t).for \in Requester
         /\ Top(t).todo \subseteq Script
<1>1. Top(t) \in BuildFrame
  BY TopIsFrame, FrameKinds DEF Types
<1> QED BY <1>1 DEF BuildFrame

LEMMA CompileFields ==
  ASSUME Types, NEW t \in Thread, NEW where \in {"check", "launch", "launched", "unlock"},
         At(t, where)
  PROVE  Top(t) \in CompileFrame /\ Top(t).s \in Script
<1>1. Top(t) \in CompileFrame
  BY TopIsFrame, FrameKinds DEF Types
<1> QED BY <1>1 DEF CompileFrame

LEMMA DoneFields ==
  ASSUME Types, NEW t \in Thread, NEW where \in {"lock", "tell"}, At(t, where)
  PROVE  /\ Top(t) \in DoneFrame /\ Top(t).s \in Script /\ Top(t).ok \in BOOLEAN
         /\ Top(t).pid \in Script \cup {None}
         /\ Top(t).tell \in Seq(Requester \X (Script \cup {None}))
<1>1. Top(t) \in DoneFrame
  BY TopIsFrame, FrameKinds DEF Types
<1> QED BY <1>1 DEF DoneFrame

LEMMA ToldFields ==
  ASSUME Types, NEW t \in Thread, NEW where \in {"erase", "last"}, At(t, where)
  PROVE  /\ Top(t) \in ToldFrame /\ Top(t).s \in Script /\ Top(t).dep \in Script
         /\ Top(t).ok \in BOOLEAN /\ Top(t).pid \in Script \cup {None}
<1>1. Top(t) \in ToldFrame
  BY TopIsFrame, FrameKinds DEF Types
<1> QED BY <1>1 DEF ToldFrame

LEMMA TerminateFields ==
  ASSUME Types, NEW t \in Thread, NEW where \in {"terminate", "terminating"}, At(t, where)
  PROVE  /\ Top(t) \in [at : {"terminate", "terminating"}, s : Script, todo : SUBSET Script]
         /\ Top(t).s \in Script /\ Top(t).todo \subseteq Script
<1>1. Top(t) \in CancelFrame /\ Top(t).at \in {"terminate", "terminating"}
  BY TopIsFrame, FrameKinds DEF Types
<1>2. Top(t) \in [at : {"terminate", "terminating"}, s : Script, todo : SUBSET Script]
  BY <1>1 DEF CancelFrame
<1> QED BY <1>2

LEMMA CancelFields ==
  ASSUME Types, NEW t \in Thread, NEW where \in {"cancel", "reset", "join"}, At(t, where)
  PROVE  Top(t).left \in Seq(Script \cup Worker)
<1>1. Top(t) \in CancelFrame /\ Top(t).at \in {"cancel", "reset", "join"}
  BY TopIsFrame, FrameKinds DEF Types
<1>2. Top(t) \in [at : {"cancel", "reset", "join"}, left : Seq(Script \cup Worker)]
  BY <1>1 DEF CancelFrame
<1> QED BY <1>2

LEMMA WorkFields ==
  ASSUME Types, NEW t \in Thread, At(t, "work")
  PROVE  Top(t).children \in Seq(Script)
<1>1. Top(t) \in WorkFrame /\ Top(t).at = "work"
  BY TopIsFrame, FrameKinds DEF Types
<1>2. Top(t) \in [at : {"work"}, children : Seq(Script)]
  BY <1>1 DEF WorkFrame
<1> QED BY <1>2
-----------------------------------------------------------------------------
(* Each action keeps the types: workers and BuildImpl.                       *)
LEMMA WorkStartsTypes ==
  ASSUME Types, BuildAssumption, NEW w \in Worker, WorkStarts(w)
  PROVE  Types'
<1>1. w \in Thread /\ Children[w] \in Seq(Script)
  BY DEF Thread, BuildAssumption
<1>2. Work(Children[w]) \in Frame
  BY <1>1, NewFrames
<1>3. Stacks'
  BY <1>1, <1>2, BecomeKeeps DEF WorkStarts, Types
<1>4. ChildrenOf(w) \subseteq Script
  BY <1>1 DEF ChildrenOf
<1>5. WorkspaceOK'
  BY <1>4 DEF WorkStarts, Types, WorkspaceOK
<1> QED BY <1>3, <1>5, GroupsKept DEF WorkStarts, Types

LEMMA AskNextTypes ==
  ASSUME Types, NEW w \in Worker, AskNext(w)
  PROVE  Types'
<1>1. w \in Thread /\ w \in Requester /\ At(w, "work")
  BY DEF Thread, Requester, AskNext
<1>2. Top(w).children \in Seq(Script)
  BY <1>1, WorkFields
<1>3. Stacks'
  <2>1. CASE Top(w).children = <<>> \/ Stopped(w)
    <3>1. Return(w)
      BY <2>1 DEF AskNext
    <3> QED BY <3>1, <1>1, ReturnKeeps DEF Types
  <2>2. CASE ~(Top(w).children = <<>> \/ Stopped(w))
    <3>1. Head(Top(w).children) \in Script /\ Tail(Top(w).children) \in Seq(Script)
      BY <2>2, <1>2
    <3>2. BuildImpl(Head(Top(w).children), w) \in Frame /\ Work(Tail(Top(w).children)) \in Frame
      BY <3>1, <1>1, NewFrames
    <3>3. stack' = [stack EXCEPT ![w] =
                      <<BuildImpl(Head(Top(w).children), w), Work(Tail(Top(w).children))>>]
      BY <2>2 DEF AskNext
    <3> QED BY <3>2, <3>3, <1>1 DEF Stacks, Types
  <2> QED BY <2>1, <2>2
<1> QED BY <1>3, GroupsKept DEF AskNext, Types

LEMMA LockBuildTypes ==
  ASSUME Types, NEW t \in Thread, LockBuild(t)
  PROVE  Types'
<1>1. At(t, "enter") /\ GoTo(t, "test") /\ Top(t).s \in Script /\ Top(t) \in BuildFrame
  BY BuildFields DEF LockBuild
<1>2. [Top(t) EXCEPT !.at = "test"] \in Frame
  BY <1>1, FramesGoOn, TopIsFrame DEF Types
<1>3. Stacks'
  BY <1>1, <1>2, GoToKeeps DEF Types
<1>4. MutexesOK'
  BY <1>1 DEF LockBuild, Types, MutexesOK
<1> QED BY <1>3, <1>4, GroupsKept DEF LockBuild, Types

LEMMA HistoryKept ==
  ASSUME WorkspaceOK, NEW P, spoilt' = (spoilt \/ P), UNCHANGED <<working, stopWorker, session, busy>>
  PROVE  WorkspaceOK'
<1>1. (spoilt \/ P) \in BOOLEAN
  OBVIOUS
<1>2. spoilt' \in BOOLEAN
  BY <1>1
<1> QED BY <1>2 DEF WorkspaceOK

LEMMA TestUpToDateTypes ==
  ASSUME Types, NEW t \in Thread, TestUpToDate(t)
  PROVE  Types'
<1>1. At(t, "test") /\ Top(t) \in Frame /\ Top(t) \in BuildFrame
  BY BuildFields, TopIsFrame DEF TestUpToDate, Types
<1>2. Top(t).s \in Script /\ Top(t).for \in Requester
  BY <1>1, BuildFields
<1>3. CASE Top(t).s \in upToDate
  <2>1. /\ SetIsBeingBuiltFor(Top(t).s, Top(t).for)
        /\ Enter(t, SetBuildCompleted(Top(t).s, TRUE, None), "leave")
    BY <1>3 DEF TestUpToDate
  <2>2. SetBuildCompleted(Top(t).s, TRUE, None) \in Frame
    BY <1>2, NewFrames
  <2>3. [Top(t) EXCEPT !.at = "leave"] \in Frame
    BY <1>1, FramesGoOn
  <2>4. Stacks'
    BY <1>1, <2>1, <2>2, <2>3, EnterKeeps DEF Types
  <2>5. FlagsOK' /\ RequestsOK'
    BY <2>1, <1>2, MarkKeeps DEF TestUpToDate, Types, FlagsOK, RequestsOK
  <2>6. WorkspaceOK'
    BY <1>3, HistoryKept DEF TestUpToDate, Types
  <2> QED BY <2>4, <2>5, <2>6, GroupsKept DEF TestUpToDate, Types
<1>4. CASE Top(t).s \notin upToDate
  <2>1. GoTo(t, "progress") /\ UNCHANGED <<beingBuilt, workId, initiator>>
    BY <1>4 DEF TestUpToDate
  <2>2. [Top(t) EXCEPT !.at = "progress"] \in Frame
    BY <1>1, FramesGoOn
  <2>3. Stacks'
    BY <1>1, <2>1, <2>2, GoToKeeps DEF Types
  <2>4. UNCHANGED flags /\ UNCHANGED requests /\ UNCHANGED workspace
    BY <1>4, <2>1 DEF TestUpToDate, flags, requests, workspace
  <2> QED BY <2>3, <2>4, GroupsKept DEF TestUpToDate, Types
<1> QED BY <1>3, <1>4

LEMMA AddBuildPseudoInitiatorTypes ==
  ASSUME Types, NEW t \in Thread, AddBuildPseudoInitiator(t)
  PROVE  Types'
<1>1. /\ At(t, "progress") /\ GoTo(t, "leave") /\ Top(t) \in Frame /\ Top(t) \in BuildFrame
      /\ Top(t).s \in Script /\ Top(t).for \in Requester
  BY BuildFields, TopIsFrame DEF AddBuildPseudoInitiator, Types
<1>2. [Top(t) EXCEPT !.at = "leave"] \in Frame
  BY <1>1, FramesGoOn
<1>3. Stacks'
  BY <1>1, <1>2, GoToKeeps DEF Types
<1>4. Append(pseudoInitiators[Top(t).s], Top(t).for) \in Seq(Requester)
  BY <1>1 DEF Types, RequestsOK
<1>5. pseudoInitiators' = [pseudoInitiators EXCEPT ![Top(t).s] =
                             Append(pseudoInitiators[Top(t).s], Top(t).for)]
  BY DEF AddBuildPseudoInitiator
<1>6. RequestsOK'
  BY <1>4, <1>5 DEF AddBuildPseudoInitiator, Types, RequestsOK
<1> QED BY <1>3, <1>6, GroupsKept DEF AddBuildPseudoInitiator, Types

LEMMA StartBuildTypes ==
  ASSUME Types, BuildAssumption, NEW t \in Thread, StartBuild(t)
  PROVE  Types'
<1> DEFINE s == Top(t).s
<1>1. /\ At(t, "progress") /\ Top(t) \in Frame /\ Top(t) \in BuildFrame
      /\ s \in Script /\ Top(t).for \in Requester
  BY BuildFields, TopIsFrame DEF StartBuild, Types
<1>2. Uses[s] \in SUBSET Script
  BY <1>1 DEF BuildAssumption
<1>3. Stacks'
  <2>1. CASE Enter(t, SetBuildCompleted(s, FALSE, None), "unresolved")
    <3>1. SetBuildCompleted(s, FALSE, None) \in Frame
      BY <1>1, NewFrames
    <3>2. [Top(t) EXCEPT !.at = "unresolved"] \in Frame
      BY <1>1, FramesGoOn
    <3> QED BY <1>1, <2>1, <3>1, <3>2, EnterKeeps DEF Types
  <2>2. CASE Enter(t, BuildSelf(s), "leave")
    <3>1. BuildSelf(s) \in Frame
      BY <1>1, NewFrames
    <3>2. [Top(t) EXCEPT !.at = "leave"] \in Frame
      BY <1>1, FramesGoOn
    <3> QED BY <1>1, <2>2, <3>1, <3>2, EnterKeeps DEF Types
  <2>3. CASE stack' = [stack EXCEPT ![t][1] = [@ EXCEPT !.at = "deps", !.todo = Uses[s]]]
    <3> DEFINE f == [Top(t) EXCEPT !.at = "deps", !.todo = Uses[s]]
    <3>1. f \in BuildFrame
      BY <1>1, <1>2 DEF BuildFrame
    <3>2. stack[t] \in Seq(Frame) /\ stack[t] # <<>>
      BY <1>1, TopIsFrame DEF Types
    <3>3. stack' = [stack EXCEPT ![t] = [stack[t] EXCEPT ![1] = f]]
      BY <2>3, <3>2 DEF Top, Types, Stacks
    <3>4. [stack[t] EXCEPT ![1] = f] \in Seq(Frame)
      BY <3>1, <3>2, TopChanged DEF Frame
    <3> QED BY <3>3, <3>4 DEF Types, Stacks
  <2> QED BY <2>1, <2>2, <2>3 DEF StartBuild
<1>4. SetIsBeingBuiltFor(s, Top(t).for)
  BY DEF StartBuild
<1>5. FlagsOK' /\ RequestsOK'
  BY <1>1, <1>4, MarkKeeps DEF StartBuild, Types, FlagsOK, RequestsOK
<1>6. ProgressOK'
  BY <1>1, <1>2 DEF StartBuild, Types, ProgressOK
<1> QED BY <1>3, <1>5, <1>6, GroupsKept DEF StartBuild, Types

LEMMA BuildDependencyTypes ==
  ASSUME Types, NEW t \in Thread, BuildDependency(t)
  PROVE  Types'
<1>1. /\ At(t, "deps") /\ Top(t) \in BuildFrame /\ Top(t).s \in Script
      /\ Top(t).todo \subseteq Script /\ Tail(stack[t]) \in Seq(Frame)
  BY BuildFields, TopIsFrame DEF BuildDependency, Types
<1>2. PICK d \in Top(t).todo :
        stack' = [stack EXCEPT ![t] = <<BuildImpl(d, Top(t).s),
                    [Top(t) EXCEPT !.todo = @ \ {d}]>> \o Tail(@)]
  BY DEF BuildDependency
<1>3. BuildImpl(d, Top(t).s) \in Frame
  BY <1>1, NewFrames DEF Requester
<1>4. [Top(t) EXCEPT !.todo = @ \ {d}] \in Frame
  <2>1. [Top(t) EXCEPT !.todo = @ \ {d}] \in BuildFrame
    BY <1>1 DEF BuildFrame
  <2> QED BY <2>1 DEF Frame
<1>5. Stacks'
  <2>1. <<BuildImpl(d, Top(t).s), [Top(t) EXCEPT !.todo = @ \ {d}]>> \o Tail(stack[t]) \in Seq(Frame)
    BY <1>1, <1>3, <1>4, PutTwo
  <2> QED BY <1>2, <2>1 DEF Types, Stacks
<1> QED BY <1>5, GroupsKept DEF BuildDependency, Types

LEMMA LeaveBuildTypes ==
  ASSUME Types, NEW t \in Thread, LeaveBuild(t)
  PROVE  Types'
<1>1. PICK where \in {"leave", "deps", "unresolved"} : At(t, where)
  BY DEF LeaveBuild
<1>2. Top(t).s \in Script
  BY <1>1, BuildFields
<1>3. Stacks'
  BY <1>1, ReturnKeeps DEF LeaveBuild, Types
<1>4. FlagsOK' /\ MutexesOK'
  BY <1>2 DEF LeaveBuild, Types, FlagsOK, MutexesOK
<1> QED BY <1>3, <1>4, GroupsKept DEF LeaveBuild, Types
-----------------------------------------------------------------------------
(* BuildSelf and the compilers.                                              *)
LEMMA CheckByteCodeTypes ==
  ASSUME Types, NEW t \in Thread, CheckByteCode(t)
  PROVE  Types'
<1>1. /\ At(t, "check") /\ Top(t) \in Frame /\ Top(t) \in CompileFrame
      /\ Top(t).s \in Script
  BY CompileFields, TopIsFrame DEF CheckByteCode, Types
<1>2. CASE Become(t, SetBuildCompleted(Top(t).s, TRUE, None))
  <2>1. SetBuildCompleted(Top(t).s, TRUE, None) \in Frame
    BY <1>1, NewFrames
  <2>2. Stacks'
    BY <1>1, <1>2, <2>1, BecomeKeeps DEF Types
  <2> QED BY <2>2, GroupsKept DEF CheckByteCode, Types
<1>3. CASE GoTo(t, "launch")
  <2>1. [Top(t) EXCEPT !.at = "launch"] \in Frame
    BY <1>1, FramesGoOn
  <2>2. Stacks'
    BY <1>1, <1>3, <2>1, GoToKeeps DEF Types
  <2> QED BY <2>2, GroupsKept DEF CheckByteCode, Types
<1> QED BY <1>2, <1>3 DEF CheckByteCode

LEMMA LaunchCompilerTypes ==
  ASSUME Types, BuildAssumption, NEW t \in Thread, LaunchCompiler(t)
  PROVE  Types'
<1>1. /\ At(t, "launch") /\ Top(t) \in Frame /\ Top(t) \in CompileFrame
      /\ Top(t).s \in Script
  BY CompileFields, TopIsFrame DEF LaunchCompiler, Types
<1>2. CASE workId[Top(t).s] = None
  <2>1. Compile(Top(t).s) /\ Return(t) /\ UNCHANGED <<compilers, compMutex, callMutex>>
    BY <1>2 DEF LaunchCompiler
  <2>2. Stacks' /\ FilesOK'
    BY <1>1, <2>1, ReturnKeeps, CompileKeeps DEF Types
  <2>3. UNCHANGED mutexes
    BY <2>1 DEF LaunchCompiler, mutexes
  <2> QED BY <2>1, <2>2, <2>3, GroupsKept DEF LaunchCompiler, Types
<1>3. CASE workId[Top(t).s] # None
  <2>1. /\ compilers' = compilers \cup {Top(t).s} /\ GoTo(t, "launched") /\ UNCHANGED files
        /\ callMutex' = t /\ compMutex' = [compMutex EXCEPT ![Top(t).s] = t]
    BY <1>3 DEF LaunchCompiler
  <2>2. [Top(t) EXCEPT !.at = "launched"] \in Frame
    BY <1>1, FramesGoOn
  <2>3. Stacks'
    BY <1>1, <2>1, <2>2, GoToKeeps DEF Types
  <2>4. CompilersOK' /\ MutexesOK'
    BY <1>1, <2>1 DEF LaunchCompiler, Types, CompilersOK, MutexesOK
  <2> QED BY <2>1, <2>3, <2>4, GroupsKept DEF LaunchCompiler, Types
<1> QED BY <1>2, <1>3

LEMMA LaunchFailsTypes ==
  ASSUME Types, NEW t \in Thread, LaunchFails(t)
  PROVE  Types'
<1>1. /\ At(t, "launch") /\ Top(t) \in Frame /\ Top(t) \in CompileFrame
      /\ Top(t).s \in Script
  BY CompileFields, TopIsFrame DEF LaunchFails, Types
<1>2. [Top(t) EXCEPT !.at = "unlock"] \in Frame /\ SetBuildCompleted(Top(t).s, FALSE, None) \in Frame
  BY <1>1, FramesGoOn, NewFrames
<1>3. Enter(t, SetBuildCompleted(Top(t).s, FALSE, None), "unlock")
  BY DEF LaunchFails
<1>4. Stacks'
  BY <1>1, <1>2, <1>3, EnterKeeps DEF Types
<1>5. MutexesOK'
  BY <1>1 DEF LaunchFails, Types, MutexesOK
<1> QED BY <1>4, <1>5, GroupsKept DEF LaunchFails, Types

LEMMA SetCompilerPidTypes ==
  ASSUME Types, NEW t \in Thread, SetCompilerPid(t)
  PROVE  Types'
<1>1. At(t, "launched") /\ Return(t) /\ Top(t).s \in Script
  BY CompileFields DEF SetCompilerPid
<1>2. Stacks'
  BY <1>1, ReturnKeeps DEF Types
<1>3. MutexesOK'
  BY <1>1 DEF SetCompilerPid, Types, MutexesOK
<1>4. ProgressOK'
  <2>1. pids' \in [Script -> SUBSET Script]
    BY <1>1 DEF SetCompilerPid, Types, ProgressOK
  <2> QED BY <2>1 DEF SetCompilerPid, Types, ProgressOK
<1> QED BY <1>2, <1>3, <1>4, GroupsKept DEF SetCompilerPid, Types

LEMMA CompilerEndsTypes ==
  ASSUME Types, BuildAssumption, NEW s \in Script, CompilerEnds(s)
  PROVE  Types'
<1>1. CompilersOK'
  BY DEF CompilerEnds, Types, CompilersOK
<1>2. FilesOK'
  BY CompileKeeps DEF CompilerEnds
<1>3. CallsOK'
  BY NewCalls, PostKeeps DEF CompilerEnds, Types
<1> QED BY <1>1, <1>2, <1>3, GroupsKept DEF CompilerEnds, Types
-----------------------------------------------------------------------------
(* The completion of a script.                                               *)
(* Whom a script tells that it is done.                                      *)
TellList(s, pid) ==
  LET real   == IF initiator[s] = None THEN <<>> ELSE <<<<initiator[s], pid>>>>
      pseudo == [i \in DOMAIN pseudoInitiators[s] |-> <<pseudoInitiators[s][i], None>>]
  IN real \o pseudo

LEMMA TellListIs ==
  ASSUME Types, NEW s \in Script, NEW pid \in Script \cup {None}
  PROVE  /\ TellList(s, pid) \in Seq(Requester \X (Script \cup {None}))
         /\ \A i \in DOMAIN TellList(s, pid) :
              \/ TellList(s, pid)[i][1] = initiator[s]
              \/ \E j \in DOMAIN pseudoInitiators[s] :
                   TellList(s, pid)[i][1] = pseudoInitiators[s][j]
<1> DEFINE real   == IF initiator[s] = None THEN <<>> ELSE <<<<initiator[s], pid>>>>
           pseudo == [i \in DOMAIN pseudoInitiators[s] |-> <<pseudoInitiators[s][i], None>>]
           Teller == Requester \X (Script \cup {None})
<1>1. real \in Seq(Teller)
  <2>1. initiator[s] # None => <<initiator[s], pid>> \in Teller
    BY DEF Types, RequestsOK, Requester
  <2>2. \A x \in Teller : <<x>> \in Seq(Teller)
    <3> HIDE DEF Teller
    <3> QED OBVIOUS
  <2>3. CASE initiator[s] = None
    BY <2>3
  <2>4. CASE initiator[s] # None
    <3> HIDE DEF Teller
    <3> QED BY <2>1, <2>2, <2>4
  <2> QED BY <2>3, <2>4
<1>2. pseudo \in Seq(Teller) /\ \A j \in 1..Len(pseudo) :
        j \in DOMAIN pseudoInitiators[s] /\ pseudo[j][1] = pseudoInitiators[s][j]
  <2>1. pseudoInitiators[s] \in Seq(Requester)
    BY DEF Types, RequestsOK
  <2> QED BY <2>1
<1>3. \A i \in 1..Len(real) : real[i][1] = initiator[s]
  OBVIOUS
<1>4. TellList(s, pid) = real \o pseudo
  BY DEF TellList
<1> HIDE DEF real, pseudo, Teller
<1>5. /\ real \o pseudo \in Seq(Teller) /\ Len(real \o pseudo) = Len(real) + Len(pseudo)
      /\ \A i \in 1..Len(real) + Len(pseudo) :
           (real \o pseudo)[i] = IF i <= Len(real) THEN real[i] ELSE pseudo[i - Len(real)]
  BY <1>1, <1>2, ConcatProperties
<1>6. ASSUME NEW i \in 1..Len(real) + Len(pseudo)
      PROVE  \/ (real \o pseudo)[i][1] = initiator[s]
             \/ \E j \in DOMAIN pseudoInitiators[s] :
                  (real \o pseudo)[i][1] = pseudoInitiators[s][j]
  <2>1. Len(real) \in Nat /\ Len(pseudo) \in Nat
    BY <1>1, <1>2
  <2>2. CASE i <= Len(real)
    <3>1. i \in 1..Len(real)
      BY <2>1, <2>2
    <3> QED BY <1>3, <1>5, <2>2, <3>1
  <2>3. CASE ~(i <= Len(real))
    <3>1. i - Len(real) \in 1..Len(pseudo)
      BY <2>1, <2>3
    <3> QED BY <1>2, <1>5, <2>3, <3>1
  <2> QED BY <2>2, <2>3
<1>7. DOMAIN (real \o pseudo) = 1..Len(real) + Len(pseudo)
  BY <1>5
<1> QED BY <1>4, <1>5, <1>6, <1>7 DEF Teller

LEMMA LockDoneTypes ==
  ASSUME Types, NEW t \in Thread, LockDone(t)
  PROVE  Types'
<1> DEFINE s == Top(t).s
           f == [Top(t) EXCEPT !.at = "tell", !.tell = TellList(s, Top(t).pid)]
<1>1. /\ At(t, "lock") /\ Top(t) \in DoneFrame /\ s \in Script
      /\ Top(t).pid \in Script \cup {None}
      /\ stack[t] \in Seq(Frame) /\ stack[t] # <<>>
  BY DoneFields, TopIsFrame DEF LockDone, Types
<1>2. TellList(s, Top(t).pid) \in Seq(Requester \X (Script \cup {None}))
  BY <1>1, TellListIs
<1>3. f \in Frame
  <2>1. f \in DoneFrame
    BY <1>1, <1>2 DEF DoneFrame
  <2> QED BY <2>1 DEF Frame
<1>4. stack' = [stack EXCEPT ![t] = [stack[t] EXCEPT ![1] = f]]
  BY <1>1 DEF LockDone, TellList, Top, Types, Stacks
<1>5. Stacks'
  <2>1. [stack[t] EXCEPT ![1] = f] \in Seq(Frame)
    BY <1>1, <1>3, TopChanged
  <2> HIDE DEF f
  <2> QED BY <1>4, <2>1 DEF Types, Stacks
<1>6. CallsOK'
  BY <1>1, ToldIsCalls, PostAllKeeps DEF LockDone, Types
<1>7. MutexesOK'
  BY <1>1 DEF LockDone, Types, MutexesOK
<1> QED BY <1>5, <1>6, <1>7, GroupsKept DEF LockDone, Types

LEMMA TellRequesterTypes ==
  ASSUME Types, NEW t \in Thread, TellRequester(t)
  PROVE  Types'
<1> DEFINE f == Top(t)
           r == Head(f.tell)[1]
           rest == [f EXCEPT !.tell = Tail(@)]
<1>1. /\ At(t, "tell") /\ f \in DoneFrame /\ f.s \in Script /\ f.ok \in BOOLEAN
      /\ f.tell \in Seq(Requester \X (Script \cup {None})) /\ f.tell # <<>>
      /\ Tail(stack[t]) \in Seq(Frame)
  BY DoneFields, TopIsFrame DEF TellRequester, Types
<1>2. /\ Head(f.tell)[2] \in Script \cup {None}
      /\ Tail(f.tell) \in Seq(Requester \X (Script \cup {None}))
  BY <1>1
<1>3. rest \in Frame
  <2>1. rest \in DoneFrame
    BY <1>1, <1>2 DEF DoneFrame
  <2> QED BY <2>1 DEF Frame
<1>4. CallsOK'
  BY <1>1, ToldIsCalls, PostAllKeeps DEF TellRequester, Types
<1>5. Stacks'
  <2>1. CASE r \in beingBuilt
    <3>1. r \in Script
      BY <2>1 DEF Types, FlagsOK
    <3>2. SetInitiatedBuildIsCompleted(r, f.s, f.ok, Head(f.tell)[2]) \in Frame
      BY <1>1, <1>2, <3>1, NewFrames
    <3>3. <<SetInitiatedBuildIsCompleted(r, f.s, f.ok, Head(f.tell)[2]), rest>>
            \o Tail(stack[t]) \in Seq(Frame)
      BY <1>1, <1>3, <3>2, PutTwo
    <3> QED BY <2>1, <3>3 DEF TellRequester, Types, Stacks
  <2>2. CASE r \notin beingBuilt
    <3>1. <<rest>> \o Tail(stack[t]) \in Seq(Frame)
      BY <1>1, <1>3, PutOn
    <3> QED BY <2>2, <3>1 DEF TellRequester, Types, Stacks
  <2> QED BY <2>1, <2>2
<1>6. WorkspaceOK'
  BY HistoryKept DEF TellRequester, Types
<1> QED BY <1>4, <1>5, <1>6, GroupsKept DEF TellRequester, Types

LEMMA BuildIsCompletedTypes ==
  ASSUME Types, NEW t \in Thread, BuildIsCompleted(t)
  PROVE  Types'
<1>1. At(t, "tell") /\ Return(t) /\ Top(t).s \in Script /\ ClearBuildInformation(Top(t).s)
  BY DoneFields DEF BuildIsCompleted
<1>2. Stacks'
  BY <1>1, ReturnKeeps DEF Types
<1>3. RequestsOK' /\ ProgressOK' /\ beingBuilt' \subseteq Script
  BY <1>1, ClearKeeps
<1>4. FlagsOK'
  BY <1>1, <1>3 DEF BuildIsCompleted, Types, FlagsOK
<1>5. MutexesOK'
  BY <1>1 DEF BuildIsCompleted, Types, MutexesOK
<1> QED BY <1>2, <1>3, <1>4, <1>5, GroupsKept DEF BuildIsCompleted, Types

LEMMA EraseDependencyTypes ==
  ASSUME Types, NEW t \in Thread, EraseDependency(t)
  PROVE  Types'
<1>1. /\ At(t, "erase") /\ GoTo(t, "last") /\ Top(t) \in Frame /\ Top(t) \in ToldFrame
      /\ Top(t).s \in Script
  BY ToldFields, TopIsFrame DEF EraseDependency, Types
<1>2. [Top(t) EXCEPT !.at = "last"] \in Frame
  BY <1>1, FramesGoOn
<1>3. Stacks'
  BY <1>1, <1>2, GoToKeeps DEF Types
<1>4. ProgressOK'
  BY <1>1 DEF EraseDependency, Types, ProgressOK
<1> QED BY <1>3, <1>4, GroupsKept DEF EraseDependency, Types

LEMMA LastDependencyTypes ==
  ASSUME Types, NEW t \in Thread, LastDependency(t)
  PROVE  Types'
<1>1. At(t, "last") /\ Top(t).s \in Script
  BY ToldFields DEF LastDependency
<1>2. CASE Return(t) /\ (UNCHANGED calls \/ Post(BuildSelfThread(Top(t).s)))
  <2>1. Stacks'
    BY <1>1, <1>2, ReturnKeeps DEF Types
  <2>2. CallsOK'
    BY <1>1, <1>2, GroupsKept, NewCalls, PostKeeps DEF Types
  <2> QED BY <2>1, <2>2, GroupsKept DEF LastDependency, Types
<1>3. CASE Become(t, SetBuildCompleted(Top(t).s, FALSE, None)) /\ UNCHANGED calls
  <2>1. SetBuildCompleted(Top(t).s, FALSE, None) \in Frame
    BY <1>1, NewFrames
  <2>2. Stacks'
    BY <1>1, <1>3, <2>1, BecomeKeeps DEF Types
  <2> QED BY <1>3, <2>2, GroupsKept DEF LastDependency, Types
<1> QED BY <1>2, <1>3 DEF LastDependency

LEMMA UnlockCompTypes ==
  ASSUME Types, NEW t \in Thread, UnlockComp(t)
  PROVE  Types'
<1>1. At(t, "unlock") /\ Return(t) /\ Top(t).s \in Script
  BY CompileFields DEF UnlockComp
<1>2. Stacks'
  BY <1>1, ReturnKeeps DEF Types
<1>3. MutexesOK'
  BY <1>1 DEF UnlockComp, Types, MutexesOK
<1> QED BY <1>2, <1>3, GroupsKept DEF UnlockComp, Types
-----------------------------------------------------------------------------
(* The thread of the user interface: delayed calls and cancelation.          *)
LEMMA CallTaken ==
  ASSUME Types, calls # <<>>
  PROVE  Tail(calls) \in Seq(DelayedCall)
BY DEF Types, CallsOK

LEMMA GuiIsThread == Gui \in Thread
BY DEF Thread

LEMMA OnResourceWorkCompletedTypes ==
  ASSUME Types, NEW s \in Script, NEW w \in Worker, OnResourceWorkCompleted(s, w)
  PROVE  Types'
<1> DEFINE over == busy /\ working[w] = {s} /\ \A v \in Worker \ {w} : ~Waits(v)
           said == IF over THEN <<WorkCompleted>> ELSE <<>>
<1>1. CallsOK'
  <2>1. Tail(calls) \in Seq(DelayedCall)
    BY CallTaken DEF OnResourceWorkCompleted
  <2>2. said \in Seq(DelayedCall)
    <3>1. <<WorkCompleted>> \in Seq(DelayedCall) /\ <<>> \in Seq(DelayedCall)
      BY NewCalls
    <3> HIDE DEF over
    <3> QED BY <3>1
  <2>3. calls' = Tail(calls) \o said
    BY DEF OnResourceWorkCompleted
  <2> HIDE DEF said
  <2> QED BY <2>1, <2>2, <2>3 DEF CallsOK
<1>2. busy' \in BOOLEAN
  <2>1. busy' = (busy /\ ~over)
    BY DEF OnResourceWorkCompleted
  <2> HIDE DEF over
  <2> QED BY <2>1
<1>3. WorkspaceOK'
  BY <1>2 DEF OnResourceWorkCompleted, Types, WorkspaceOK
<1> QED BY <1>1, <1>3, GroupsKept DEF OnResourceWorkCompleted, Types

LEMMA OnWorkCompletedTypes ==
  ASSUME Types, OnWorkCompleted
  PROVE  Types'
<1>1. CallsOK'
  BY CallTaken DEF OnWorkCompleted, Calling, CallsOK
<1>2. FlagsOK'
  BY DEF OnWorkCompleted, Types, FlagsOK
<1> QED BY <1>1, <1>2, GroupsKept DEF OnWorkCompleted, Types

LEMMA StartBuildSelfThreadTypes ==
  ASSUME Types, NEW s \in Script, NEW p \in Pool, StartBuildSelfThread(s, p)
  PROVE  Types'
<1>1. CallsOK'
  BY CallTaken DEF StartBuildSelfThread, Calling, CallsOK
<1>2. BuildSelf(s) \in Frame /\ p \in Thread
  BY NewFrames DEF Thread
<1>3. Stacks'
  BY <1>2 DEF StartBuildSelfThread, Types, Stacks
<1> QED BY <1>1, <1>3, GroupsKept DEF StartBuildSelfThread, Types

LEMMA OnCompileFinishedTypes ==
  ASSUME Types, NEW s \in Script, OnCompileFinished(s)
  PROVE  Types'
<1>1. CallsOK'
  BY CallTaken DEF OnCompileFinished, Calling, CallsOK
<1>2. CASE s \in buildCanceled
  <2>1. UNCHANGED <<stack, compMutex>>
    BY <1>2 DEF OnCompileFinished
  <2>2. UNCHANGED mutexes
    BY <2>1 DEF OnCompileFinished, mutexes
  <2> QED BY <1>1, <2>1, <2>2, GroupsKept DEF OnCompileFinished, Types
<1>3. CASE s \notin buildCanceled
  <2>1. /\ compMutex' = [compMutex EXCEPT ![s] = Gui]
        /\ stack' = [stack EXCEPT ![Gui] =
             <<SetBuildCompleted(s, s \in byteCode, s), [at |-> "unlock", s |-> s]>>]
    BY <1>3 DEF OnCompileFinished
  <2>2. SetBuildCompleted(s, s \in byteCode, s) \in Frame /\ [at |-> "unlock", s |-> s] \in Frame
    <3>1. (s \in byteCode) \in BOOLEAN
      OBVIOUS
    <3> QED BY <3>1, NewFrames
  <2>3. Stacks'
    BY <2>1, <2>2, GuiIsThread DEF Types, Stacks
  <2>4. MutexesOK'
    BY <2>1, GuiIsThread DEF OnCompileFinished, Types, MutexesOK
  <2> QED BY <1>1, <2>3, <2>4, GroupsKept DEF OnCompileFinished, Types
<1> QED BY <1>2, <1>3

LEMMA StartWorkingTypes ==
  ASSUME Types, BuildAssumption, StartWorking
  PROVE  Types'
<1>1. Stacks'
  <2>1. <<WorkThread>> \in Seq(Frame) /\ <<>> \in Seq(Frame)
    BY NewFrames
  <2> QED BY <2>1 DEF StartWorking, Stacks
<1>2. FilesOK' /\ FlagsOK'
  BY DEF StartWorking, Types, FilesOK, FlagsOK
<1>3. WorkspaceOK'
  BY DEF StartWorking, Types, WorkspaceOK, BuildAssumption
<1> QED BY <1>1, <1>2, <1>3, GroupsKept DEF StartWorking, Types

LEMMA CancelWorkTypes ==
  ASSUME Types, BuildAssumption, CancelWork
  PROVE  Types'
<1>1. Cancel(Listeners) \in Frame
  BY NewFrames DEF Cancel, BuildAssumption
<1>2. Stacks'
  BY <1>1, GuiIsThread DEF CancelWork, Types, Stacks
<1> QED BY <1>2, GroupsKept DEF CancelWork, Types

LEMMA SignalFields ==
  ASSUME Types, NEW x, Signals(x)
  PROVE  At(Gui, "cancel") /\ Tail(Top(Gui).left) \in Seq(Script \cup Worker)
BY CancelFields, GuiIsThread DEF Signals

LEMMA CancelScriptTypes ==
  ASSUME Types, NEW s \in Script, CancelScript(s)
  PROVE  Types'
<1>1. Terminate(s) \in Frame /\ [at |-> "reset", left |-> Tail(Top(Gui).left)] \in Frame
  BY NewFrames, SignalFields DEF CancelScript
<1>2. Stacks'
  BY <1>1, GuiIsThread DEF CancelScript, Types, Stacks
<1>3. FlagsOK'
  BY DEF CancelScript, Types, FlagsOK
<1> QED BY <1>2, <1>3, GroupsKept DEF CancelScript, Types

LEMMA CancelProjectTypes ==
  ASSUME Types, NEW w \in Worker, CancelProject(w)
  PROVE  Types'
<1>1. [at |-> "join", left |-> Tail(Top(Gui).left)] \in Frame
  BY NewFrames, SignalFields DEF CancelProject
<1>2. Stacks'
  BY <1>1, GuiIsThread DEF CancelProject, Types, Stacks
<1>3. WorkspaceOK'
  BY DEF CancelProject, Types, WorkspaceOK
<1> QED BY <1>2, <1>3, GroupsKept DEF CancelProject, Types

LEMMA ResetUpToDateTypes ==
  ASSUME Types, ResetUpToDate
  PROVE  Types'
<1>1. At(Gui, "reset") /\ GoTo(Gui, "cancel") /\ Top(Gui) \in Frame /\ Top(Gui).at = "reset"
  BY TopIsFrame, GuiIsThread DEF ResetUpToDate, Types
<1>2. [Top(Gui) EXCEPT !.at = "cancel"] \in Frame
  BY <1>1, FramesGoOn
<1>3. Stacks'
  BY <1>1, <1>2, GoToKeeps, GuiIsThread DEF Types
<1>4. FlagsOK'
  BY DEF ResetUpToDate, Types, FlagsOK
<1> QED BY <1>3, <1>4, GroupsKept DEF ResetUpToDate, Types

LEMMA JoinWorkerTypes ==
  ASSUME Types, JoinWorker
  PROVE  Types'
<1>1. At(Gui, "join") /\ GoTo(Gui, "cancel") /\ Top(Gui) \in Frame /\ Top(Gui).at = "join"
  BY TopIsFrame, GuiIsThread DEF JoinWorker, Types
<1>2. [Top(Gui) EXCEPT !.at = "cancel"] \in Frame
  BY <1>1, FramesGoOn
<1>3. Stacks'
  BY <1>1, <1>2, GoToKeeps, GuiIsThread DEF Types
<1>4. WorkspaceOK'
  BY DEF JoinWorker, Types, WorkspaceOK
<1> QED BY <1>3, <1>4, GroupsKept DEF JoinWorker, Types

LEMMA WorkCanceledTypes ==
  ASSUME Types, WorkCanceled
  PROVE  Types'
<1>1. Stacks'
  BY ReturnKeeps, GuiIsThread DEF WorkCanceled, Types
<1>2. WorkspaceOK'
  BY DEF WorkCanceled, Types, WorkspaceOK
<1> QED BY <1>1, <1>2, GroupsKept DEF WorkCanceled, Types

LEMMA TerminateCompilersTypes ==
  ASSUME Types, NEW t \in Thread, TerminateCompilers(t)
  PROVE  Types'
<1> DEFINE s == Top(t).s
           f == [Top(t) EXCEPT !.at = "terminating",
                               !.todo = IF pids[s] = {} THEN {} ELSE buildDeps[s]]
<1>1. /\ At(t, "terminate")
      /\ Top(t) \in [at : {"terminate", "terminating"}, s : Script, todo : SUBSET Script]
      /\ s \in Script /\ stack[t] \in Seq(Frame) /\ stack[t] # <<>>
  BY TerminateFields, TopIsFrame DEF TerminateCompilers, Types
<1>2. buildDeps[s] \in SUBSET Script
  BY <1>1 DEF Types, ProgressOK
<1>3. f \in Frame
  <2>1. f \in [at : {"terminate", "terminating"}, s : Script, todo : SUBSET Script]
    BY <1>1, <1>2
  <2> QED BY <2>1 DEF Frame, CancelFrame
<1>4. stack' = [stack EXCEPT ![t] = [stack[t] EXCEPT ![1] = f]]
  BY <1>1 DEF TerminateCompilers, Top, Types, Stacks
<1>5. Stacks'
  <2>1. [stack[t] EXCEPT ![1] = f] \in Seq(Frame)
    BY <1>1, <1>3, TopChanged
  <2> HIDE DEF f
  <2> QED BY <1>4, <2>1 DEF Types, Stacks
<1>6. CompilersOK' /\ MutexesOK'
  BY <1>1 DEF TerminateCompilers, Types, CompilersOK, MutexesOK
<1>7. FlagsOK' /\ RequestsOK' /\ ProgressOK'
  <2>1. CASE ClearBuildInformation(s)
    BY <1>1, <2>1, ClearKeeps DEF TerminateCompilers, Types, FlagsOK
  <2>2. CASE UNCHANGED <<beingBuilt, requests, progress>>
    BY <2>2, GroupsKept DEF TerminateCompilers, Types, FlagsOK
  <2> QED BY <2>1, <2>2 DEF TerminateCompilers
<1> QED BY <1>5, <1>6, <1>7, GroupsKept DEF TerminateCompilers, Types

LEMMA TerminateDependencyTypes ==
  ASSUME Types, NEW t \in Thread, TerminateDependency(t)
  PROVE  Types'
<1>1. /\ At(t, "terminating")
      /\ Top(t) \in [at : {"terminate", "terminating"}, s : Script, todo : SUBSET Script]
      /\ Top(t).todo \subseteq Script /\ Tail(stack[t]) \in Seq(Frame)
  BY TerminateFields, TopIsFrame DEF TerminateDependency, Types
<1>2. PICK d \in Top(t).todo :
        stack' = [stack EXCEPT ![t] = <<Terminate(d),
                    [Top(t) EXCEPT !.todo = @ \ {d}]>> \o Tail(@)]
  BY DEF TerminateDependency
<1>3. Terminate(d) \in Frame
  BY <1>1, NewFrames
<1>4. [Top(t) EXCEPT !.todo = @ \ {d}] \in Frame
  <2>1. [Top(t) EXCEPT !.todo = @ \ {d}]
          \in [at : {"terminate", "terminating"}, s : Script, todo : SUBSET Script]
    BY <1>1
  <2> QED BY <2>1 DEF Frame, CancelFrame
<1>5. Stacks'
  <2>1. <<Terminate(d), [Top(t) EXCEPT !.todo = @ \ {d}]>> \o Tail(stack[t]) \in Seq(Frame)
    BY <1>1, <1>3, <1>4, PutTwo
  <2> QED BY <1>2, <2>1 DEF Types, Stacks
<1> QED BY <1>5, GroupsKept DEF TerminateDependency, Types

LEMMA LeaveTerminateTypes ==
  ASSUME Types, NEW t \in Thread, LeaveTerminate(t)
  PROVE  Types'
<1>1. At(t, "terminating") /\ Return(t) /\ Top(t).s \in Script
  BY TerminateFields DEF LeaveTerminate
<1>2. Stacks'
  BY <1>1, ReturnKeeps DEF Types
<1>3. MutexesOK'
  BY <1>1 DEF LeaveTerminate, Types, MutexesOK
<1> QED BY <1>2, <1>3, GroupsKept DEF LeaveTerminate, Types
-----------------------------------------------------------------------------
LEMMA InitTypes ==
  ASSUME BuildAssumption, Init
  PROVE  Types
<1>1. Stacks /\ CallsOK /\ CompilersOK /\ FilesOK /\ FlagsOK
  BY DEF Init, Stacks, CallsOK, CompilersOK, FilesOK, FlagsOK, BuildAssumption
<1>2. RequestsOK
  BY DEF Init, RequestsOK
<1>3. ProgressOK /\ MutexesOK
  BY DEF Init, ProgressOK, MutexesOK
<1>4. WorkspaceOK
  <2>1. MaxSessions \in Nat
    BY DEF BuildAssumption
  <2>2. session \in 0..MaxSessions
    BY <2>1 DEF Init
  <2>3. busy \in BOOLEAN /\ spoilt \in BOOLEAN
    BY DEF Init
  <2>4. working \in [Worker -> SUBSET Script] /\ stopWorker \subseteq Worker
    BY DEF Init
  <2> QED BY <2>2, <2>3, <2>4 DEF WorkspaceOK
<1> QED BY <1>1, <1>2, <1>3, <1>4 DEF Types

LEMMA NextTypes ==
  ASSUME BuildAssumption, Types, [Next]_vars
  PROVE  Types'
<1>1. ASSUME NEW t \in Thread, Build(t) PROVE Types'
  BY <1>1, LockBuildTypes, TestUpToDateTypes, AddBuildPseudoInitiatorTypes, StartBuildTypes,
     BuildDependencyTypes, LeaveBuildTypes, CheckByteCodeTypes, LaunchCompilerTypes,
     LaunchFailsTypes, SetCompilerPidTypes, LockDoneTypes, TellRequesterTypes,
     BuildIsCompletedTypes, EraseDependencyTypes, LastDependencyTypes, UnlockCompTypes
  DEF Build
<1>2. ASSUME NEW w \in Worker, WorkStarts(w) \/ AskNext(w) PROVE Types'
  BY <1>2, WorkStartsTypes, AskNextTypes
<1>3. ASSUME NEW s \in Script, CompilerEnds(s) PROVE Types'
  BY <1>3, CompilerEndsTypes
<1>4. CASE MakeCall
  BY <1>4, OnCompileFinishedTypes, OnResourceWorkCompletedTypes, StartBuildSelfThreadTypes,
     OnWorkCompletedTypes DEF MakeCall
<1>5. CASE CancelStep
  BY <1>5, CancelScriptTypes, CancelProjectTypes, ResetUpToDateTypes, JoinWorkerTypes,
     WorkCanceledTypes, TerminateCompilersTypes, TerminateDependencyTypes,
     LeaveTerminateTypes, GuiIsThread DEF CancelStep
<1>6. CASE StartWorking \/ CancelWork
  BY <1>6, StartWorkingTypes, CancelWorkTypes
<1>7. CASE UNCHANGED vars
  BY <1>7, GroupsKept DEF vars, Types
<1> QED BY <1>1, <1>2, <1>3, <1>4, <1>5, <1>6, <1>7 DEF Next

(* Every variable keeps its type, whatever scripts, projects and threads     *)
(* there are: what a thread finds on its stack is what was put there.        *)
THEOREM ScriptBuildTypeCorrect == Spec => []TypeOK
<1>1. Init => Types
  BY BuildAssumption, InitTypes
<1>2. Types /\ [Next]_vars => Types'
  BY BuildAssumption, NextTypes
<1>3. Types => TypeOK
  BY TypesAreTypeOK
<1> QED BY <1>1, <1>2, <1>3, PTL DEF Spec
-----------------------------------------------------------------------------
(* The order of the mutexes.  Each function of a stack has a depth: what it  *)
(* holds is not above its depth in the order and what it waits for is not    *)
(* below, and the depths grow from the outermost function to the innermost.  *)
Depth(rank, f) ==
  LET n == Cardinality(Script) IN
  CASE f.at \in {"start", "work", "cancel", "reset", "join"} -> 0
    [] f.at \in {"enter", "test", "progress", "deps", "leave", "unresolved",
                 "terminate", "terminating"} -> n + 1 - rank[f.s]
    [] f.at \in {"check", "launch", "launched", "unlock"} -> n + 1
    [] f.at \in {"lock", "tell", "erase", "last"} -> n + 2 + rank[f.s]

Ordered(rank, st) ==
  \A i, j \in DOMAIN st : i < j => Depth(rank, st[j]) < Depth(rank, st[i])

(* Does function f hold mutex m?                                             *)
Holds(f, m) ==
  \/ /\ m.kind = "build" /\ m.s = f.s
     /\ f.at \in {"test", "progress", "deps", "leave", "unresolved", "terminating"}
  \/ m.kind = "call" /\ f.at \in {"launched", "unlock"}
  \/ m.kind = "comp" /\ m.s = f.s /\ f.at \in {"launched", "unlock"}
  \/ m.kind = "done" /\ m.s = f.s /\ f.at = "tell"

HeldIn(st, m) == \E i \in DOMAIN st : Holds(st[i], m)

(* Scripts are asked for, told and terminated along what they use.           *)
FrameUses(f) ==
  /\ f.at \in {"enter", "test", "progress", "deps", "leave", "unresolved"} =>
       /\ f.for \in Script => f.s \in Uses[f.for]
       /\ f.todo \subseteq Uses[f.s]
  /\ f.at \in {"terminate", "terminating"} => f.todo \subseteq Uses[f.s]
  /\ f.at = "tell" => \A i \in DOMAIN f.tell :
                        f.tell[i][1] \in Script => f.s \in Uses[f.tell[i][1]]

Good(rank, st) ==
  /\ st \in Seq(Frame) /\ Ordered(rank, st)
  /\ \A i \in DOMAIN st : FrameUses(st[i])

RequestsUse ==
  \A s \in Script :
    /\ initiator[s] \in Script => s \in Uses[initiator[s]]
    /\ \A i \in DOMAIN pseudoInitiators[s] :
         pseudoInitiators[s][i] \in Script => s \in Uses[pseudoInitiators[s][i]]
    /\ buildDeps[s] \subseteq Uses[s]

Backed(t) == \A m \in Owned(t) : HeldIn(stack[t], m)

Shape(rank) == \A t \in Thread : Good(rank, stack[t]) /\ Backed(t)

LEMMA RankFacts ==
  ASSUME BuildAssumption, NEW rank \in Ranking
  PROVE  /\ Cardinality(Script) \in Nat
         /\ rank \in [Script -> 1..Cardinality(Script)]
         /\ \A s \in Script : rank[s] \in Nat /\ 1 <= rank[s] /\ rank[s] <= Cardinality(Script)
         /\ \A s \in Script : \A d \in Uses[s] : d \in Script /\ rank[d] < rank[s]
<1>1. Cardinality(Script) \in Nat
  BY FS_CardinalityType DEF BuildAssumption
<1>2. /\ rank \in [Script -> 1..Cardinality(Script)]
      /\ \A s \in Script : \A d \in Uses[s] : rank[d] < rank[s]
  BY DEF Ranking
<1>3. \A s \in Script : Uses[s] \subseteq Script
  BY DEF BuildAssumption
<1> QED BY <1>1, <1>2, <1>3

LEMMA DepthByKind ==
  ASSUME NEW rank, NEW f
  PROVE  /\ f.at \in {"start", "work", "cancel", "reset", "join"} => Depth(rank, f) = 0
         /\ f.at \in {"enter", "test", "progress", "deps", "leave", "unresolved",
                      "terminate", "terminating"} =>
              Depth(rank, f) = Cardinality(Script) + 1 - rank[f.s]
         /\ f.at \in {"check", "launch", "launched", "unlock"} =>
              Depth(rank, f) = Cardinality(Script) + 1
         /\ f.at \in {"lock", "tell", "erase", "last"} =>
              Depth(rank, f) = Cardinality(Script) + 2 + rank[f.s]
BY DEF Depth

LEMMA FrameScript ==
  ASSUME NEW f \in Frame
  PROVE  \/ f.at \in {"start", "work", "cancel", "reset", "join"}
         \/ /\ f.s \in Script
            /\ f.at \in {"enter", "test", "progress", "deps", "leave", "unresolved",
                         "terminate", "terminating", "check", "launch", "launched", "unlock",
                         "lock", "tell", "erase", "last"}
BY DEF Frame, WorkFrame, BuildFrame, CompileFrame, DoneFrame, ToldFrame, CancelFrame

LEMMA DepthIsNat ==
  ASSUME BuildAssumption, NEW rank \in Ranking, NEW f \in Frame
  PROVE  Depth(rank, f) \in Nat
<1>1. CASE f.at \in {"start", "work", "cancel", "reset", "join"}
  BY <1>1, DepthByKind
<1>2. CASE f.s \in Script /\ f.at \notin {"start", "work", "cancel", "reset", "join"}
  <2>1. /\ Cardinality(Script) \in Nat /\ rank[f.s] \in Nat /\ rank[f.s] <= Cardinality(Script)
    BY <1>2, RankFacts
  <2>2. \/ Depth(rank, f) = Cardinality(Script) + 1 - rank[f.s]
        \/ Depth(rank, f) = Cardinality(Script) + 1
        \/ Depth(rank, f) = Cardinality(Script) + 2 + rank[f.s]
    BY <1>2, FrameScript, DepthByKind
  <2> QED BY <2>1, <2>2
<1> QED BY <1>1, <1>2, FrameScript

(* Good stacks, as functions are left, changed and called.                   *)
LEMMA GoodTail ==
  ASSUME NEW rank, NEW st, Good(rank, st), st # <<>>
  PROVE  Good(rank, Tail(st))
<1>1. /\ st \in Seq(Frame) /\ Tail(st) \in Seq(Frame)
      /\ \A i \in DOMAIN Tail(st) : i + 1 \in DOMAIN st /\ Tail(st)[i] = st[i + 1] /\ i \in Nat
  BY DEF Good
<1>2. \A i \in DOMAIN Tail(st) : FrameUses(Tail(st)[i])
  BY <1>1 DEF Good
<1>3. Ordered(rank, Tail(st))
  <2>1. SUFFICES ASSUME NEW i \in DOMAIN Tail(st), NEW j \in DOMAIN Tail(st), i < j
                 PROVE  Depth(rank, Tail(st)[j]) < Depth(rank, Tail(st)[i])
    BY DEF Ordered
  <2>2. i + 1 < j + 1
    BY <2>1, <1>1
  <2> QED BY <2>2, <1>1 DEF Good, Ordered
<1> QED BY <1>1, <1>2, <1>3 DEF Good

LEMMA GoodPush ==
  ASSUME BuildAssumption, NEW rank \in Ranking, NEW st, Good(rank, st), NEW f \in Frame,
         FrameUses(f), \A i \in DOMAIN st : Depth(rank, st[i]) < Depth(rank, f)
  PROVE  Good(rank, <<f>> \o st)
<1> DEFINE new == <<f>> \o st
<1>1. /\ st \in Seq(Frame) /\ new \in Seq(Frame) /\ new[1] = f
      /\ \A i \in DOMAIN new : i \in Nat /\ (i = 1 \/ (i - 1 \in DOMAIN st /\ new[i] = st[i - 1]))
  BY DEF Good
<1> HIDE DEF new
<1>2. \A i \in DOMAIN new : FrameUses(new[i])
  BY <1>1 DEF Good
<1>3. Ordered(rank, new)
  <2>1. SUFFICES ASSUME NEW i \in DOMAIN new, NEW j \in DOMAIN new, i < j
                 PROVE  Depth(rank, new[j]) < Depth(rank, new[i])
    BY DEF Ordered
  <2>2. j - 1 \in DOMAIN st /\ new[j] = st[j - 1] /\ i \in Nat /\ j \in Nat /\ i >= 1
    <3>1. i \in 1..Len(new) /\ j \in 1..Len(new)
      BY <1>1
    <3> QED BY <2>1, <1>1, <3>1
  <2>3. CASE i = 1
    BY <2>2, <2>3, <1>1
  <2>4. CASE i # 1
    <3>1. i - 1 \in DOMAIN st /\ new[i] = st[i - 1] /\ i - 1 < j - 1
      BY <2>1, <2>2, <2>4, <1>1
    <3> QED BY <3>1, <2>2 DEF Good, Ordered
  <2> QED BY <2>3, <2>4
<1> QED BY <1>1, <1>2, <1>3 DEF Good, new

(* What is under the innermost function is less deep than it.                *)
LEMMA UnderTop ==
  ASSUME NEW rank, NEW st, Good(rank, st), st # <<>>
  PROVE  /\ Head(st) \in Frame /\ FrameUses(Head(st))
         /\ \A i \in DOMAIN Tail(st) : Depth(rank, Tail(st)[i]) < Depth(rank, Head(st))
<1>1. /\ st \in Seq(Frame) /\ Head(st) = st[1] /\ 1 \in DOMAIN st
      /\ \A i \in DOMAIN Tail(st) : i + 1 \in DOMAIN st /\ Tail(st)[i] = st[i + 1] /\ 1 < i + 1
  BY DEF Good
<1> QED BY <1>1 DEF Good, Ordered

LEMMA GoodBecome ==
  ASSUME BuildAssumption, NEW rank \in Ranking, NEW st, Good(rank, st), st # <<>>,
         NEW f \in Frame, FrameUses(f), Depth(rank, Head(st)) <= Depth(rank, f)
  PROVE  Good(rank, <<f>> \o Tail(st))
<1>1. Good(rank, Tail(st))
  BY GoodTail
<1>2. \A i \in DOMAIN Tail(st) : Depth(rank, Tail(st)[i]) < Depth(rank, f)
  <2>1. SUFFICES ASSUME NEW i \in DOMAIN Tail(st) PROVE Depth(rank, Tail(st)[i]) < Depth(rank, f)
    OBVIOUS
  <2>2. Tail(st)[i] \in Frame /\ Head(st) \in Frame
    BY <1>1, UnderTop DEF Good
  <2>3. /\ Depth(rank, Tail(st)[i]) \in Nat /\ Depth(rank, Head(st)) \in Nat
        /\ Depth(rank, f) \in Nat /\ Depth(rank, Tail(st)[i]) < Depth(rank, Head(st))
    BY <2>2, DepthIsNat, UnderTop
  <2> QED BY <2>3
<1> QED BY <1>1, <1>2, GoodPush

LEMMA GoodEnter ==
  ASSUME BuildAssumption, NEW rank \in Ranking, NEW st, Good(rank, st), st # <<>>,
         NEW f \in Frame, FrameUses(f), NEW g \in Frame, FrameUses(g),
         Depth(rank, Head(st)) <= Depth(rank, g), Depth(rank, g) < Depth(rank, f)
  PROVE  Good(rank, <<f, g>> \o Tail(st))
<1> DEFINE under == <<g>> \o Tail(st)
<1>1. Good(rank, under)
  BY GoodBecome
<1>2. Tail(under) = Tail(st) /\ Head(under) = g /\ under # <<>> /\ Tail(st) \in Seq(Frame)
  <2>1. Tail(st) \in Seq(Frame)
    BY GoodTail DEF Good
  <2> QED BY <2>1
<1>3. <<f, g>> \o Tail(st) = <<f>> \o under
  BY <1>2
<1>4. \A i \in DOMAIN under : Depth(rank, under[i]) < Depth(rank, f)
  <2> SUFFICES ASSUME NEW i \in DOMAIN under PROVE Depth(rank, under[i]) < Depth(rank, f)
    OBVIOUS
  <2>1. under[1] = g /\ (i = 1 \/ (i # 1 /\ 1 < i)) /\ 1 \in DOMAIN under
    BY <1>2
  <2> HIDE DEF under
  <2>2. under[i] \in Frame
    BY <1>1 DEF Good
  <2>3. Depth(rank, under[i]) \in Nat /\ Depth(rank, g) \in Nat /\ Depth(rank, f) \in Nat
    BY <2>2, DepthIsNat
  <2>4. i # 1 => Depth(rank, under[i]) < Depth(rank, g)
    BY <2>1, <1>1 DEF Good, Ordered
  <2> QED BY <2>1, <2>3, <2>4
<1> HIDE DEF under
<1> QED BY <1>1, <1>3, <1>4, GoodPush

(* A function that is not nested in any other is alone.                      *)
LEMMA BaseAlone ==
  ASSUME BuildAssumption, NEW rank \in Ranking, NEW st, Good(rank, st), st # <<>>,
         Depth(rank, Head(st)) = 0
  PROVE  Tail(st) = <<>> /\ st = <<Head(st)>>
<1>1. \A i \in DOMAIN Tail(st) : FALSE
  <2>1. SUFFICES ASSUME NEW i \in DOMAIN Tail(st) PROVE FALSE
    OBVIOUS
  <2>2. Tail(st)[i] \in Frame
    BY GoodTail DEF Good
  <2>3. Depth(rank, Tail(st)[i]) \in Nat /\ Depth(rank, Tail(st)[i]) < 0
    BY <2>2, DepthIsNat, UnderTop
  <2> QED BY <2>3
<1>2. Tail(st) \in Seq(Frame) /\ st \in Seq(Frame)
  BY GoodTail DEF Good
<1>3. Tail(st) = <<>>
  <2>1. Tail(st) # <<>> => 1 \in DOMAIN Tail(st)
    BY <1>2
  <2> QED BY <1>1, <2>1
<1>4. Len(st) = 1
  <2>1. Len(Tail(st)) = 0
    BY <1>3
  <2>2. Len(st) \in Nat /\ Len(Tail(st)) = Len(st) - 1
    BY <1>2, HeadTailProperties
  <2> QED BY <2>1, <2>2
<1>5. st = <<Head(st)>>
  BY <1>2, <1>4
<1> QED BY <1>3, <1>5

(* The mutexes that functions hold, as functions are left, changed, called.  *)
LEMMA HeldByTail ==
  ASSUME NEW st \in Seq(Frame), st # <<>>, NEW m
  PROVE  HeldIn(st, m) <=> Holds(Head(st), m) \/ HeldIn(Tail(st), m)
<1>1. /\ Head(st) = st[1] /\ 1 \in DOMAIN st
      /\ \A i \in DOMAIN Tail(st) : i + 1 \in DOMAIN st /\ Tail(st)[i] = st[i + 1]
      /\ \A i \in DOMAIN st : i = 1 \/ (i - 1 \in DOMAIN Tail(st) /\ Tail(st)[i - 1] = st[i])
  OBVIOUS
<1> QED BY <1>1 DEF HeldIn

LEMMA HeldByPush ==
  ASSUME NEW st \in Seq(Frame), NEW f \in Frame, NEW m
  PROVE  HeldIn(<<f>> \o st, m) <=> Holds(f, m) \/ HeldIn(st, m)
<1>1. <<f>> \o st \in Seq(Frame) /\ <<f>> \o st # <<>>
  OBVIOUS
<1>2. Head(<<f>> \o st) = f /\ Tail(<<f>> \o st) = st
  OBVIOUS
<1> QED BY <1>1, <1>2, HeldByTail

LEMMA HeldByTwo ==
  ASSUME NEW st \in Seq(Frame), NEW f \in Frame, NEW g \in Frame, NEW m
  PROVE  HeldIn(<<f, g>> \o st, m) <=> Holds(f, m) \/ Holds(g, m) \/ HeldIn(st, m)
<1>1. <<g>> \o st \in Seq(Frame)
  BY PutOn
<1>2. <<f, g>> \o st = <<f>> \o (<<g>> \o st)
  BY OneByOne
<1> QED BY <1>1, <1>2, HeldByPush

(* The mutexes of a thread.                                                  *)
Lock(kind, s) == [kind |-> kind, s |-> s]

LEMMA OwnedIs ==
  ASSUME NEW t, NEW m
  PROVE  /\ m \in Owned(t) <=>
              \/ \E s \in Script : m = Lock("build", s) /\ buildMutex[s] = t
              \/ m = Lock("call", None) /\ callMutex = t
              \/ \E s \in Script : m = Lock("comp", s) /\ compMutex[s] = t
              \/ \E s \in Script : m = Lock("done", s) /\ doneMutex[s] = t
         /\ m \in Owned(t)' <=>
              \/ \E s \in Script : m = Lock("build", s) /\ buildMutex'[s] = t
              \/ m = Lock("call", None) /\ callMutex' = t
              \/ \E s \in Script : m = Lock("comp", s) /\ compMutex'[s] = t
              \/ \E s \in Script : m = Lock("done", s) /\ doneMutex'[s] = t
<1>1. /\ m \in [kind : {"build"}, s : {s \in Script : buildMutex[s] = t}] <=>
           \E s \in Script : m = Lock("build", s) /\ buildMutex[s] = t
      /\ m \in [kind : {"call"}, s : {s \in {None} : callMutex = t}] <=>
           m = Lock("call", None) /\ callMutex = t
      /\ m \in [kind : {"comp"}, s : {s \in Script : compMutex[s] = t}] <=>
           \E s \in Script : m = Lock("comp", s) /\ compMutex[s] = t
      /\ m \in [kind : {"done"}, s : {s \in Script : doneMutex[s] = t}] <=>
           \E s \in Script : m = Lock("done", s) /\ doneMutex[s] = t
  BY DEF Lock
<1>2. /\ m \in [kind : {"build"}, s : {s \in Script : buildMutex'[s] = t}] <=>
           \E s \in Script : m = Lock("build", s) /\ buildMutex'[s] = t
      /\ m \in [kind : {"call"}, s : {s \in {None} : callMutex' = t}] <=>
           m = Lock("call", None) /\ callMutex' = t
      /\ m \in [kind : {"comp"}, s : {s \in Script : compMutex'[s] = t}] <=>
           \E s \in Script : m = Lock("comp", s) /\ compMutex'[s] = t
      /\ m \in [kind : {"done"}, s : {s \in Script : doneMutex'[s] = t}] <=>
           \E s \in Script : m = Lock("done", s) /\ doneMutex'[s] = t
  BY DEF Lock
<1> QED BY <1>1, <1>2 DEF Owned

LEMMA LockFields ==
  ASSUME NEW kind, NEW s, NEW kind2, NEW s2
  PROVE  /\ Lock(kind, s).kind = kind /\ Lock(kind, s).s = s
         /\ Lock(kind, s) = Lock(kind2, s2) <=> kind = kind2 /\ s = s2
<1>1. Lock(kind, s).kind = kind /\ Lock(kind, s).s = s
  BY DEF Lock
<1>2. Lock(kind2, s2).kind = kind2 /\ Lock(kind2, s2).s = s2
  BY DEF Lock
<1> QED BY <1>1, <1>2

(* What a function holds is one of these, of its script.                     *)
LEMMA HoldsLock ==
  ASSUME NEW f, NEW t, NEW m \in Owned(t)
  PROVE  /\ Holds(f, m) =>
              \/ /\ m = Lock("build", f.s)
                 /\ f.at \in {"test", "progress", "deps", "leave", "unresolved", "terminating"}
              \/ m = Lock("call", None) /\ f.at \in {"launched", "unlock"}
              \/ m = Lock("comp", f.s) /\ f.at \in {"launched", "unlock"}
              \/ m = Lock("done", f.s) /\ f.at = "tell"
<1>1. \/ \E s : m = Lock("build", s)
      \/ m = Lock("call", None)
      \/ \E s : m = Lock("comp", s)
      \/ \E s : m = Lock("done", s)
  BY OwnedIs
<1>2. \A kind, s : Lock(kind, s).kind = kind /\ Lock(kind, s).s = s
  BY LockFields
<1> QED BY <1>1, <1>2 DEF Holds

(* ... and it holds what belongs to the place it is at.                      *)
LEMMA HoldsThese ==
  ASSUME NEW f
  PROVE  /\ f.at \in {"test", "progress", "deps", "leave", "unresolved", "terminating"} =>
              Holds(f, Lock("build", f.s))
         /\ f.at \in {"launched", "unlock"} =>
              Holds(f, Lock("call", None)) /\ Holds(f, Lock("comp", f.s))
         /\ f.at = "tell" => Holds(f, Lock("done", f.s))
<1>1. \A kind, s : Lock(kind, s).kind = kind /\ Lock(kind, s).s = s
  BY LockFields
<1> QED BY <1>1 DEF Holds

LEMMA OwnedSame ==
  ASSUME mutexes' = mutexes, NEW t
  PROVE  Owned(t)' = Owned(t)
BY DEF mutexes, Owned

NoneElse(t) == \A u \in Thread \ {t} : Owned(u)' \subseteq Owned(u)

LEMMA BuildTaken ==
  ASSUME Types, NEW t \in Thread, NEW s \in Script,
         buildMutex' = [buildMutex EXCEPT ![s] = t],
         doneMutex' = doneMutex, compMutex' = compMutex, callMutex' = callMutex
  PROVE  NoneElse(t) /\ Owned(t)' \subseteq Owned(t) \cup {Lock("build", s)}
<1>1. \A x \in Script : buildMutex'[x] = IF x = s THEN t ELSE buildMutex[x]
  BY DEF Types, MutexesOK
<1>2. \A u \in Thread : \A m \in Owned(u)' : m \in Owned(u) \/ (u = t /\ m = Lock("build", s))
  BY <1>1, OwnedIs
<1> QED BY <1>2 DEF NoneElse

LEMMA BuildFreed ==
  ASSUME BuildAssumption, Types, NEW t \in Thread, NEW s \in Script,
         buildMutex' = [buildMutex EXCEPT ![s] = None],
         doneMutex' = doneMutex, compMutex' = compMutex, callMutex' = callMutex
  PROVE  NoneElse(t) /\ Owned(t)' \subseteq Owned(t) \ {Lock("build", s)}
<1>1. \A x \in Script : buildMutex'[x] = IF x = s THEN None ELSE buildMutex[x]
  BY DEF Types, MutexesOK
<1>2. None \notin Thread
  BY DEF BuildAssumption
<1>3. \A u \in Thread : \A m \in Owned(u)' : m \in Owned(u) /\ m # Lock("build", s)
  BY <1>1, <1>2, OwnedIs, LockFields
<1> QED BY <1>3 DEF NoneElse

LEMMA DoneTaken ==
  ASSUME Types, NEW t \in Thread, NEW s \in Script,
         doneMutex' = [doneMutex EXCEPT ![s] = t],
         buildMutex' = buildMutex, compMutex' = compMutex, callMutex' = callMutex
  PROVE  NoneElse(t) /\ Owned(t)' \subseteq Owned(t) \cup {Lock("done", s)}
<1>1. \A x \in Script : doneMutex'[x] = IF x = s THEN t ELSE doneMutex[x]
  BY DEF Types, MutexesOK
<1>2. \A u \in Thread : \A m \in Owned(u)' : m \in Owned(u) \/ (u = t /\ m = Lock("done", s))
  BY <1>1, OwnedIs
<1> QED BY <1>2 DEF NoneElse

LEMMA DoneFreed ==
  ASSUME BuildAssumption, Types, NEW t \in Thread, NEW s \in Script,
         doneMutex' = [doneMutex EXCEPT ![s] = None],
         buildMutex' = buildMutex, compMutex' = compMutex, callMutex' = callMutex
  PROVE  NoneElse(t) /\ Owned(t)' \subseteq Owned(t) \ {Lock("done", s)}
<1>1. \A x \in Script : doneMutex'[x] = IF x = s THEN None ELSE doneMutex[x]
  BY DEF Types, MutexesOK
<1>2. None \notin Thread
  BY DEF BuildAssumption
<1>3. \A u \in Thread : \A m \in Owned(u)' : m \in Owned(u) /\ m # Lock("done", s)
  BY <1>1, <1>2, OwnedIs, LockFields
<1> QED BY <1>3 DEF NoneElse

LEMMA CompTaken ==
  ASSUME Types, NEW t \in Thread, NEW s \in Script,
         compMutex' = [compMutex EXCEPT ![s] = t],
         buildMutex' = buildMutex, doneMutex' = doneMutex, callMutex' = callMutex
  PROVE  NoneElse(t) /\ Owned(t)' \subseteq Owned(t) \cup {Lock("comp", s)}
<1>1. \A x \in Script : compMutex'[x] = IF x = s THEN t ELSE compMutex[x]
  BY DEF Types, MutexesOK
<1>2. \A u \in Thread : \A m \in Owned(u)' : m \in Owned(u) \/ (u = t /\ m = Lock("comp", s))
  BY <1>1, OwnedIs
<1> QED BY <1>2 DEF NoneElse

(* LaunchCompiler takes two mutexes at once, and gives them back.            *)
LEMMA LaunchTaken ==
  ASSUME Types, NEW t \in Thread, NEW s \in Script,
         compMutex' = [compMutex EXCEPT ![s] = t], callMutex' = t,
         buildMutex' = buildMutex, doneMutex' = doneMutex, callMutex = None
  PROVE  /\ NoneElse(t)
         /\ Owned(t)' \subseteq Owned(t) \cup {Lock("comp", s), Lock("call", None)}
<1>1. \A x \in Script : compMutex'[x] = IF x = s THEN t ELSE compMutex[x]
  BY DEF Types, MutexesOK
<1>2. \A u \in Thread : \A m \in Owned(u)' :
        m \in Owned(u) \/ (u = t /\ m \in {Lock("comp", s), Lock("call", None)})
  BY <1>1, OwnedIs
<1> QED BY <1>2 DEF NoneElse

LEMMA LaunchFreed ==
  ASSUME BuildAssumption, Types, NEW t \in Thread, NEW s \in Script,
         compMutex' = [compMutex EXCEPT ![s] = None],
         callMutex' = None \/ (callMutex' = callMutex /\ callMutex # t),
         buildMutex' = buildMutex, doneMutex' = doneMutex
  PROVE  /\ NoneElse(t)
         /\ Owned(t)' \subseteq Owned(t) \ {Lock("comp", s), Lock("call", None)}
<1>1. \A x \in Script : compMutex'[x] = IF x = s THEN None ELSE compMutex[x]
  BY DEF Types, MutexesOK
<1>2. None \notin Thread
  BY DEF BuildAssumption
<1>3. \A u \in Thread : \A m \in Owned(u)' : m \in Owned(u) /\ m # Lock("comp", s)
  BY <1>1, <1>2, OwnedIs, LockFields
<1>4. \A m \in Owned(t)' : m # Lock("call", None)
  BY <1>2, OwnedIs, LockFields
<1> QED BY <1>3, <1>4 DEF NoneElse
-----------------------------------------------------------------------------
(* One thread moves: the others' stacks are as they were, and they have no   *)
(* new mutex.                                                                *)
LEMMA ShapeStep ==
  ASSUME Types, NEW rank, Shape(rank), NEW t \in Thread, NEW st, Good(rank, st),
         stack' = [stack EXCEPT ![t] = st], NoneElse(t),
         \A m \in Owned(t)' : HeldIn(st, m)
  PROVE  Shape(rank)'
<1>1. \A u \in Thread : stack'[u] = IF u = t THEN st ELSE stack[u]
  BY DEF Types, Stacks
<1>2. SUFFICES ASSUME NEW u \in Thread PROVE Good(rank, stack'[u]) /\ Backed(u)'
  BY DEF Shape
<1>3. CASE u = t
  BY <1>1, <1>3 DEF Backed
<1>4. CASE u # t
  BY <1>1, <1>4 DEF Shape, Backed, NoneElse
<1> QED BY <1>3, <1>4

(* It returns, having given back what the function held.                     *)
LEMMA ReturnShape ==
  ASSUME Types, NEW rank, Shape(rank), NEW t \in Thread, NEW where, At(t, where), Return(t),
         NoneElse(t), \A m \in Owned(t)' : m \in Owned(t) /\ ~Holds(Top(t), m)
  PROVE  Shape(rank)'
<1>1. /\ stack[t] \in Seq(Frame) /\ stack[t] # <<>> /\ Good(rank, stack[t]) /\ Backed(t)
  BY TopIsFrame DEF Shape, Types
<1>2. Good(rank, Tail(stack[t]))
  BY <1>1, GoodTail
<1>3. \A m \in Owned(t)' : HeldIn(Tail(stack[t]), m)
  BY <1>1, HeldByTail DEF Backed, Top
<1> QED BY <1>2, <1>3, ShapeStep DEF Return

(* It goes on in a function that holds what the one before held.             *)
LEMMA BecomeShape ==
  ASSUME Types, BuildAssumption, NEW rank \in Ranking, Shape(rank),
         NEW t \in Thread, NEW where, At(t, where), NEW f \in Frame, Become(t, f),
         FrameUses(f), Depth(rank, Top(t)) <= Depth(rank, f), NoneElse(t),
         \A m \in Owned(t)' : Holds(f, m) \/ (m \in Owned(t) /\ ~Holds(Top(t), m))
  PROVE  Shape(rank)'
<1>1. /\ stack[t] \in Seq(Frame) /\ stack[t] # <<>> /\ Good(rank, stack[t]) /\ Backed(t)
      /\ Tail(stack[t]) \in Seq(Frame)
  BY TopIsFrame DEF Shape, Types
<1>2. Good(rank, <<f>> \o Tail(stack[t]))
  BY <1>1, GoodBecome DEF Top
<1>3. \A m \in Owned(t)' : HeldIn(<<f>> \o Tail(stack[t]), m)
  <2>1. \A m \in Owned(t)' : Holds(f, m) \/ HeldIn(Tail(stack[t]), m)
    BY <1>1, HeldByTail DEF Backed, Top
  <2> QED BY <2>1, <1>1, HeldByPush
<1> QED BY <1>2, <1>3, ShapeStep DEF Become

(* It calls f, to come back to g.                                            *)
LEMMA CallShape ==
  ASSUME Types, BuildAssumption, NEW rank \in Ranking, Shape(rank),
         NEW t \in Thread, NEW where, At(t, where), NEW f \in Frame, NEW g \in Frame,
         stack' = [stack EXCEPT ![t] = <<f, g>> \o Tail(stack[t])],
         FrameUses(f), FrameUses(g),
         Depth(rank, Top(t)) <= Depth(rank, g), Depth(rank, g) < Depth(rank, f), NoneElse(t),
         \A m \in Owned(t)' : Holds(g, m) \/ (m \in Owned(t) /\ ~Holds(Top(t), m))
  PROVE  Shape(rank)'
<1>1. /\ stack[t] \in Seq(Frame) /\ stack[t] # <<>> /\ Good(rank, stack[t]) /\ Backed(t)
      /\ Tail(stack[t]) \in Seq(Frame) /\ <<g>> \o Tail(stack[t]) \in Seq(Frame)
  BY TopIsFrame, PutOn DEF Shape, Types
<1>2. Good(rank, <<f, g>> \o Tail(stack[t]))
  BY <1>1, GoodEnter DEF Top
<1>3. \A m \in Owned(t)' : HeldIn(<<f, g>> \o Tail(stack[t]), m)
  <2>1. \A m \in Owned(t)' : Holds(g, m) \/ HeldIn(Tail(stack[t]), m)
    BY <1>1, HeldByTail DEF Backed, Top
  <2> QED BY <2>1, <1>1, HeldByTwo
<1> QED BY <1>2, <1>3, ShapeStep
-----------------------------------------------------------------------------
(* What the innermost function becomes when a thread goes on in it.          *)
LEMMA TopIsBecome ==
  ASSUME Stacks, NEW t \in Thread, NEW where, At(t, where), NEW f \in Frame,
         stack' = [stack EXCEPT ![t] = [stack[t] EXCEPT ![1] = f]]
  PROVE  Become(t, f)
<1>1. stack[t] \in Seq(Frame) /\ stack[t] # <<>>
  BY TopIsFrame
<1>2. [stack[t] EXCEPT ![1] = f] = <<f>> \o Tail(stack[t])
  BY <1>1, TopReplaced
<1> QED BY <1>2 DEF Become

LEMMA GoToIsBecome ==
  ASSUME Stacks, NEW t \in Thread, NEW here, At(t, here), NEW where,
         [Top(t) EXCEPT !.at = where] \in Frame, GoTo(t, where)
  PROVE  Become(t, [Top(t) EXCEPT !.at = where])
<1>1. stack[t] \in Seq(Frame) /\ stack[t] # <<>>
  BY TopIsFrame
<1>2. stack' = [stack EXCEPT ![t] = [stack[t] EXCEPT ![1] = [Top(t) EXCEPT !.at = where]]]
  BY <1>1 DEF GoTo, Top, Stacks
<1> QED BY <1>2, TopIsBecome

LEMMA HoldsNothing ==
  ASSUME NEW f, f.at \notin {"test", "progress", "deps", "leave", "unresolved", "terminating",
                             "launched", "unlock", "tell"}
  PROVE  \A m : ~Holds(f, m)
BY DEF Holds

(* The functions the actions call, and those they go on in.                  *)
LEMMA NewUses ==
  ASSUME BuildAssumption
  PROVE
  /\ FrameUses(WorkThread) /\ \A cs : FrameUses(Work(cs))
  /\ \A d \in Script, w \in Worker : FrameUses(BuildImpl(d, w))
  /\ \A s \in Script : \A d \in Uses[s] : FrameUses(BuildImpl(d, s))
  /\ \A s : FrameUses(BuildSelf(s)) /\ FrameUses(Terminate(s))
  /\ \A s : FrameUses([at |-> "unlock", s |-> s])
  /\ \A s, ok, pid : FrameUses(SetBuildCompleted(s, ok, pid))
  /\ \A s, d, ok, pid : FrameUses(SetInitiatedBuildIsCompleted(s, d, ok, pid))
  /\ \A left, where \in {"cancel", "reset", "join"} :
        FrameUses([at |-> where, left |-> left])
<1>1. Script \cap Worker = {}
  BY DEF BuildAssumption
<1>2. /\ \A d \in Script, w \in Worker : FrameUses(BuildImpl(d, w))
      /\ \A s \in Script : \A d \in Uses[s] : FrameUses(BuildImpl(d, s))
  BY <1>1 DEF FrameUses, BuildImpl
<1>3. /\ FrameUses(WorkThread) /\ \A cs : FrameUses(Work(cs))
      /\ \A s : FrameUses(BuildSelf(s)) /\ FrameUses(Terminate(s))
      /\ \A s : FrameUses([at |-> "unlock", s |-> s])
  BY DEF FrameUses, WorkThread, Work, BuildSelf, Terminate
<1>4. /\ \A s, ok, pid : FrameUses(SetBuildCompleted(s, ok, pid))
      /\ \A s, d, ok, pid : FrameUses(SetInitiatedBuildIsCompleted(s, d, ok, pid))
      /\ \A left, where \in {"cancel", "reset", "join"} :
            FrameUses([at |-> where, left |-> left])
  BY DEF FrameUses, SetBuildCompleted, SetInitiatedBuildIsCompleted
<1> QED BY <1>2, <1>3, <1>4

LEMMA NewDepths ==
  ASSUME NEW rank
  PROVE
  /\ Depth(rank, WorkThread) = 0 /\ \A cs : Depth(rank, Work(cs)) = 0
  /\ \A s, r : Depth(rank, BuildImpl(s, r)) = Cardinality(Script) + 1 - rank[s]
  /\ \A s : Depth(rank, Terminate(s)) = Cardinality(Script) + 1 - rank[s]
  /\ \A s : Depth(rank, BuildSelf(s)) = Cardinality(Script) + 1
  /\ \A s : Depth(rank, [at |-> "unlock", s |-> s]) = Cardinality(Script) + 1
  /\ \A s, ok, pid :
        Depth(rank, SetBuildCompleted(s, ok, pid)) = Cardinality(Script) + 2 + rank[s]
  /\ \A s, d, ok, pid : Depth(rank, SetInitiatedBuildIsCompleted(s, d, ok, pid))
                          = Cardinality(Script) + 2 + rank[s]
  /\ \A left, where \in {"cancel", "reset", "join"} :
        Depth(rank, [at |-> where, left |-> left]) = 0
<1>1. /\ Depth(rank, WorkThread) = 0 /\ \A cs : Depth(rank, Work(cs)) = 0
      /\ \A left, where \in {"cancel", "reset", "join"} :
            Depth(rank, [at |-> where, left |-> left]) = 0
  BY DepthByKind DEF WorkThread, Work
<1>2. /\ \A s, r : Depth(rank, BuildImpl(s, r)) = Cardinality(Script) + 1 - rank[s]
      /\ \A s : Depth(rank, Terminate(s)) = Cardinality(Script) + 1 - rank[s]
  BY DepthByKind DEF BuildImpl, Terminate
<1>3. /\ \A s : Depth(rank, BuildSelf(s)) = Cardinality(Script) + 1
      /\ \A s : Depth(rank, [at |-> "unlock", s |-> s]) = Cardinality(Script) + 1
  BY DepthByKind DEF BuildSelf
<1>4. /\ \A s, ok, pid :
            Depth(rank, SetBuildCompleted(s, ok, pid)) = Cardinality(Script) + 2 + rank[s]
      /\ \A s, d, ok, pid : Depth(rank, SetInitiatedBuildIsCompleted(s, d, ok, pid))
                              = Cardinality(Script) + 2 + rank[s]
  BY DepthByKind DEF SetBuildCompleted, SetInitiatedBuildIsCompleted
<1> QED BY <1>1, <1>2, <1>3, <1>4

LEMMA BuildGoesOn ==
  ASSUME NEW rank, NEW f \in BuildFrame, FrameUses(f),
         NEW where \in {"test", "progress", "deps", "leave", "unresolved"},
         NEW g, g = [f EXCEPT !.at = where]
  PROVE  /\ g \in BuildFrame /\ g \in Frame /\ FrameUses(g)
         /\ g.at = where /\ g.s = f.s /\ Depth(rank, g) = Depth(rank, f)
<1>1. g \in BuildFrame /\ g.at = where /\ g.s = f.s /\ g.for = f.for /\ g.todo = f.todo
  BY DEF BuildFrame
<1>2. f.at \in {"enter", "test", "progress", "deps", "leave", "unresolved"}
  BY DEF BuildFrame
<1>3. Depth(rank, g) = Depth(rank, f)
  BY <1>1, <1>2, DepthByKind
<1>4. FrameUses(g)
  BY <1>1, <1>2 DEF FrameUses
<1> QED BY <1>1, <1>3, <1>4 DEF Frame

LEMMA CompileGoesOn ==
  ASSUME NEW rank, NEW f \in CompileFrame, NEW where \in {"launch", "launched", "unlock"},
         NEW g, g = [f EXCEPT !.at = where]
  PROVE  /\ g \in Frame /\ FrameUses(g)
         /\ g.at = where /\ g.s = f.s /\ Depth(rank, g) = Depth(rank, f)
<1>1. g \in CompileFrame /\ g.at = where /\ g.s = f.s
  BY DEF CompileFrame
<1>2. f.at \in {"check", "launch", "launched", "unlock"}
  BY DEF CompileFrame
<1>3. Depth(rank, g) = Depth(rank, f)
  BY <1>1, <1>2, DepthByKind
<1>4. FrameUses(g)
  BY <1>1 DEF FrameUses
<1> QED BY <1>1, <1>3, <1>4 DEF Frame

LEMMA TopAt ==
  ASSUME NEW t, NEW where, At(t, where)
  PROVE  Top(t).at = where /\ stack[t] # <<>>
BY DEF At, Top

LEMMA OwnedStill ==
  ASSUME mutexes' = mutexes, NEW t
  PROVE  NoneElse(t) /\ Owned(t)' = Owned(t)
BY OwnedSame DEF NoneElse

(* The innermost function of a thread is used as it should be.               *)
LEMMA TopUses ==
  ASSUME Types, NEW rank, Shape(rank), NEW t \in Thread, NEW where, At(t, where)
  PROVE  FrameUses(Top(t)) /\ Top(t).at = where /\ Good(rank, stack[t]) /\ Backed(t)
<1>1. Good(rank, stack[t]) /\ stack[t] # <<>>
  BY DEF Shape, At
<1> QED BY <1>1, UnderTop DEF Top, At, Shape
-----------------------------------------------------------------------------
(* Each action keeps the stacks in order: workers and BuildImpl.             *)
LEMMA WorkStartsShape ==
  ASSUME Types, BuildAssumption, NEW rank \in Ranking, Shape(rank),
         NEW w \in Worker, WorkStarts(w)
  PROVE  Shape(rank)'
<1>1. /\ w \in Thread /\ At(w, "start") /\ Become(w, Work(Children[w]))
      /\ mutexes' = mutexes /\ Children[w] \in Seq(Script)
  BY DEF WorkStarts, Thread, BuildAssumption
<1>2. /\ Work(Children[w]) \in Frame /\ FrameUses(Work(Children[w]))
      /\ Depth(rank, Top(w)) = 0 /\ Depth(rank, Work(Children[w])) = 0
  <2>1. Top(w).at = "start"
    BY <1>1, TopAt
  <2>2. Depth(rank, Top(w)) = 0
    BY <2>1, DepthByKind
  <2> QED BY <1>1, <2>2, NewFrames, NewUses, NewDepths
<1>3. NoneElse(w) /\ \A m \in Owned(w)' : m \in Owned(w) /\ ~Holds(Top(w), m)
  <2>1. NoneElse(w) /\ Owned(w)' = Owned(w)
    BY <1>1, OwnedStill
  <2>2. Top(w).at \in {"start", "work"}
    BY <1>1, TopAt
  <2>3. \A m : ~Holds(Top(w), m)
    BY <2>2, HoldsNothing
  <2> QED BY <2>1, <2>3
<1> QED BY <1>1, <1>2, <1>3, BecomeShape

LEMMA AskNextShape ==
  ASSUME Types, BuildAssumption, NEW rank \in Ranking, Shape(rank),
         NEW w \in Worker, AskNext(w)
  PROVE  Shape(rank)'
<1>1. /\ w \in Thread /\ At(w, "work") /\ mutexes' = mutexes
      /\ Top(w).children \in Seq(Script)
  BY WorkFields DEF AskNext, Thread
<1>2. NoneElse(w) /\ \A m \in Owned(w)' : m \in Owned(w) /\ ~Holds(Top(w), m)
  <2>1. NoneElse(w) /\ Owned(w)' = Owned(w)
    BY <1>1, OwnedStill
  <2>2. Top(w).at \in {"start", "work"}
    BY <1>1, TopAt
  <2>3. \A m : ~Holds(Top(w), m)
    BY <2>2, HoldsNothing
  <2> QED BY <2>1, <2>3
<1>3. CASE Return(w)
  BY <1>1, <1>2, <1>3, ReturnShape
<1>4. ASSUME Top(w).children # <<>>,
             stack' = [stack EXCEPT ![w] = <<BuildImpl(Head(Top(w).children), w),
                                             Work(Tail(Top(w).children))>>]
      PROVE  Shape(rank)'
  <2> DEFINE c == Head(Top(w).children)
             f == BuildImpl(c, w)
             g == Work(Tail(Top(w).children))
  <2>1. c \in Script /\ Tail(Top(w).children) \in Seq(Script)
    BY <1>1, <1>4
  <2>2. /\ f \in Frame /\ FrameUses(f) /\ g \in Frame /\ FrameUses(g)
        /\ Depth(rank, g) = 0 /\ Depth(rank, Top(w)) = 0
        /\ Depth(rank, f) = Cardinality(Script) + 1 - rank[c]
    <3>1. Top(w).at = "work"
      BY <1>1, TopAt
    <3>2. Depth(rank, Top(w)) = 0
      BY <3>1, DepthByKind
    <3>3. f \in Frame /\ g \in Frame
      BY <2>1, NewFrames DEF Requester
    <3>4. FrameUses(f) /\ FrameUses(g)
      BY <2>1, NewUses
    <3>5. Depth(rank, g) = 0 /\ Depth(rank, f) = Cardinality(Script) + 1 - rank[c]
      BY NewDepths
    <3> QED BY <3>2, <3>3, <3>4, <3>5
  <2>3. Depth(rank, Top(w)) <= Depth(rank, g) /\ Depth(rank, g) < Depth(rank, f)
    <3>1. Cardinality(Script) \in Nat /\ rank[c] \in Nat /\ rank[c] <= Cardinality(Script)
      BY <2>1, RankFacts
    <3> HIDE DEF f, g, c
    <3> QED BY <2>2, <3>1
  <2>4. Tail(stack[w]) = <<>>
    BY <1>1, <2>2, TopUses, BaseAlone DEF Top, At
  <2>5. f \in Frame /\ g \in Frame /\ <<f, g>> \o <<>> = <<f, g>>
    BY <2>2
  <2> HIDE DEF f, g, c
  <2>6. stack' = [stack EXCEPT ![w] = <<f, g>> \o Tail(stack[w])]
    BY <1>4, <2>4, <2>5 DEF f, g, c
  <2> QED BY <1>1, <1>2, <2>2, <2>3, <2>6, CallShape
<1> QED BY <1>3, <1>4 DEF AskNext

LEMMA LockBuildShape ==
  ASSUME Types, BuildAssumption, NEW rank \in Ranking, Shape(rank),
         NEW t \in Thread, LockBuild(t)
  PROVE  Shape(rank)'
<1> DEFINE f == [Top(t) EXCEPT !.at = "test"]
<1>1. /\ At(t, "enter") /\ GoTo(t, "test") /\ Top(t).s \in Script /\ Top(t) \in BuildFrame
      /\ buildMutex' = [buildMutex EXCEPT ![Top(t).s] = t]
  BY BuildFields DEF LockBuild
<1>2. /\ f \in Frame /\ FrameUses(f) /\ f.at = "test" /\ f.s = Top(t).s
      /\ Depth(rank, f) = Depth(rank, Top(t)) /\ Top(t).at = "enter" /\ Top(t) \in Frame
  <2>1. FrameUses(Top(t)) /\ Top(t) \in Frame
    BY <1>1, TopUses, TopIsFrame DEF Types
  <2>2. Top(t).at = "enter"
    BY <1>1, TopAt
  <2> QED BY <1>1, <2>1, <2>2, BuildGoesOn
<1>3. Become(t, f)
  BY <1>1, <1>2, GoToIsBecome DEF Types
<1>4. NoneElse(t) /\ Owned(t)' \subseteq Owned(t) \cup {Lock("build", Top(t).s)}
  BY <1>1, BuildTaken DEF LockBuild
<1> HIDE DEF f
<1>5. \A m \in Owned(t)' : Holds(f, m) \/ (m \in Owned(t) /\ ~Holds(Top(t), m))
  BY <1>2, <1>4, HoldsThese, HoldsNothing
<1>6. Depth(rank, Top(t)) <= Depth(rank, f)
  BY <1>2, DepthIsNat
<1> QED BY <1>1, <1>2, <1>3, <1>4, <1>5, <1>6, BecomeShape

(* A call out of BuildImpl of a script, which goes on holding its mutex.     *)
LEMMA LeavingShape ==
  ASSUME Types, BuildAssumption, NEW rank \in Ranking, Shape(rank), mutexes' = mutexes,
         NEW t \in Thread, NEW here \in {"test", "progress"}, At(t, here),
         NEW where \in {"leave", "unresolved"},
         NEW f \in Frame, Enter(t, f, where), FrameUses(f),
         Depth(rank, f) > Cardinality(Script)
  PROVE  Shape(rank)'
<1> DEFINE g == [Top(t) EXCEPT !.at = where]
<1>1. Top(t).s \in Script /\ Top(t) \in BuildFrame
  BY BuildFields
<1>2. /\ g \in Frame /\ FrameUses(g) /\ g.at = where /\ g.s = Top(t).s
      /\ Depth(rank, g) = Depth(rank, Top(t)) /\ Top(t).at = here /\ Top(t) \in Frame
  <2>1. FrameUses(Top(t)) /\ Top(t) \in Frame
    BY <1>1, TopUses, TopIsFrame DEF Types
  <2>2. Top(t).at = here
    BY <1>1, TopAt
  <2>3. where \in {"test", "progress", "deps", "leave", "unresolved"}
    OBVIOUS
  <2> QED BY ONLY <1>1, <2>1, <2>2, <2>3, BuildGoesOn
<1>3. stack' = [stack EXCEPT ![t] = <<f, g>> \o Tail(stack[t])]
  BY DEF Enter, Top
<1>4. NoneElse(t) /\ Owned(t)' = Owned(t)
  BY OwnedStill
<1> HIDE DEF g
<1>5. \A m \in Owned(t)' : Holds(g, m) \/ (m \in Owned(t) /\ ~Holds(Top(t), m))
  BY <1>2, <1>4, HoldsThese, HoldsLock
<1>6. Depth(rank, Top(t)) <= Depth(rank, g) /\ Depth(rank, g) < Depth(rank, f)
  <2>1. Depth(rank, Top(t)) = Cardinality(Script) + 1 - rank[Top(t).s]
    BY <1>2, DepthByKind
  <2>2. Depth(rank, f) \in Nat
    BY DepthIsNat
  <2> QED BY <1>1, <1>2, <2>1, <2>2, RankFacts
<1> QED BY <1>2, <1>3, <1>4, <1>5, <1>6, CallShape

(* It goes on in BuildImpl, holding the mutex.                               *)
LEMMA GoingOnShape ==
  ASSUME Types, BuildAssumption, NEW rank \in Ranking, Shape(rank), mutexes' = mutexes,
         NEW t \in Thread, NEW here \in {"test", "progress"}, At(t, here),
         NEW where \in {"progress", "leave"}, GoTo(t, where)
  PROVE  Shape(rank)'
<1> DEFINE f == [Top(t) EXCEPT !.at = where]
<1>1. Top(t).s \in Script /\ Top(t) \in BuildFrame
  BY BuildFields
<1>2. /\ f \in Frame /\ FrameUses(f) /\ f.at = where /\ f.s = Top(t).s
      /\ Depth(rank, f) = Depth(rank, Top(t)) /\ Top(t).at = here /\ Top(t) \in Frame
  <2>1. FrameUses(Top(t)) /\ Top(t) \in Frame
    BY <1>1, TopUses, TopIsFrame DEF Types
  <2>2. Top(t).at = here
    BY <1>1, TopAt
  <2>3. where \in {"test", "progress", "deps", "leave", "unresolved"}
    OBVIOUS
  <2> QED BY ONLY <1>1, <2>1, <2>2, <2>3, BuildGoesOn
<1>3. Become(t, f)
  BY <1>1, <1>2, GoToIsBecome DEF Types
<1>4. NoneElse(t) /\ Owned(t)' = Owned(t)
  BY OwnedStill
<1> HIDE DEF f
<1>5. \A m \in Owned(t)' : Holds(f, m) \/ (m \in Owned(t) /\ ~Holds(Top(t), m))
  BY <1>2, <1>4, HoldsThese, HoldsLock
<1>6. Depth(rank, Top(t)) <= Depth(rank, f)
  BY <1>2, DepthIsNat
<1> QED BY <1>1, <1>2, <1>3, <1>4, <1>5, <1>6, BecomeShape

LEMMA CompletingDeeper ==
  ASSUME BuildAssumption, NEW rank \in Ranking, NEW s \in Script, NEW ok \in BOOLEAN,
         NEW pid \in Script \cup {None}, NEW f, f = SetBuildCompleted(s, ok, pid)
  PROVE  /\ f \in Frame /\ FrameUses(f)
         /\ Depth(rank, f) = Cardinality(Script) + 2 + rank[s]
         /\ Depth(rank, f) > Cardinality(Script) + 1 /\ Depth(rank, f) > Cardinality(Script)
<1>1. f \in Frame /\ FrameUses(f) /\ Depth(rank, f) = Cardinality(Script) + 2 + rank[s]
  BY NewFrames, NewUses, NewDepths
<1>2. Cardinality(Script) \in Nat /\ rank[s] \in Nat
  BY RankFacts
<1> QED BY <1>1, <1>2

LEMMA SelfDeeper ==
  ASSUME BuildAssumption, NEW rank \in Ranking, NEW s \in Script, NEW f, f = BuildSelf(s)
  PROVE  f \in Frame /\ FrameUses(f) /\ Depth(rank, f) = Cardinality(Script) + 1
         /\ Depth(rank, f) > Cardinality(Script) /\ f.at = "check"
<1>1. f \in Frame /\ FrameUses(f) /\ Depth(rank, f) = Cardinality(Script) + 1
  BY NewFrames, NewUses, NewDepths
<1>2. Cardinality(Script) \in Nat /\ f.at = "check"
  BY RankFacts DEF BuildSelf
<1> QED BY <1>1, <1>2

LEMMA TestUpToDateShape ==
  ASSUME Types, BuildAssumption, NEW rank \in Ranking, Shape(rank),
         NEW t \in Thread, TestUpToDate(t)
  PROVE  Shape(rank)'
<1>1. At(t, "test") /\ mutexes' = mutexes
  BY DEF TestUpToDate
<1>2. Top(t).s \in Script
  BY <1>1, BuildFields
<1> DEFINE f == SetBuildCompleted(Top(t).s, TRUE, None)
<1>3. f \in Frame /\ FrameUses(f) /\ Depth(rank, f) > Cardinality(Script)
  BY <1>2, CompletingDeeper
<1>4. Enter(t, f, "leave") \/ GoTo(t, "progress")
  BY DEF TestUpToDate
<1> HIDE DEF f
<1> QED BY <1>1, <1>3, <1>4, LeavingShape, GoingOnShape

LEMMA AddBuildPseudoInitiatorShape ==
  ASSUME Types, BuildAssumption, NEW rank \in Ranking, Shape(rank),
         NEW t \in Thread, AddBuildPseudoInitiator(t)
  PROVE  Shape(rank)'
BY GoingOnShape DEF AddBuildPseudoInitiator

LEMMA StartBuildShape ==
  ASSUME Types, BuildAssumption, NEW rank \in Ranking, Shape(rank),
         NEW t \in Thread, StartBuild(t)
  PROVE  Shape(rank)'
<1> DEFINE s == Top(t).s
<1>1. At(t, "progress") /\ mutexes' = mutexes
  BY DEF StartBuild
<1>2. s \in Script /\ Top(t) \in BuildFrame /\ Uses[s] \in SUBSET Script
  BY <1>1, BuildFields DEF BuildAssumption
<1>3. CASE Enter(t, SetBuildCompleted(s, FALSE, None), "unresolved")
  <2> DEFINE f == SetBuildCompleted(s, FALSE, None)
  <2>1. f \in Frame /\ FrameUses(f) /\ Depth(rank, f) > Cardinality(Script)
    BY <1>2, CompletingDeeper
  <2> HIDE DEF s
  <2> QED BY <1>1, <1>3, <2>1, LeavingShape
<1>4. CASE Enter(t, BuildSelf(s), "leave")
  <2> DEFINE f == BuildSelf(s)
  <2>1. f \in Frame /\ FrameUses(f) /\ Depth(rank, f) > Cardinality(Script)
    BY <1>2, SelfDeeper
  <2> HIDE DEF s
  <2> QED BY <1>1, <1>4, <2>1, LeavingShape
<1>5. CASE stack' = [stack EXCEPT ![t][1] = [@ EXCEPT !.at = "deps", !.todo = Uses[s]]]
  <2> DEFINE f == [Top(t) EXCEPT !.at = "deps", !.todo = Uses[s]]
  <2>1. /\ f \in BuildFrame /\ f.at = "deps" /\ f.s = s /\ f.for = Top(t).for
        /\ f.todo = Uses[s]
    BY <1>2 DEF BuildFrame
  <2>2. FrameUses(Top(t)) /\ Top(t).at = "progress" /\ Top(t) \in Frame /\ f \in Frame
    BY <1>1, <2>1, TopUses, TopIsFrame DEF Types, Frame
  <2>3. stack[t] \in Seq(Frame) /\ stack[t] # <<>>
    BY <1>1, TopIsFrame DEF Types
  <2>4. stack' = [stack EXCEPT ![t] = [stack[t] EXCEPT ![1] = f]]
    BY <1>5, <2>3 DEF Top, Types, Stacks
  <2> HIDE DEF f, s
  <2>5. Become(t, f)
    BY <1>1, <2>2, <2>4, TopIsBecome DEF Types
  <2>6. Depth(rank, f) = Depth(rank, Top(t)) /\ FrameUses(f)
    BY <2>1, <2>2, DepthByKind DEF FrameUses, s
  <2>7. NoneElse(t) /\ Owned(t)' = Owned(t)
    BY <1>1, OwnedStill
  <2>8. \A m \in Owned(t)' : Holds(f, m) \/ (m \in Owned(t) /\ ~Holds(Top(t), m))
    BY <2>1, <2>2, <2>7, HoldsThese, HoldsLock DEF s
  <2>9. Depth(rank, Top(t)) <= Depth(rank, f)
    BY <2>2, <2>6, DepthIsNat
  <2> QED BY <1>1, <2>2, <2>5, <2>6, <2>7, <2>8, <2>9, BecomeShape
<1> QED BY <1>3, <1>4, <1>5 DEF StartBuild

LEMMA BuildDependencyShape ==
  ASSUME Types, BuildAssumption, NEW rank \in Ranking, Shape(rank),
         NEW t \in Thread, BuildDependency(t)
  PROVE  Shape(rank)'
<1> DEFINE s == Top(t).s
<1>1. /\ At(t, "deps") /\ mutexes' = mutexes
      /\ \E d \in Top(t).todo :
           stack' = [stack EXCEPT ![t] = <<BuildImpl(d, s),
                       [Top(t) EXCEPT !.todo = @ \ {d}]>> \o Tail(stack[t])]
  BY DEF BuildDependency, Types, Stacks
<1>2. s \in Script /\ Top(t) \in BuildFrame /\ Top(t).todo \subseteq Script
  BY <1>1, BuildFields
<1>3. FrameUses(Top(t)) /\ Top(t).at = "deps" /\ Top(t) \in Frame
  BY <1>1, TopUses, TopIsFrame DEF Types
<1>4. PICK d \in Top(t).todo :
           stack' = [stack EXCEPT ![t] = <<BuildImpl(d, s),
                       [Top(t) EXCEPT !.todo = @ \ {d}]>> \o Tail(stack[t])]
  BY <1>1
<1>5. d \in Script /\ d \in Uses[s] /\ rank[d] < rank[s]
  <2>1. d \in Uses[s]
    BY <1>3 DEF FrameUses
  <2> QED BY <1>2, <2>1, RankFacts
<1> DEFINE f == BuildImpl(d, s)
           g == [Top(t) EXCEPT !.todo = @ \ {d}]
<1>6. f \in Frame /\ FrameUses(f) /\ Depth(rank, f) = Cardinality(Script) + 1 - rank[d]
  BY <1>2, <1>5, NewFrames, NewUses, NewDepths DEF Requester
<1>7. /\ g \in BuildFrame /\ g.at = "deps" /\ g.s = s /\ g.for = Top(t).for
      /\ g.todo = Top(t).todo \ {d}
  BY <1>2, <1>3 DEF BuildFrame
<1>8. g \in Frame /\ stack' = [stack EXCEPT ![t] = <<f, g>> \o Tail(stack[t])]
  BY <1>4, <1>7 DEF Frame
<1> HIDE DEF f, g, s
<1>9. FrameUses(g)
  BY <1>3, <1>7 DEF FrameUses, s
<1>10. /\ Depth(rank, g) = Cardinality(Script) + 1 - rank[s]
       /\ Depth(rank, Top(t)) = Cardinality(Script) + 1 - rank[s]
  BY <1>3, <1>7, DepthByKind DEF s
<1>11. Depth(rank, Top(t)) <= Depth(rank, g) /\ Depth(rank, g) < Depth(rank, f)
  <2>1. Cardinality(Script) \in Nat /\ rank[s] \in Nat /\ rank[d] \in Nat
    BY <1>2, <1>5, RankFacts
  <2> QED BY <1>5, <1>6, <1>10, <2>1
<1>12. NoneElse(t) /\ Owned(t)' = Owned(t)
  BY <1>1, OwnedStill
<1>13. \A m \in Owned(t)' : Holds(g, m) \/ (m \in Owned(t) /\ ~Holds(Top(t), m))
  BY <1>3, <1>7, <1>12, HoldsThese, HoldsLock DEF s
<1> QED BY <1>1, <1>6, <1>8, <1>9, <1>11, <1>12, <1>13, CallShape

LEMMA LeaveBuildShape ==
  ASSUME Types, BuildAssumption, NEW rank \in Ranking, Shape(rank),
         NEW t \in Thread, LeaveBuild(t)
  PROVE  Shape(rank)'
<1>1. PICK where \in {"leave", "deps", "unresolved"} : At(t, where)
  BY DEF LeaveBuild
<1>2. Top(t).s \in Script /\ Return(t)
  BY <1>1, BuildFields DEF LeaveBuild
<1>3. NoneElse(t) /\ Owned(t)' \subseteq Owned(t) \ {Lock("build", Top(t).s)}
  BY <1>2, BuildFreed DEF LeaveBuild
<1>4. Top(t).at \in {"leave", "deps", "unresolved"}
  BY <1>1, TopAt
<1>5. \A m \in Owned(t)' : m \in Owned(t) /\ ~Holds(Top(t), m)
  BY <1>3, <1>4, HoldsLock
<1> QED BY <1>1, <1>2, <1>3, <1>5, ReturnShape
-----------------------------------------------------------------------------
(* BuildSelf and the compiler.                                               *)
LEMMA CheckByteCodeShape ==
  ASSUME Types, BuildAssumption, NEW rank \in Ranking, Shape(rank),
         NEW t \in Thread, CheckByteCode(t)
  PROVE  Shape(rank)'
<1>1. At(t, "check") /\ mutexes' = mutexes
  BY DEF CheckByteCode
<1>2. Top(t).s \in Script /\ Top(t) \in CompileFrame /\ Top(t).at = "check" /\ Top(t) \in Frame
  BY <1>1, CompileFields, TopAt, TopIsFrame DEF Types
<1>3. NoneElse(t) /\ Owned(t)' = Owned(t)
  BY <1>1, OwnedStill
<1>4. \A m : ~Holds(Top(t), m)
  BY <1>2, HoldsNothing
<1>5. Depth(rank, Top(t)) = Cardinality(Script) + 1 /\ Depth(rank, Top(t)) \in Nat
  BY <1>2, DepthByKind, DepthIsNat
<1>6. CASE Become(t, SetBuildCompleted(Top(t).s, TRUE, None))
  <2> DEFINE f == SetBuildCompleted(Top(t).s, TRUE, None)
  <2>1. f \in Frame /\ FrameUses(f) /\ Depth(rank, f) > Cardinality(Script) + 1
    BY <1>2, CompletingDeeper
  <2>2. Depth(rank, f) \in Nat
    BY <2>1, DepthIsNat
  <2> HIDE DEF f
  <2>3. Depth(rank, Top(t)) <= Depth(rank, f)
    BY <2>1, <2>2, <1>5
  <2> QED BY <1>1, <1>3, <1>4, <1>6, <2>1, <2>3, BecomeShape DEF f
<1>7. CASE GoTo(t, "launch")
  <2> DEFINE f == [Top(t) EXCEPT !.at = "launch"]
  <2>1. /\ f \in Frame /\ FrameUses(f) /\ f.at = "launch"
        /\ Depth(rank, f) = Depth(rank, Top(t))
    BY ONLY <1>2, CompileGoesOn
  <2>2. Become(t, f)
    BY <1>1, <1>7, <2>1, GoToIsBecome DEF Types
  <2> HIDE DEF f
  <2>3. Depth(rank, Top(t)) <= Depth(rank, f)
    BY <2>1, <1>5
  <2> QED BY <1>1, <1>3, <1>4, <2>1, <2>2, <2>3, BecomeShape
<1> QED BY <1>6, <1>7 DEF CheckByteCode

LEMMA LaunchCompilerShape ==
  ASSUME Types, BuildAssumption, NEW rank \in Ranking, Shape(rank),
         NEW t \in Thread, LaunchCompiler(t)
  PROVE  Shape(rank)'
<1>1. At(t, "launch")
  BY DEF LaunchCompiler
<1>2. Top(t).s \in Script /\ Top(t) \in CompileFrame /\ Top(t).at = "launch" /\ Top(t) \in Frame
  BY <1>1, CompileFields, TopAt, TopIsFrame DEF Types
<1>3. \A m : ~Holds(Top(t), m)
  BY <1>2, HoldsNothing
<1>4. CASE workId[Top(t).s] = None
  <2>1. mutexes' = mutexes /\ Return(t)
    BY <1>4 DEF LaunchCompiler, mutexes
  <2>2. NoneElse(t) /\ Owned(t)' = Owned(t)
    BY <2>1, OwnedStill
  <2> QED BY <1>1, <1>3, <2>1, <2>2, ReturnShape
<1>5. CASE workId[Top(t).s] # None
  <2> DEFINE f == [Top(t) EXCEPT !.at = "launched"]
  <2>1. /\ f \in Frame /\ FrameUses(f) /\ f.at = "launched" /\ f.s = Top(t).s
        /\ Depth(rank, f) = Depth(rank, Top(t))
    BY ONLY <1>2, CompileGoesOn
  <2>2. GoTo(t, "launched")
    BY <1>5 DEF LaunchCompiler
  <2>3. Become(t, f)
    BY <1>1, <2>1, <2>2, GoToIsBecome DEF Types
  <2>4. /\ NoneElse(t)
        /\ Owned(t)' \subseteq Owned(t) \cup {Lock("comp", Top(t).s), Lock("call", None)}
    <3>1. /\ compMutex' = [compMutex EXCEPT ![Top(t).s] = t] /\ callMutex' = t
          /\ buildMutex' = buildMutex /\ doneMutex' = doneMutex /\ callMutex = None
      BY <1>5 DEF LaunchCompiler
    <3> QED BY <1>2, <3>1, LaunchTaken
  <2> HIDE DEF f
  <2>5. \A m \in Owned(t)' : Holds(f, m) \/ (m \in Owned(t) /\ ~Holds(Top(t), m))
    BY <1>3, <2>1, <2>4, HoldsThese
  <2>6. Depth(rank, Top(t)) <= Depth(rank, f)
    BY <1>2, <2>1, DepthIsNat
  <2> QED BY <1>1, <2>1, <2>3, <2>4, <2>5, <2>6, BecomeShape
<1> QED BY <1>4, <1>5

LEMMA LaunchFailsShape ==
  ASSUME Types, BuildAssumption, NEW rank \in Ranking, Shape(rank),
         NEW t \in Thread, LaunchFails(t)
  PROVE  Shape(rank)'
<1> DEFINE s == Top(t).s
           f == SetBuildCompleted(s, FALSE, None)
           g == [Top(t) EXCEPT !.at = "unlock"]
<1>1. At(t, "launch") /\ Enter(t, f, "unlock")
  BY DEF LaunchFails
<1>2. s \in Script /\ Top(t) \in CompileFrame /\ Top(t).at = "launch" /\ Top(t) \in Frame
  BY <1>1, CompileFields, TopAt, TopIsFrame DEF Types
<1>3. f \in Frame /\ FrameUses(f) /\ Depth(rank, f) > Cardinality(Script) + 1
  BY <1>2, CompletingDeeper
<1>4. /\ g \in Frame /\ FrameUses(g) /\ g.at = "unlock" /\ g.s = s
      /\ Depth(rank, g) = Depth(rank, Top(t))
  BY ONLY <1>2, CompileGoesOn
<1>5. /\ NoneElse(t) /\ Owned(t)' \subseteq Owned(t) \cup {Lock("comp", s), Lock("call", None)}
  BY <1>2, LaunchTaken DEF LaunchFails
<1>6. stack' = [stack EXCEPT ![t] = <<f, g>> \o Tail(stack[t])]
  BY <1>1 DEF Enter, Top
<1> HIDE DEF f, g, s
<1>7. \A m \in Owned(t)' : Holds(g, m) \/ (m \in Owned(t) /\ ~Holds(Top(t), m))
  BY <1>2, <1>4, <1>5, HoldsThese, HoldsNothing
<1>8. Depth(rank, Top(t)) <= Depth(rank, g) /\ Depth(rank, g) < Depth(rank, f)
  <2>1. Depth(rank, Top(t)) = Cardinality(Script) + 1 /\ Depth(rank, Top(t)) \in Nat
    BY <1>2, DepthByKind, DepthIsNat
  <2>2. Depth(rank, f) \in Nat
    BY <1>3, DepthIsNat
  <2> QED BY <1>3, <1>4, <2>1, <2>2
<1> QED BY <1>1, <1>3, <1>4, <1>5, <1>6, <1>7, <1>8, CallShape

LEMMA SetCompilerPidShape ==
  ASSUME Types, BuildAssumption, NEW rank \in Ranking, Shape(rank),
         NEW t \in Thread, SetCompilerPid(t)
  PROVE  Shape(rank)'
<1>1. At(t, "launched") /\ Return(t)
  BY DEF SetCompilerPid
<1>2. Top(t).s \in Script /\ Top(t).at = "launched"
  BY <1>1, CompileFields, TopAt
<1>3. NoneElse(t) /\ Owned(t)' \subseteq Owned(t) \ {Lock("comp", Top(t).s), Lock("call", None)}
  BY <1>2, LaunchFreed DEF SetCompilerPid
<1>4. \A m \in Owned(t)' : m \in Owned(t) /\ ~Holds(Top(t), m)
  BY <1>2, <1>3, HoldsLock
<1> QED BY <1>1, <1>3, <1>4, ReturnShape

LEMMA UnlockCompShape ==
  ASSUME Types, BuildAssumption, NEW rank \in Ranking, Shape(rank),
         NEW t \in Thread, UnlockComp(t)
  PROVE  Shape(rank)'
<1>1. At(t, "unlock") /\ Return(t)
  BY DEF UnlockComp
<1>2. Top(t).s \in Script /\ Top(t).at = "unlock"
  BY <1>1, CompileFields, TopAt
<1>3. NoneElse(t) /\ Owned(t)' \subseteq Owned(t) \ {Lock("comp", Top(t).s), Lock("call", None)}
  <2>1. /\ compMutex' = [compMutex EXCEPT ![Top(t).s] = None]
        /\ callMutex' = None \/ (callMutex' = callMutex /\ callMutex # t)
        /\ buildMutex' = buildMutex /\ doneMutex' = doneMutex
    BY DEF UnlockComp
  <2> QED BY <1>2, <2>1, LaunchFreed
<1>4. \A m \in Owned(t)' : m \in Owned(t) /\ ~Holds(Top(t), m)
  BY <1>2, <1>3, HoldsLock
<1> QED BY <1>1, <1>3, <1>4, ReturnShape
-----------------------------------------------------------------------------
(* The end of a build.                                                       *)
LEMMA ShapeSame ==
  ASSUME NEW rank, Shape(rank), stack' = stack, mutexes' = mutexes
  PROVE  Shape(rank)'
<1>1. \A t \in Thread : Owned(t)' = Owned(t)
  BY OwnedSame
<1> QED BY <1>1 DEF Shape, Backed

LEMMA LockDoneShape ==
  ASSUME Types, BuildAssumption, RequestsUse, NEW rank \in Ranking, Shape(rank),
         NEW t \in Thread, LockDone(t)
  PROVE  Shape(rank)'
<1> DEFINE s == Top(t).s
           f == [Top(t) EXCEPT !.at = "tell", !.tell = TellList(s, Top(t).pid)]
<1>1. /\ At(t, "lock") /\ Top(t) \in DoneFrame /\ s \in Script
      /\ Top(t).pid \in Script \cup {None}
      /\ stack[t] \in Seq(Frame) /\ stack[t] # <<>>
      /\ Top(t).at = "lock" /\ Top(t) \in Frame
  BY DoneFields, TopIsFrame DEF LockDone, Types
<1>2. TellList(s, Top(t).pid) \in Seq(Requester \X (Script \cup {None}))
  BY <1>1, TellListIs
<1>3. f \in DoneFrame /\ f \in Frame /\ f.at = "tell" /\ f.s = s
      /\ f.tell = TellList(s, Top(t).pid)
  BY <1>1, <1>2 DEF DoneFrame, Frame
<1>4. stack' = [stack EXCEPT ![t] = [stack[t] EXCEPT ![1] = f]]
  BY <1>1 DEF LockDone, TellList, Top, Types, Stacks
<1>5. NoneElse(t) /\ Owned(t)' \subseteq Owned(t) \cup {Lock("done", s)}
  BY <1>1, DoneTaken DEF LockDone
<1> HIDE DEF f, s
<1>6. Become(t, f)
  BY <1>1, <1>3, <1>4, TopIsBecome DEF Types
<1>7. FrameUses(f)
  <2>1. \A i \in DOMAIN f.tell : f.tell[i][1] \in Script => s \in Uses[f.tell[i][1]]
    <3>1. SUFFICES ASSUME NEW i \in DOMAIN f.tell, f.tell[i][1] \in Script
                   PROVE  s \in Uses[f.tell[i][1]]
      OBVIOUS
    <3>2. \/ f.tell[i][1] = initiator[s]
          \/ \E j \in DOMAIN pseudoInitiators[s] : f.tell[i][1] = pseudoInitiators[s][j]
      <4>1. \A k \in DOMAIN TellList(s, Top(t).pid) :
              \/ TellList(s, Top(t).pid)[k][1] = initiator[s]
              \/ \E j \in DOMAIN pseudoInitiators[s] :
                   TellList(s, Top(t).pid)[k][1] = pseudoInitiators[s][j]
        BY <1>1, TellListIs
      <4> QED BY <1>3, <3>1, <4>1
    <3> QED BY <1>1, <3>1, <3>2 DEF RequestsUse
  <2> QED BY <1>3, <2>1 DEF FrameUses
<1>8. Depth(rank, Top(t)) <= Depth(rank, f)
  <2>1. Depth(rank, Top(t)) = Depth(rank, f)
    BY <1>1, <1>3, DepthByKind DEF s
  <2> QED BY <1>3, <2>1, DepthIsNat
<1>9. \A m \in Owned(t)' : Holds(f, m) \/ (m \in Owned(t) /\ ~Holds(Top(t), m))
  BY <1>1, <1>3, <1>5, HoldsThese, HoldsNothing
<1> QED BY <1>1, <1>3, <1>5, <1>6, <1>7, <1>8, <1>9, BecomeShape

LEMMA TellRequesterShape ==
  ASSUME Types, BuildAssumption, NEW rank \in Ranking, Shape(rank),
         NEW t \in Thread, TellRequester(t)
  PROVE  Shape(rank)'
<1> DEFINE r == Head(Top(t).tell)[1]
           g == [Top(t) EXCEPT !.tell = Tail(@)]
           f == SetInitiatedBuildIsCompleted(r, Top(t).s, Top(t).ok, Head(Top(t).tell)[2])
           Teller == Requester \X (Script \cup {None})
<1>1. /\ At(t, "tell") /\ Top(t) \in DoneFrame /\ Top(t).s \in Script /\ Top(t).ok \in BOOLEAN
      /\ Top(t).tell \in Seq(Teller) /\ Top(t).tell # <<>>
      /\ Top(t).at = "tell" /\ Top(t) \in Frame /\ mutexes' = mutexes
  BY DoneFields, TopIsFrame DEF TellRequester, Types
<1>2. /\ Head(Top(t).tell) \in Teller /\ Head(Top(t).tell)[2] \in Script \cup {None}
      /\ Tail(Top(t).tell) \in Seq(Teller)
      /\ Head(Top(t).tell) = Top(t).tell[1] /\ 1 \in DOMAIN Top(t).tell
      /\ \A i \in DOMAIN Tail(Top(t).tell) :
           i + 1 \in DOMAIN Top(t).tell /\ Tail(Top(t).tell)[i] = Top(t).tell[i + 1]
  BY <1>1
<1>3. /\ g \in DoneFrame /\ g \in Frame /\ g.at = "tell" /\ g.s = Top(t).s
      /\ g.tell = Tail(Top(t).tell)
  BY <1>1, <1>2 DEF DoneFrame, Frame
<1>4. FrameUses(Top(t))
  BY <1>1, TopUses
<1>5. stack' = [stack EXCEPT ![t] = (IF r \in beingBuilt THEN <<f, g>> ELSE <<g>>)
                                     \o Tail(stack[t])]
  BY <1>1 DEF TellRequester, Types, Stacks
<1> HIDE DEF g, f, r
<1>6. FrameUses(g) /\ Depth(rank, g) = Depth(rank, Top(t))
      /\ Depth(rank, Top(t)) = Cardinality(Script) + 2 + rank[Top(t).s]
  BY <1>1, <1>2, <1>3, <1>4, DepthByKind DEF FrameUses
<1>7. Depth(rank, Top(t)) <= Depth(rank, g)
  BY <1>1, <1>6, DepthIsNat
<1>8. NoneElse(t) /\ Owned(t)' = Owned(t)
  BY <1>1, OwnedStill
<1>9. \A m \in Owned(t)' : Holds(g, m) \/ (m \in Owned(t) /\ ~Holds(Top(t), m))
  BY <1>1, <1>3, <1>8, HoldsThese, HoldsLock
<1>10. CASE r \in beingBuilt
  <2>1. r \in Script /\ Top(t).s \in Uses[r]
    BY <1>1, <1>2, <1>4, <1>10 DEF Types, FlagsOK, FrameUses, r
  <2>2. f \in Frame /\ FrameUses(f) /\ Depth(rank, f) = Cardinality(Script) + 2 + rank[r]
    BY <1>1, <1>2, <2>1, NewFrames, NewUses, NewDepths DEF f
  <2>3. Depth(rank, g) < Depth(rank, f)
    <3>1. /\ Cardinality(Script) \in Nat /\ rank[r] \in Nat /\ rank[Top(t).s] \in Nat
          /\ rank[Top(t).s] < rank[r]
      BY <1>1, <2>1, RankFacts
    <3> QED BY <1>6, <2>2, <3>1
  <2>4. stack' = [stack EXCEPT ![t] = <<f, g>> \o Tail(stack[t])]
    BY <1>5, <1>10
  <2> QED BY <1>1, <1>3, <1>6, <1>7, <1>8, <1>9, <2>2, <2>3, <2>4, CallShape
<1>11. CASE r \notin beingBuilt
  <2>1. Become(t, g)
    BY <1>5, <1>11 DEF Become
  <2> QED BY <1>1, <1>3, <1>6, <1>7, <1>8, <1>9, <2>1, BecomeShape
<1> QED BY <1>10, <1>11

LEMMA BuildIsCompletedShape ==
  ASSUME Types, BuildAssumption, NEW rank \in Ranking, Shape(rank),
         NEW t \in Thread, BuildIsCompleted(t)
  PROVE  Shape(rank)'
<1>1. At(t, "tell") /\ Return(t)
  BY DEF BuildIsCompleted
<1>2. Top(t).s \in Script /\ Top(t).at = "tell"
  BY <1>1, DoneFields, TopAt
<1>3. NoneElse(t) /\ Owned(t)' \subseteq Owned(t) \ {Lock("done", Top(t).s)}
  BY <1>2, DoneFreed DEF BuildIsCompleted
<1>4. \A m \in Owned(t)' : m \in Owned(t) /\ ~Holds(Top(t), m)
  BY <1>2, <1>3, HoldsLock
<1> QED BY <1>1, <1>3, <1>4, ReturnShape

LEMMA EraseDependencyShape ==
  ASSUME Types, BuildAssumption, NEW rank \in Ranking, Shape(rank),
         NEW t \in Thread, EraseDependency(t)
  PROVE  Shape(rank)'
<1> DEFINE f == [Top(t) EXCEPT !.at = "last"]
<1>1. /\ At(t, "erase") /\ GoTo(t, "last") /\ mutexes' = mutexes
      /\ Top(t) \in ToldFrame /\ Top(t).at = "erase" /\ Top(t) \in Frame
  BY ToldFields, TopAt, TopIsFrame DEF EraseDependency, Types
<1>2. f \in ToldFrame /\ f \in Frame /\ f.at = "last" /\ f.s = Top(t).s
  BY <1>1 DEF ToldFrame, Frame
<1>3. Become(t, f)
  BY <1>1, <1>2, GoToIsBecome DEF Types
<1> HIDE DEF f
<1>4. FrameUses(f) /\ Depth(rank, f) = Depth(rank, Top(t))
  BY <1>1, <1>2, DepthByKind DEF FrameUses
<1>5. Depth(rank, Top(t)) <= Depth(rank, f)
  BY <1>1, <1>4, DepthIsNat
<1>6. NoneElse(t) /\ Owned(t)' = Owned(t)
  BY <1>1, OwnedStill
<1>7. \A m : ~Holds(Top(t), m)
  BY <1>1, HoldsNothing
<1> QED BY <1>1, <1>2, <1>3, <1>4, <1>5, <1>6, <1>7, BecomeShape

LEMMA LastDependencyShape ==
  ASSUME Types, BuildAssumption, NEW rank \in Ranking, Shape(rank),
         NEW t \in Thread, LastDependency(t)
  PROVE  Shape(rank)'
<1>1. /\ At(t, "last") /\ mutexes' = mutexes
      /\ Top(t).s \in Script /\ Top(t).at = "last" /\ Top(t) \in Frame
  BY ToldFields, TopAt, TopIsFrame DEF LastDependency, Types
<1>2. NoneElse(t) /\ Owned(t)' = Owned(t)
  BY <1>1, OwnedStill
<1>3. \A m : ~Holds(Top(t), m)
  BY <1>1, HoldsNothing
<1>4. CASE Return(t)
  BY <1>1, <1>2, <1>3, <1>4, ReturnShape
<1>5. CASE Become(t, SetBuildCompleted(Top(t).s, FALSE, None))
  <2> DEFINE f == SetBuildCompleted(Top(t).s, FALSE, None)
  <2>1. f \in Frame /\ FrameUses(f)
    BY <1>1, CompletingDeeper
  <2>2. Depth(rank, f) = Depth(rank, Top(t)) /\ Depth(rank, f) \in Nat
    <3>1. Depth(rank, f) = Cardinality(Script) + 2 + rank[Top(t).s]
      BY <1>1, CompletingDeeper
    <3>2. Depth(rank, Top(t)) = Cardinality(Script) + 2 + rank[Top(t).s]
      BY <1>1, DepthByKind
    <3>3. Depth(rank, f) \in Nat
      BY <2>1, DepthIsNat
    <3> QED BY <3>1, <3>2, <3>3
  <2> HIDE DEF f
  <2>3. Depth(rank, Top(t)) <= Depth(rank, f)
    BY <2>2
  <2> QED BY <1>1, <1>2, <1>3, <1>5, <2>1, <2>3, BecomeShape DEF f
<1> QED BY <1>4, <1>5 DEF LastDependency
-----------------------------------------------------------------------------
(* Delayed calls and cancelation.                                            *)
LEMMA Alone ==
  ASSUME NEW rank, NEW f \in Frame, FrameUses(f)
  PROVE  Good(rank, <<f>>)
<1>1. <<f>> \in Seq(Frame) /\ \A i \in DOMAIN <<f>> : i = 1 /\ <<f>>[i] = f
  OBVIOUS
<1> QED BY <1>1 DEF Good, Ordered

LEMMA Pair ==
  ASSUME NEW rank, NEW f \in Frame, FrameUses(f), NEW g \in Frame, FrameUses(g),
         Depth(rank, g) < Depth(rank, f)
  PROVE  Good(rank, <<f, g>>) /\ \A m : Holds(g, m) => HeldIn(<<f, g>>, m)
<1> DEFINE st == <<f, g>>
<1>1. /\ st \in Seq(Frame) /\ DOMAIN st = 1..2 /\ st[1] = f /\ st[2] = g
  OBVIOUS
<1> HIDE DEF st
<1>2. \A i \in DOMAIN st : (i = 1 /\ st[i] = f) \/ (i = 2 /\ st[i] = g)
  BY <1>1
<1>3. Ordered(rank, st)
  BY <1>2 DEF Ordered
<1>4. \A i \in DOMAIN st : FrameUses(st[i])
  BY <1>2
<1>5. \A m : Holds(g, m) => HeldIn(st, m)
  BY <1>1 DEF HeldIn
<1> QED BY <1>1, <1>3, <1>4, <1>5 DEF Good, st

LEMMA SignalFrame ==
  ASSUME BuildAssumption, NEW rank, NEW where \in {"cancel", "reset", "join"},
         NEW left \in Seq(Script \cup Worker), NEW f, f = [at |-> where, left |-> left]
  PROVE  f \in Frame /\ FrameUses(f) /\ Depth(rank, f) = 0
<1>1. f \in Frame
  BY NewFrames
<1>2. f.at = where
  OBVIOUS
<1>3. Depth(rank, f) = 0
  BY <1>2, DepthByKind
<1>4. FrameUses(f)
  BY <1>2 DEF FrameUses
<1> QED BY <1>1, <1>3, <1>4

LEMMA AtRest ==
  ASSUME NEW t, Backed(t), stack[t] = <<>>
  PROVE  Owned(t) = {}
BY DEF Backed, HeldIn

LEMMA OnCompileFinishedShape ==
  ASSUME Types, BuildAssumption, NEW rank \in Ranking, Shape(rank),
         NEW s \in Script, OnCompileFinished(s)
  PROVE  Shape(rank)'
<1>1. stack[Gui] = <<>> /\ Gui \in Thread
  BY GuiIsThread DEF OnCompileFinished, Calling
<1>2. CASE s \in buildCanceled
  <2>1. stack' = stack /\ mutexes' = mutexes
    BY <1>2 DEF OnCompileFinished, mutexes
  <2> QED BY <2>1, ShapeSame
<1>3. CASE s \notin buildCanceled
  <2> DEFINE ok == s \in byteCode
             f == SetBuildCompleted(s, ok, s)
             g == [at |-> "unlock", s |-> s]
  <2>1. f \in Frame /\ FrameUses(f) /\ Depth(rank, f) > Cardinality(Script) + 1
    <3>1. ok \in BOOLEAN /\ s \in Script \cup {None}
      OBVIOUS
    <3> HIDE DEF ok
    <3> QED BY <3>1, CompletingDeeper
  <2>2. /\ g \in Frame /\ FrameUses(g) /\ g.at = "unlock" /\ g.s = s
        /\ Depth(rank, g) = Cardinality(Script) + 1
    BY NewFrames, NewUses, NewDepths
  <2>3. stack' = [stack EXCEPT ![Gui] = <<f, g>>]
    BY <1>3 DEF OnCompileFinished
  <2>4. NoneElse(Gui) /\ Owned(Gui)' \subseteq Owned(Gui) \cup {Lock("comp", s)}
    BY <1>1, <1>3, CompTaken DEF OnCompileFinished
  <2> HIDE DEF f, g
  <2>5. Good(rank, <<f, g>>) /\ \A m : Holds(g, m) => HeldIn(<<f, g>>, m)
    <3>1. Depth(rank, g) < Depth(rank, f)
      BY <2>1, <2>2
    <3> QED BY <2>1, <2>2, <3>1, Pair
  <2>6. \A m \in Owned(Gui)' : HeldIn(<<f, g>>, m)
    <3>1. Owned(Gui) = {}
      BY <1>1, AtRest DEF Shape
    <3>2. Holds(g, Lock("comp", s))
      BY <2>2, HoldsThese
    <3> QED BY <2>4, <2>5, <3>1, <3>2
  <2> QED BY <1>1, <2>3, <2>4, <2>5, <2>6, ShapeStep
<1> QED BY <1>2, <1>3

(* A thread at rest starts something.                                        *)
LEMMA StartShape ==
  ASSUME Types, NEW rank, Shape(rank), NEW t \in Thread, stack[t] = <<>>,
         NEW f \in Frame, FrameUses(f), stack' = [stack EXCEPT ![t] = <<f>>],
         mutexes' = mutexes
  PROVE  Shape(rank)'
<1>1. Good(rank, <<f>>)
  BY Alone
<1>2. NoneElse(t) /\ Owned(t)' = Owned(t)
  BY OwnedStill
<1>3. Owned(t) = {}
  BY AtRest DEF Shape
<1> QED BY <1>1, <1>2, <1>3, ShapeStep

LEMMA StartBuildSelfThreadShape ==
  ASSUME Types, BuildAssumption, NEW rank \in Ranking, Shape(rank),
         NEW s \in Script, NEW p \in Pool, StartBuildSelfThread(s, p)
  PROVE  Shape(rank)'
<1>1. /\ p \in Thread /\ stack[p] = <<>> /\ mutexes' = mutexes
      /\ stack' = [stack EXCEPT ![p] = <<BuildSelf(s)>>]
  BY DEF StartBuildSelfThread, Thread
<1>2. BuildSelf(s) \in Frame /\ FrameUses(BuildSelf(s))
  BY SelfDeeper
<1> QED BY <1>1, <1>2, StartShape

LEMMA CancelWorkShape ==
  ASSUME Types, BuildAssumption, NEW rank \in Ranking, Shape(rank), CancelWork
  PROVE  Shape(rank)'
<1>1. /\ Gui \in Thread /\ stack[Gui] = <<>> /\ mutexes' = mutexes
      /\ stack' = [stack EXCEPT ![Gui] = <<Cancel(Listeners)>>]
  BY GuiIsThread DEF CancelWork
<1>2. Cancel(Listeners) \in Frame /\ FrameUses(Cancel(Listeners))
  <2>1. Listeners \in Seq(Script \cup Worker)
    BY DEF BuildAssumption
  <2>2. Cancel(Listeners) = [at |-> "cancel", left |-> Listeners]
    BY DEF Cancel
  <2> QED BY <2>1, <2>2, SignalFrame
<1> QED BY <1>1, <1>2, StartShape

LEMMA StartWorkingShape ==
  ASSUME Types, BuildAssumption, NEW rank \in Ranking, Shape(rank), StartWorking
  PROVE  Shape(rank)'
<1>1. /\ \A t \in Thread : stack[t] = <<>>
      /\ \A t \in Thread : stack'[t] = IF t \in Worker THEN <<WorkThread>> ELSE <<>>
      /\ mutexes' = mutexes
  BY DEF StartWorking
<1>2. Good(rank, <<WorkThread>>)
  BY NewFrames, NewUses, Alone
<1>3. Good(rank, <<>>)
  BY DEF Good, Ordered
<1>4. \A t \in Thread : Owned(t)' = {}
  BY <1>1, AtRest, OwnedSame DEF Shape
<1> QED BY <1>1, <1>2, <1>3, <1>4 DEF Shape, Backed

(* The signals of CancelWork are sent by the outermost function.             *)
LEMMA SignalStep ==
  ASSUME Types, BuildAssumption, NEW rank \in Ranking, Shape(rank), mutexes' = mutexes,
         NEW where \in {"cancel", "reset", "join"}, At(Gui, where)
  PROVE  /\ Gui \in Thread /\ Depth(rank, Top(Gui)) = 0 /\ Tail(stack[Gui]) = <<>>
         /\ stack[Gui] = <<Top(Gui)>> /\ NoneElse(Gui)
         /\ \A m \in Owned(Gui)' : m \in Owned(Gui) /\ ~Holds(Top(Gui), m)
<1>1. Gui \in Thread /\ Top(Gui).at = where
  BY GuiIsThread, TopAt
<1>2. Depth(rank, Top(Gui)) = 0
  BY <1>1, DepthByKind
<1>3. Tail(stack[Gui]) = <<>> /\ stack[Gui] = <<Top(Gui)>>
  BY <1>1, <1>2, TopUses, BaseAlone DEF Top, At
<1>4. NoneElse(Gui) /\ Owned(Gui)' = Owned(Gui)
  BY OwnedStill
<1>5. \A m : ~Holds(Top(Gui), m)
  BY <1>1, HoldsNothing
<1> QED BY <1>1, <1>2, <1>3, <1>4, <1>5

LEMMA SignalOnShape ==
  ASSUME Types, BuildAssumption, NEW rank \in Ranking, Shape(rank), mutexes' = mutexes,
         NEW where \in {"cancel", "reset", "join"}, At(Gui, where),
         NEW f \in Frame, FrameUses(f), Depth(rank, f) = 0, Become(Gui, f)
  PROVE  Shape(rank)'
<1>1. /\ Gui \in Thread /\ Depth(rank, Top(Gui)) = 0 /\ NoneElse(Gui)
      /\ \A m \in Owned(Gui)' : m \in Owned(Gui) /\ ~Holds(Top(Gui), m)
  BY SignalStep
<1>2. Depth(rank, Top(Gui)) <= Depth(rank, f)
  BY <1>1
<1> QED BY <1>1, <1>2, BecomeShape

LEMMA CancelScriptShape ==
  ASSUME Types, BuildAssumption, NEW rank \in Ranking, Shape(rank),
         NEW s \in Script, CancelScript(s)
  PROVE  Shape(rank)'
<1> DEFINE left == Tail(Top(Gui).left)
           f == Terminate(s)
           g == [at |-> "reset", left |-> left]
<1>1. /\ At(Gui, "cancel") /\ mutexes' = mutexes /\ Gui \in Thread
      /\ Top(Gui).left \in Seq(Script \cup Worker) /\ Top(Gui).left # <<>>
      /\ stack' = [stack EXCEPT ![Gui] = <<f, g>>]
  BY CancelFields, GuiIsThread DEF CancelScript, Signals
<1>2. left \in Seq(Script \cup Worker)
  BY <1>1
<1>3. g \in Frame /\ FrameUses(g) /\ Depth(rank, g) = 0
  BY <1>2, SignalFrame
<1>4. f \in Frame /\ FrameUses(f) /\ Depth(rank, f) = Cardinality(Script) + 1 - rank[s]
  BY NewFrames, NewUses, NewDepths
<1> HIDE DEF f, g, left
<1>5. Depth(rank, g) < Depth(rank, f)
  <2>1. Cardinality(Script) \in Nat /\ rank[s] \in Nat /\ rank[s] <= Cardinality(Script)
    BY RankFacts
  <2> QED BY <1>3, <1>4, <2>1
<1>6. Good(rank, <<f, g>>)
  BY <1>3, <1>4, <1>5, Pair
<1>7. /\ NoneElse(Gui) /\ Tail(stack[Gui]) = <<>>
      /\ \A m \in Owned(Gui)' : m \in Owned(Gui) /\ ~Holds(Top(Gui), m)
  BY <1>1, SignalStep
<1>8. \A m \in Owned(Gui)' : FALSE
  <2>1. stack[Gui] \in Seq(Frame) /\ stack[Gui] # <<>> /\ Backed(Gui)
    BY <1>1, TopIsFrame DEF Types, Shape
  <2>2. \A m : ~HeldIn(<<>>, m)
    BY DEF HeldIn
  <2> QED BY <1>7, <2>1, <2>2, HeldByTail DEF Backed, Top
<1> QED BY <1>1, <1>6, <1>7, <1>8, ShapeStep

LEMMA GoToCancelShape ==
  ASSUME Types, BuildAssumption, NEW rank \in Ranking, Shape(rank), mutexes' = mutexes,
         NEW where \in {"reset", "join"}, At(Gui, where), GoTo(Gui, "cancel")
  PROVE  Shape(rank)'
<1> DEFINE f == [Top(Gui) EXCEPT !.at = "cancel"]
<1>1. Gui \in Thread /\ Top(Gui) \in Frame /\ Top(Gui).at = where
  BY GuiIsThread, TopIsFrame DEF Types
<1>2. Top(Gui) \in [at : {"cancel", "reset", "join"}, left : Seq(Script \cup Worker)]
  BY <1>1, FrameKinds DEF CancelFrame
<1>3. Top(Gui).left \in Seq(Script \cup Worker) /\ f = [at |-> "cancel", left |-> Top(Gui).left]
  BY <1>2
<1> HIDE DEF f
<1>4. f \in Frame /\ FrameUses(f) /\ Depth(rank, f) = 0
  BY <1>3, SignalFrame
<1>5. Become(Gui, f)
  BY <1>1, <1>4, GoToIsBecome DEF Types, f
<1> QED BY <1>4, <1>5, SignalOnShape

LEMMA CancelProjectShape ==
  ASSUME Types, BuildAssumption, NEW rank \in Ranking, Shape(rank),
         NEW w \in Worker, CancelProject(w)
  PROVE  Shape(rank)'
<1> DEFINE left == Tail(Top(Gui).left)
           f == [at |-> "join", left |-> left]
<1>1. /\ At(Gui, "cancel") /\ mutexes' = mutexes /\ Gui \in Thread
      /\ Top(Gui).left \in Seq(Script \cup Worker) /\ Top(Gui).left # <<>>
      /\ stack' = [stack EXCEPT ![Gui] = <<f>>]
  BY CancelFields, GuiIsThread DEF CancelProject, Signals
<1>2. left \in Seq(Script \cup Worker)
  BY <1>1
<1>3. f \in Frame /\ FrameUses(f) /\ Depth(rank, f) = 0
  BY <1>2, SignalFrame
<1> HIDE DEF f, left
<1>4. Tail(stack[Gui]) = <<>> /\ <<f>> \o <<>> = <<f>>
  BY <1>1, <1>3, SignalStep
<1>5. Become(Gui, f)
  BY <1>1, <1>4 DEF Become
<1> QED BY <1>1, <1>3, <1>5, SignalOnShape

LEMMA WorkCanceledShape ==
  ASSUME Types, BuildAssumption, NEW rank \in Ranking, Shape(rank), WorkCanceled
  PROVE  Shape(rank)'
<1>1. At(Gui, "cancel") /\ mutexes' = mutexes /\ Return(Gui)
  BY DEF WorkCanceled
<1>2. /\ Gui \in Thread /\ NoneElse(Gui)
      /\ \A m \in Owned(Gui)' : m \in Owned(Gui) /\ ~Holds(Top(Gui), m)
  BY <1>1, SignalStep
<1> QED BY <1>1, <1>2, ReturnShape

LEMMA TerminateCompilersShape ==
  ASSUME Types, BuildAssumption, RequestsUse, NEW rank \in Ranking, Shape(rank),
         NEW t \in Thread, TerminateCompilers(t)
  PROVE  Shape(rank)'
<1> DEFINE s == Top(t).s
           todo == IF pids[s] = {} THEN {} ELSE buildDeps[s]
           f == [Top(t) EXCEPT !.at = "terminating", !.todo = todo]
<1>1. /\ At(t, "terminate") /\ Top(t).at = "terminate" /\ s \in Script
      /\ Top(t) \in [at : {"terminate", "terminating"}, s : Script, todo : SUBSET Script]
      /\ stack[t] \in Seq(Frame) /\ stack[t] # <<>> /\ Top(t) \in Frame
  BY TerminateFields, TopIsFrame DEF TerminateCompilers, Types
<1>2. todo \subseteq Uses[s] /\ todo \subseteq Script
  BY <1>1 DEF RequestsUse, Types, ProgressOK
<1>3. /\ f \in [at : {"terminate", "terminating"}, s : Script, todo : SUBSET Script]
      /\ f.at = "terminating" /\ f.s = s /\ f.todo = todo
  <2> HIDE DEF todo
  <2> QED BY <1>1, <1>2
<1>4. f \in Frame
  BY <1>3 DEF Frame, CancelFrame
<1>5. stack' = [stack EXCEPT ![t] = [stack[t] EXCEPT ![1] = f]]
  BY <1>1 DEF TerminateCompilers, Top, Types, Stacks
<1>6. NoneElse(t) /\ Owned(t)' \subseteq Owned(t) \cup {Lock("build", s)}
  BY <1>1, BuildTaken DEF TerminateCompilers
<1> HIDE DEF f, todo, s
<1>7. Become(t, f)
  BY <1>1, <1>4, <1>5, TopIsBecome DEF Types
<1>8. FrameUses(f)
  BY <1>2, <1>3 DEF FrameUses
<1>9. Depth(rank, Top(t)) <= Depth(rank, f)
  <2>1. Depth(rank, Top(t)) = Depth(rank, f)
    BY <1>1, <1>3, DepthByKind DEF s
  <2> QED BY <1>4, <2>1, DepthIsNat
<1>10. \A m \in Owned(t)' : Holds(f, m) \/ (m \in Owned(t) /\ ~Holds(Top(t), m))
  BY <1>1, <1>3, <1>6, HoldsThese, HoldsNothing
<1> QED BY <1>1, <1>4, <1>6, <1>7, <1>8, <1>9, <1>10, BecomeShape

LEMMA TerminateDependencyShape ==
  ASSUME Types, BuildAssumption, NEW rank \in Ranking, Shape(rank),
         NEW t \in Thread, TerminateDependency(t)
  PROVE  Shape(rank)'
<1> DEFINE s == Top(t).s
<1>1. /\ At(t, "terminating") /\ mutexes' = mutexes /\ Top(t).at = "terminating" /\ s \in Script
      /\ Top(t) \in [at : {"terminate", "terminating"}, s : Script, todo : SUBSET Script]
      /\ Top(t).todo \subseteq Script /\ Top(t) \in Frame
  BY TerminateFields, TopIsFrame DEF TerminateDependency, Types
<1>2. PICK d \in Top(t).todo :
        stack' = [stack EXCEPT ![t] = <<Terminate(d),
                    [Top(t) EXCEPT !.todo = @ \ {d}]>> \o Tail(stack[t])]
  BY DEF TerminateDependency, Types, Stacks
<1>3. FrameUses(Top(t))
  BY <1>1, TopUses
<1>4. d \in Script /\ d \in Uses[s] /\ rank[d] < rank[s]
  <2>1. d \in Uses[s]
    BY <1>1, <1>3 DEF FrameUses
  <2> QED BY <1>1, <2>1, RankFacts
<1> DEFINE f == Terminate(d)
           g == [Top(t) EXCEPT !.todo = @ \ {d}]
<1>5. f \in Frame /\ FrameUses(f) /\ Depth(rank, f) = Cardinality(Script) + 1 - rank[d]
  BY <1>4, NewFrames, NewUses, NewDepths
<1>6. /\ g \in [at : {"terminate", "terminating"}, s : Script, todo : SUBSET Script]
      /\ g.at = "terminating" /\ g.s = s /\ g.todo = Top(t).todo \ {d}
  BY <1>1
<1>7. g \in Frame
  BY <1>6 DEF Frame, CancelFrame
<1>8. stack' = [stack EXCEPT ![t] = <<f, g>> \o Tail(stack[t])]
  BY <1>2
<1> HIDE DEF f, g, s
<1>9. FrameUses(g)
  BY <1>1, <1>3, <1>6 DEF FrameUses, s
<1>10. /\ Depth(rank, g) = Cardinality(Script) + 1 - rank[s]
       /\ Depth(rank, Top(t)) = Cardinality(Script) + 1 - rank[s]
  BY <1>1, <1>6, DepthByKind DEF s
<1>11. Depth(rank, Top(t)) <= Depth(rank, g) /\ Depth(rank, g) < Depth(rank, f)
  <2>1. Cardinality(Script) \in Nat /\ rank[s] \in Nat /\ rank[d] \in Nat
    BY <1>1, <1>4, RankFacts
  <2> QED BY <1>4, <1>5, <1>10, <2>1
<1>12. NoneElse(t) /\ Owned(t)' = Owned(t)
  BY <1>1, OwnedStill
<1>13. \A m \in Owned(t)' : Holds(g, m) \/ (m \in Owned(t) /\ ~Holds(Top(t), m))
  BY <1>1, <1>6, <1>12, HoldsThese, HoldsLock DEF s
<1> QED BY <1>1, <1>5, <1>7, <1>8, <1>9, <1>11, <1>12, <1>13, CallShape

LEMMA LeaveTerminateShape ==
  ASSUME Types, BuildAssumption, NEW rank \in Ranking, Shape(rank),
         NEW t \in Thread, LeaveTerminate(t)
  PROVE  Shape(rank)'
<1>1. At(t, "terminating") /\ Return(t)
  BY DEF LeaveTerminate
<1>2. Top(t).s \in Script /\ Top(t).at = "terminating"
  BY <1>1, TerminateFields, TopAt
<1>3. NoneElse(t) /\ Owned(t)' \subseteq Owned(t) \ {Lock("build", Top(t).s)}
  BY <1>2, BuildFreed DEF LeaveTerminate
<1>4. \A m \in Owned(t)' : m \in Owned(t) /\ ~Holds(Top(t), m)
  BY <1>2, <1>3, HoldsLock
<1> QED BY <1>1, <1>3, <1>4, ReturnShape
-----------------------------------------------------------------------------
(* Requests go along what the scripts use.                                   *)
LEMMA RequestsSame ==
  ASSUME RequestsUse, requests' = requests, buildDeps' = buildDeps
  PROVE  RequestsUse'
BY DEF RequestsUse, requests

LEMMA MarkUses ==
  ASSUME Types, RequestsUse, NEW s \in Script, NEW r, r \in Script => s \in Uses[r],
         initiator' = [initiator EXCEPT ![s] = IF r \in Script THEN r ELSE @],
         pseudoInitiators' = pseudoInitiators,
         \A x \in Script : buildDeps'[x] \subseteq Uses[x]
  PROVE  RequestsUse'
<1>1. \A x \in Script : initiator'[x] = IF x = s /\ r \in Script THEN r ELSE initiator[x]
  BY DEF Types, RequestsOK
<1> QED BY <1>1 DEF RequestsUse

LEMMA ClearUses ==
  ASSUME Types, BuildAssumption, RequestsUse, NEW s \in Script, ClearBuildInformation(s)
  PROVE  RequestsUse'
<1>1. None \notin Script
  BY DEF BuildAssumption, Requester
<1>2. \A x \in Script :
        /\ initiator'[x] = IF x = s THEN None ELSE initiator[x]
        /\ pseudoInitiators'[x] = IF x = s THEN <<>> ELSE pseudoInitiators[x]
        /\ buildDeps'[x] = IF x = s THEN {} ELSE buildDeps[x]
  BY DEF Types, RequestsOK, ProgressOK, ClearBuildInformation
<1> QED BY <1>1, <1>2 DEF RequestsUse

LEMMA TestUpToDateUses ==
  ASSUME Types, BuildAssumption, RequestsUse, NEW rank, Shape(rank),
         NEW t \in Thread, TestUpToDate(t)
  PROVE  RequestsUse'
<1> DEFINE s == Top(t).s
           r == Top(t).for
<1>1. At(t, "test") /\ s \in Script /\ FrameUses(Top(t)) /\ Top(t).at = "test"
  BY BuildFields, TopUses DEF TestUpToDate
<1>2. r \in Script => s \in Uses[r]
  BY <1>1 DEF FrameUses
<1>3. CASE s \in upToDate
  <2>1. /\ initiator' = [initiator EXCEPT ![s] = IF r \in Script THEN r ELSE @]
        /\ pseudoInitiators' = pseudoInitiators /\ buildDeps' = buildDeps
    BY <1>3 DEF TestUpToDate, SetIsBeingBuiltFor, progress
  <2> HIDE DEF s, r
  <2> QED BY <1>1, <1>2, <2>1, MarkUses DEF RequestsUse
<1>4. CASE s \notin upToDate
  <2>1. requests' = requests /\ buildDeps' = buildDeps
    BY <1>4 DEF TestUpToDate, requests, progress
  <2> QED BY <2>1, RequestsSame
<1> QED BY <1>3, <1>4

LEMMA StartBuildUses ==
  ASSUME Types, BuildAssumption, RequestsUse, NEW rank, Shape(rank),
         NEW t \in Thread, StartBuild(t)
  PROVE  RequestsUse'
<1> DEFINE s == Top(t).s
           r == Top(t).for
<1>1. At(t, "progress") /\ s \in Script /\ FrameUses(Top(t)) /\ Top(t).at = "progress"
  BY BuildFields, TopUses DEF StartBuild
<1>2. r \in Script => s \in Uses[r]
  BY <1>1 DEF FrameUses
<1>3. /\ initiator' = [initiator EXCEPT ![s] = IF r \in Script THEN r ELSE @]
      /\ pseudoInitiators' = pseudoInitiators
      /\ buildDeps' = [buildDeps EXCEPT ![s] = Uses[s]]
  BY DEF StartBuild, SetIsBeingBuiltFor
<1> HIDE DEF s, r
<1>4. \A x \in Script : buildDeps'[x] \subseteq Uses[x]
  BY <1>3 DEF RequestsUse, Types, ProgressOK
<1> QED BY <1>1, <1>2, <1>3, <1>4, MarkUses

LEMMA AddBuildPseudoInitiatorUses ==
  ASSUME Types, BuildAssumption, RequestsUse, NEW rank, Shape(rank),
         NEW t \in Thread, AddBuildPseudoInitiator(t)
  PROVE  RequestsUse'
<1> DEFINE s == Top(t).s
           r == Top(t).for
<1>1. /\ At(t, "progress") /\ s \in Script /\ r \in Requester
      /\ FrameUses(Top(t)) /\ Top(t).at = "progress"
  BY BuildFields, TopUses DEF AddBuildPseudoInitiator
<1>2. r \in Script => s \in Uses[r]
  BY <1>1 DEF FrameUses
<1>3. /\ initiator' = initiator /\ buildDeps' = buildDeps
      /\ pseudoInitiators' = [pseudoInitiators EXCEPT ![s] = Append(@, r)]
  BY DEF AddBuildPseudoInitiator, progress
<1>4. pseudoInitiators[s] \in Seq(Requester)
  BY <1>1 DEF Types, RequestsOK
<1> HIDE DEF s, r
<1>5. \A i \in DOMAIN Append(pseudoInitiators[s], r) :
        \/ Append(pseudoInitiators[s], r)[i] = r
        \/ i \in DOMAIN pseudoInitiators[s]
           /\ Append(pseudoInitiators[s], r)[i] = pseudoInitiators[s][i]
  BY <1>1, <1>4
<1>6. \A x \in Script : pseudoInitiators'[x] =
        IF x = s THEN Append(pseudoInitiators[s], r) ELSE pseudoInitiators[x]
  BY <1>3 DEF Types, RequestsOK
<1>7. \A x \in Script : \A i \in DOMAIN pseudoInitiators'[x] :
        pseudoInitiators'[x][i] \in Script => x \in Uses[pseudoInitiators'[x][i]]
  <2> SUFFICES ASSUME NEW x \in Script, NEW i \in DOMAIN pseudoInitiators'[x],
                      pseudoInitiators'[x][i] \in Script
               PROVE  x \in Uses[pseudoInitiators'[x][i]]
    OBVIOUS
  <2>1. CASE x = s
    <3>1. pseudoInitiators'[x] = Append(pseudoInitiators[s], r)
      BY <1>6, <2>1
    <3>2. \/ pseudoInitiators'[x][i] = r
          \/ i \in DOMAIN pseudoInitiators[s] /\ pseudoInitiators'[x][i] = pseudoInitiators[s][i]
      BY <1>5, <3>1
    <3>3. \A j \in DOMAIN pseudoInitiators[s] :
            pseudoInitiators[s][j] \in Script => s \in Uses[pseudoInitiators[s][j]]
      BY <1>1 DEF RequestsUse
    <3> QED BY <1>2, <2>1, <3>2, <3>3
  <2>2. CASE x # s
    BY <1>6, <2>2 DEF RequestsUse
  <2> QED BY <2>1, <2>2
<1> QED BY <1>3, <1>7 DEF RequestsUse

LEMMA EraseDependencyUses ==
  ASSUME Types, RequestsUse, NEW t \in Thread, EraseDependency(t)
  PROVE  RequestsUse'
<1>1. Top(t).s \in Script
  BY ToldFields DEF EraseDependency
<1>2. /\ requests' = requests
      /\ buildDeps' = [buildDeps EXCEPT ![Top(t).s] = @ \ {Top(t).dep}]
  BY DEF EraseDependency
<1>3. \A x \in Script : buildDeps'[x] \subseteq buildDeps[x]
  BY <1>1, <1>2 DEF Types, ProgressOK
<1> QED BY <1>2, <1>3 DEF RequestsUse, requests

LEMMA NextUses ==
  ASSUME Types, BuildAssumption, RequestsUse, NEW rank, Shape(rank), [Next]_vars
  PROVE  RequestsUse'
<1>1. ASSUME NEW t \in Thread, Build(t) PROVE RequestsUse'
  <2>1. CASE TestUpToDate(t) \/ StartBuild(t) \/ AddBuildPseudoInitiator(t) \/ EraseDependency(t)
    <3>1. CASE TestUpToDate(t)
      BY <3>1, TestUpToDateUses
    <3>2. CASE StartBuild(t)
      BY <3>2, StartBuildUses
    <3>3. CASE AddBuildPseudoInitiator(t)
      BY <3>3, AddBuildPseudoInitiatorUses
    <3>4. CASE EraseDependency(t)
      BY <3>4, EraseDependencyUses
    <3> QED BY <2>1, <3>1, <3>2, <3>3, <3>4
  <2>2. CASE BuildIsCompleted(t)
    <3>1. Top(t).s \in Script /\ ClearBuildInformation(Top(t).s)
      BY <2>2, DoneFields DEF BuildIsCompleted
    <3> QED BY <3>1, ClearUses
  <2>3. CASE LockBuild(t) \/ BuildDependency(t) \/ LeaveBuild(t) \/ CheckByteCode(t)
    BY <2>3, RequestsSame DEF LockBuild, BuildDependency, LeaveBuild, CheckByteCode, progress
  <2>4. CASE LaunchCompiler(t) \/ LaunchFails(t) \/ SetCompilerPid(t)
    BY <2>4, RequestsSame DEF LaunchCompiler, LaunchFails, SetCompilerPid, progress
  <2>5. CASE LockDone(t) \/ TellRequester(t) \/ LastDependency(t) \/ UnlockComp(t)
    BY <2>5, RequestsSame DEF LockDone, TellRequester, LastDependency, UnlockComp, progress
  <2> QED BY <1>1, <2>1, <2>2, <2>3, <2>4, <2>5 DEF Build
<1>2. ASSUME NEW w \in Worker, WorkStarts(w) \/ AskNext(w) PROVE RequestsUse'
  BY <1>2, RequestsSame DEF WorkStarts, AskNext, progress
<1>3. ASSUME NEW s \in Script, CompilerEnds(s) PROVE RequestsUse'
  BY <1>3, RequestsSame DEF CompilerEnds, progress
<1>4. CASE MakeCall
  BY <1>4, RequestsSame DEF MakeCall, OnCompileFinished, OnResourceWorkCompleted,
     StartBuildSelfThread, OnWorkCompleted, progress
<1>5. CASE CancelStep
  <2>1. CASE TerminateCompilers(Gui)
    <3>1. Top(Gui).s \in Script
      BY <2>1, TerminateFields, GuiIsThread DEF TerminateCompilers
    <3>2. CASE ClearBuildInformation(Top(Gui).s)
      BY <3>1, <3>2, ClearUses
    <3>3. CASE requests' = requests /\ progress' = progress
      BY <3>3, RequestsSame DEF progress
    <3> QED BY <2>1, <3>2, <3>3 DEF TerminateCompilers
  <2>2. CASE \E s \in Script : CancelScript(s)
    BY <2>2, RequestsSame DEF CancelScript, progress
  <2>3. CASE \E w \in Worker : CancelProject(w)
    BY <2>3, RequestsSame DEF CancelProject, progress
  <2>4. CASE ResetUpToDate \/ JoinWorker \/ WorkCanceled
    BY <2>4, RequestsSame DEF ResetUpToDate, JoinWorker, WorkCanceled, progress
  <2>5. CASE TerminateDependency(Gui) \/ LeaveTerminate(Gui)
    BY <2>5, RequestsSame DEF TerminateDependency, LeaveTerminate, progress
  <2> QED BY <1>5, <2>1, <2>2, <2>3, <2>4, <2>5 DEF CancelStep
<1>6. CASE StartWorking \/ CancelWork
  BY <1>6, RequestsSame DEF StartWorking, CancelWork, progress
<1>7. CASE UNCHANGED vars
  BY <1>7, RequestsSame DEF vars, progress
<1> QED BY <1>1, <1>2, <1>3, <1>4, <1>5, <1>6, <1>7 DEF Next
-----------------------------------------------------------------------------
(* The inductive invariant.                                                  *)
InOrder == Types /\ RequestsUse /\ \A rank \in Ranking : Shape(rank)

LEMMA NextShape ==
  ASSUME Types, BuildAssumption, RequestsUse, NEW rank \in Ranking, Shape(rank), [Next]_vars
  PROVE  Shape(rank)'
<1>1. ASSUME NEW t \in Thread, Build(t) PROVE Shape(rank)'
  <2>1. CASE LockBuild(t) \/ TestUpToDate(t) \/ AddBuildPseudoInitiator(t) \/ StartBuild(t)
    BY <2>1, LockBuildShape, TestUpToDateShape, AddBuildPseudoInitiatorShape, StartBuildShape
  <2>2. CASE BuildDependency(t) \/ LeaveBuild(t) \/ CheckByteCode(t) \/ LaunchCompiler(t)
    BY <2>2, BuildDependencyShape, LeaveBuildShape, CheckByteCodeShape, LaunchCompilerShape
  <2>3. CASE LaunchFails(t) \/ SetCompilerPid(t) \/ LockDone(t) \/ TellRequester(t)
    BY <2>3, LaunchFailsShape, SetCompilerPidShape, LockDoneShape, TellRequesterShape
  <2>4. CASE BuildIsCompleted(t) \/ EraseDependency(t) \/ LastDependency(t) \/ UnlockComp(t)
    BY <2>4, BuildIsCompletedShape, EraseDependencyShape, LastDependencyShape, UnlockCompShape
  <2> QED BY <1>1, <2>1, <2>2, <2>3, <2>4 DEF Build
<1>2. ASSUME NEW w \in Worker, WorkStarts(w) \/ AskNext(w) PROVE Shape(rank)'
  BY <1>2, WorkStartsShape, AskNextShape
<1>3. ASSUME NEW s \in Script, CompilerEnds(s) PROVE Shape(rank)'
  BY <1>3, ShapeSame DEF CompilerEnds
<1>4. CASE MakeCall
  <2>1. ASSUME NEW s \in Script, OnCompileFinished(s) PROVE Shape(rank)'
    BY <2>1, OnCompileFinishedShape
  <2>2. ASSUME NEW s \in Script, NEW w \in Worker, OnResourceWorkCompleted(s, w)
        PROVE  Shape(rank)'
    BY <2>2, ShapeSame DEF OnResourceWorkCompleted
  <2>3. ASSUME NEW s \in Script, NEW p \in Pool, StartBuildSelfThread(s, p)
        PROVE  Shape(rank)'
    BY <2>3, StartBuildSelfThreadShape
  <2>4. CASE OnWorkCompleted
    BY <2>4, ShapeSame DEF OnWorkCompleted
  <2> QED BY <1>4, <2>1, <2>2, <2>3, <2>4 DEF MakeCall
<1>5. CASE CancelStep
  <2>1. ASSUME NEW s \in Script, CancelScript(s) PROVE Shape(rank)'
    BY <2>1, CancelScriptShape
  <2>2. ASSUME NEW w \in Worker, CancelProject(w) PROVE Shape(rank)'
    BY <2>2, CancelProjectShape
  <2>3. CASE ResetUpToDate \/ JoinWorker
    BY <2>3, GoToCancelShape DEF ResetUpToDate, JoinWorker
  <2>4. CASE WorkCanceled
    BY <2>4, WorkCanceledShape
  <2>5. CASE TerminateCompilers(Gui) \/ TerminateDependency(Gui) \/ LeaveTerminate(Gui)
    BY <2>5, GuiIsThread, TerminateCompilersShape, TerminateDependencyShape,
       LeaveTerminateShape
  <2> QED BY <1>5, <2>1, <2>2, <2>3, <2>4, <2>5 DEF CancelStep
<1>6. CASE StartWorking \/ CancelWork
  BY <1>6, StartWorkingShape, CancelWorkShape
<1>7. CASE UNCHANGED vars
  BY <1>7, ShapeSame DEF vars
<1> QED BY <1>1, <1>2, <1>3, <1>4, <1>5, <1>6, <1>7 DEF Next

LEMMA InitOrder ==
  ASSUME BuildAssumption, Init
  PROVE  InOrder
<1>1. Types
  BY InitTypes
<1>2. None \notin Script /\ None \notin Thread
  BY DEF BuildAssumption, Requester
<1>3. RequestsUse
  BY <1>2 DEF Init, RequestsUse
<1>4. ASSUME NEW rank \in Ranking PROVE Shape(rank)
  <2>1. Good(rank, <<>>)
    BY DEF Good, Ordered
  <2>2. \A t \in Thread : stack[t] = <<>> /\ \A m \in Owned(t) : FALSE
    BY <1>2, OwnedIs DEF Init
  <2> QED BY <2>1, <2>2 DEF Shape, Backed
<1> QED BY <1>1, <1>3, <1>4 DEF InOrder

LEMMA NextOrder ==
  ASSUME BuildAssumption, InOrder, [Next]_vars
  PROVE  InOrder'
<1>1. Types' BY NextTypes DEF InOrder
<1>2. RequestsUse'
  <2>1. PICK rank : rank \in Ranking
    BY DEF BuildAssumption
  <2> QED BY <2>1, NextUses DEF InOrder
<1>3. ASSUME NEW rank \in Ranking PROVE Shape(rank)'
  BY NextShape DEF InOrder
<1> QED BY <1>1, <1>2, <1>3 DEF InOrder

(* What a function holds is not above its depth.                             *)
LEMMA LevelOfHeld ==
  ASSUME BuildAssumption, NEW rank \in Ranking, NEW f \in Frame, NEW t,
         NEW m \in Owned(t), Holds(f, m)
  PROVE  /\ Level(rank, m) \in Int
         /\ Depth(rank, f) <= Cardinality(Script) => Level(rank, m) < Depth(rank, f)
         /\ Level(rank, m) <= Depth(rank, f)
         /\ f.at = "tell" => Level(rank, m) < Depth(rank, f)
         /\ f.at # "tell" => Level(rank, m) <= Cardinality(Script) + 1
<1> DEFINE n == Cardinality(Script)
<1>1. n \in Nat /\ \A s \in Script : rank[s] \in Nat /\ 1 <= rank[s] /\ rank[s] <= n
  BY RankFacts
<1>2. \A s : /\ Level(rank, Lock("build", s)) = n - rank[s]
             /\ Level(rank, Lock("call", s)) = n
             /\ Level(rank, Lock("comp", s)) = n + 1
             /\ Level(rank, Lock("done", s)) = n + 1 + rank[s]
  BY LockFields DEF Level
<1>3. CASE /\ m = Lock("build", f.s)
           /\ f.at \in {"test", "progress", "deps", "leave", "unresolved", "terminating"}
  <2>1. f.s \in Script /\ Depth(rank, f) = n + 1 - rank[f.s]
    BY <1>3, FrameScript, DepthByKind
  <2>2. Level(rank, m) = n - rank[f.s]
    BY <1>2, <1>3
  <2> QED BY <1>1, <1>3, <2>1, <2>2
<1>4. CASE (m = Lock("call", None) \/ m = Lock("comp", f.s)) /\ f.at \in {"launched", "unlock"}
  <2>1. Depth(rank, f) = n + 1
    BY <1>4, DepthByKind
  <2>2. Level(rank, m) = n \/ Level(rank, m) = n + 1
    BY <1>2, <1>4
  <2> QED BY <1>1, <1>4, <2>1, <2>2
<1>5. CASE m = Lock("done", f.s) /\ f.at = "tell"
  <2>1. f.s \in Script /\ Depth(rank, f) = n + 2 + rank[f.s]
    BY <1>5, FrameScript, DepthByKind
  <2>2. Level(rank, m) = n + 1 + rank[f.s]
    BY <1>2, <1>5
  <2> QED BY <1>1, <1>5, <2>1, <2>2
<1> QED BY <1>3, <1>4, <1>5, HoldsLock

(* ... and what it waits for comes after all that its thread holds.          *)
LEMMA AwaitedAbove ==
  ASSUME BuildAssumption, InOrder, NEW rank \in Ranking, NEW t \in Thread,
         NEW m \in Awaited(t), NEW held \in Owned(t)
  PROVE  Level(rank, held) < Level(rank, m)
<1> DEFINE n == Cardinality(Script)
           top == Top(t)
           st == stack[t]
<1>1. n \in Nat /\ \A s \in Script : rank[s] \in Nat /\ 1 <= rank[s] /\ rank[s] <= n
  BY RankFacts
<1>2. PICK where \in {"enter", "terminate", "progress", "launch", "lock"} : At(t, where)
  BY DEF Awaited
<1>3. /\ Good(rank, st) /\ Backed(t) /\ st # <<>> /\ st \in Seq(Frame) /\ Types
      /\ top \in Frame /\ top.at = where
  BY <1>2, TopUses, TopIsFrame DEF InOrder, Types
<1>4. top.s \in Script
  BY <1>2, <1>3, FrameScript
<1>5. /\ st[1] = top /\ 1 \in DOMAIN st
      /\ \A i \in DOMAIN st : i = 1 \/ 1 < i
  BY <1>3 DEF Top
<1>6. PICK i \in DOMAIN st : Holds(st[i], held)
  BY <1>3 DEF Backed, HeldIn
<1> DEFINE f == st[i]
<1>7. f \in Frame /\ Depth(rank, f) \in Nat /\ Depth(rank, top) \in Nat
  BY <1>3, DepthIsNat
<1>8. /\ Level(rank, held) \in Int
      /\ Depth(rank, f) <= n => Level(rank, held) < Depth(rank, f)
      /\ Level(rank, held) <= Depth(rank, f)
      /\ f.at = "tell" => Level(rank, held) < Depth(rank, f)
      /\ f.at # "tell" => Level(rank, held) <= n + 1
  BY <1>6, <1>7, LevelOfHeld
<1>9. f = top \/ Depth(rank, f) < Depth(rank, top)
  BY <1>3, <1>5 DEF Good, Ordered
<1>10. m.s = top.s /\ \E kind \in {"build", "call", "comp", "done"} : m.kind = kind
  BY DEF Awaited
<1> HIDE DEF f, st, top
<1>11. CASE where \in {"enter", "terminate"}
  <2>1. m.kind = "build"
    BY <1>2, <1>3, <1>11 DEF Awaited, At, Top, top
  <2>2. Level(rank, m) = n - rank[top.s] /\ Depth(rank, top) = n + 1 - rank[top.s]
    BY <1>3, <1>10, <1>11, <2>1, DepthByKind DEF Level
  <2>3. ~Holds(top, held)
    BY <1>3, <1>11, HoldsNothing
  <2>4. Depth(rank, f) < Depth(rank, top)
    BY <1>6, <1>9, <2>3 DEF f
  <2> QED BY <1>1, <1>4, <1>7, <1>8, <2>2, <2>4
<1>12. CASE where = "progress"
  <2>1. m.kind \in {"done", "call"}
    BY <1>2, <1>3, <1>12 DEF Awaited, At, Top, top
  <2>2. Level(rank, m) = n \/ Level(rank, m) = n + 1 + rank[top.s]
    BY <1>10, <2>1 DEF Level
  <2>3. Depth(rank, top) = n + 1 - rank[top.s]
    BY <1>3, <1>12, DepthByKind
  <2> QED BY <1>1, <1>4, <1>7, <1>8, <1>9, <2>2, <2>3
<1>13. CASE where = "launch"
  <2>1. m.kind \in {"call", "comp"}
    BY <1>2, <1>3, <1>13 DEF Awaited, At, Top, top
  <2>2. Level(rank, m) = n \/ Level(rank, m) = n + 1
    BY <2>1 DEF Level
  <2>3. Depth(rank, top) = n + 1
    BY <1>3, <1>13, DepthByKind
  <2>4. ~Holds(top, held)
    BY <1>3, <1>13, HoldsNothing
  <2>5. Depth(rank, f) < Depth(rank, top)
    BY <1>6, <1>9, <2>4 DEF f
  <2> QED BY <1>1, <1>7, <1>8, <2>2, <2>3, <2>5
<1>14. CASE where = "lock"
  <2>1. m.kind = "done"
    BY <1>2, <1>3, <1>14 DEF Awaited, At, Top, top
  <2>2. Level(rank, m) = n + 1 + rank[top.s]
    BY <1>10, <2>1 DEF Level
  <2>3. Depth(rank, top) = n + 2 + rank[top.s]
    BY <1>3, <1>14, DepthByKind
  <2>4. ~Holds(top, held)
    BY <1>3, <1>14, HoldsNothing
  <2>5. Depth(rank, f) < Depth(rank, top)
    BY <1>6, <1>9, <2>4 DEF f
  <2> QED BY <1>1, <1>4, <1>7, <1>8, <2>2, <2>3, <2>5
<1> QED BY <1>11, <1>12, <1>13, <1>14

(* A thread waits for a mutex only if it comes, in one order for all         *)
(* threads, after those the thread holds: SetBuildCompleted may call the     *)
(* scripts that wait, and they those that wait for them, under its mutex,    *)
(* and the thread of the user interface may join the workers.                *)
THEOREM BuildLocksInOrder == Spec => []LocksInOrder
<1>1. Init => InOrder
  BY BuildAssumption, InitOrder
<1>2. InOrder /\ [Next]_vars => InOrder'
  BY BuildAssumption, NextOrder
<1>3. InOrder => LocksInOrder
  <2> SUFFICES ASSUME InOrder PROVE LocksInOrder
    OBVIOUS
  <2>1. \A t \in Thread : \A m \in Awaited(t), held \in Owned(t), rank \in Ranking :
          Level(rank, held) < Level(rank, m)
    BY BuildAssumption, AwaitedAbove
  <2>2. ASSUME At(Gui, "join") PROVE Owned(Gui) = {}
    <3>1. PICK rank : rank \in Ranking
      BY BuildAssumption DEF BuildAssumption
    <3>2. /\ Gui \in Thread /\ Shape(rank) /\ Types /\ Top(Gui).at = "join"
          /\ stack[Gui] \in Seq(Frame) /\ stack[Gui] # <<>>
      BY <2>2, <3>1, GuiIsThread, TopAt, TopIsFrame, BuildAssumption DEF InOrder, Types
    <3>3. Depth(rank, Top(Gui)) = 0 /\ Good(rank, stack[Gui]) /\ Backed(Gui)
      BY <3>2, DepthByKind DEF Shape
    <3>4. Tail(stack[Gui]) = <<>>
      BY <3>1, <3>2, <3>3, BaseAlone, BuildAssumption DEF Top
    <3>5. \A m : ~HeldIn(stack[Gui], m)
      <4>1. \A m : ~Holds(Top(Gui), m) /\ ~HeldIn(<<>>, m)
        BY <3>2, HoldsNothing DEF HeldIn
      <4> QED BY <3>2, <3>4, <4>1, HeldByTail DEF Top
    <3> QED BY <3>3, <3>5 DEF Backed
  <2> QED BY <2>1, <2>2 DEF LocksInOrder
<1> QED BY <1>1, <1>2, <1>3, PTL DEF Spec
=============================================================================
