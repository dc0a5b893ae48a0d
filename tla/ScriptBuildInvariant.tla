------------------------ MODULE ScriptBuildInvariant ------------------------
(***************************************************************************)
(* What is true of a build between any two steps, until somebody cancels   *)
(* or something spoils it: the inductive invariant behind the properties   *)
(* of ScriptBuild.  It speaks of the functions that are on the stacks as   *)
(* of sets, and of two kinds of things that must neither be lost nor       *)
(* doubled: the claim of a requester on a script it waits for, and the     *)
(* token of a script that goes on.  What scripts know of compilers and     *)
(* what has been built for good is true beside it.                         *)
(***************************************************************************)
EXTENDS ScriptBuild

Elems(seq) == {seq[i] : i \in DOMAIN seq}
On(t)      == Elems(stack[t])
Called     == Elems(calls)

(* Is a function of script s at this place, on this thread or on any?        *)
Here(at, s, t) == \E f \in On(t) : f.at = at /\ f.s = s
Doing(at, s)   == \E t \in Thread : Here(at, s, t)

(* Not the last build, or it is neither over nor being canceled.             *)
Live == session < MaxSessions \/ Working
-----------------------------------------------------------------------------
(* The stacks.  A function that has called another is one of these.          *)
CoveredKinds == {"work", "deps", "leave", "unresolved", "tell", "unlock"}
AskKinds     == {"enter", "test", "progress"}
BuildKinds   == {"test", "progress", "deps", "leave", "unresolved"}
CancelKinds  == {"terminate", "terminating", "cancel", "reset", "join"}

Covered ==
  \A t \in Thread : stack[t] # <<>> =>
    \A f \in Elems(Tail(stack[t])) : f.at \in CoveredKinds

(* What a function holds, and whom it has been called by.                    *)
Fits(f, t) ==
  /\ f.at \in {"start", "work"} => t \in Worker
  /\ f.at \in BuildKinds => buildMutex[f.s] = t
  /\ f.at = "tell" => doneMutex[f.s] = t
  /\ f.at \in {"launched", "unlock"} => compMutex[f.s] = t
  /\ f.at \in AskKinds =>
       IF f.for \in Script THEN \E g \in On(t) : g.at = "deps" /\ g.s = f.for
                           ELSE f.for = t
  /\ f.at \in {"erase", "last"} => \E g \in On(t) : g.at = "tell" /\ g.s = f.dep

Structure == \A t \in Thread : \A f \in On(t) : Fits(f, t)

(* No two threads tell one script that a dependency is done.                 *)
TellsApart ==
  \A t, u \in Thread : \A f \in On(t), g \in On(u) :
    {f.at, g.at} \subseteq {"erase", "last"} /\ f.s = g.s => t = u

(* What its arguments say: nobody is on a list twice, and the only compiler  *)
(* a script tells of is its own.                                             *)
Distinct(list) == \A i, j \in DOMAIN list : list[i] = list[j] => i = j

Sound(f) ==
  /\ f.at \notin CancelKinds
  /\ f.at = "unresolved" => f.s \in Unresolvable
  /\ f.at = "deps" => f.s \notin Unresolvable
  /\ f.at = "work" => Distinct(f.children)
  /\ f.at \in {"lock", "tell"} => f.pid \in {None, f.s}
  /\ f.at = "tell" =>
       /\ \A i \in DOMAIN f.tell : f.tell[i][2] \in {None, f.s}
       /\ \A i, j \in DOMAIN f.tell : f.tell[i][1] = f.tell[j][1] => i = j
  /\ f.at \in {"erase", "last"} => f.dep \in Uses[f.s]
  /\ f.at = "last" => f.s \notin Unresolvable
  /\ f.at = "erase" => f.pid \in {None, f.dep}

Sounds == \A t \in Thread : \A f \in On(t) : Sound(f)
-----------------------------------------------------------------------------
(* The flags of a script.                                                    *)
Flags ==
  \A s \in Script :
    /\ s \notin beingBuilt =>
         /\ workId[s] = None /\ initiator[s] = None /\ pseudoInitiators[s] = <<>>
         /\ buildDeps[s] = {}
    /\ s \in beingBuilt =>
         workId[s] # None /\ initiator[s] = IF workId[s] \in Script THEN workId[s] ELSE None
    /\ Distinct(pseudoInitiators[s]) /\ workId[s] \notin Elems(pseudoInitiators[s])

NothingCanceled == buildCanceled = {} /\ stopWorker = {}

CalledOnce == \A i, j \in DOMAIN calls : calls[i] = calls[j] /\ calls[i] # WorkCompleted => i = j

(* What makes a script that is being built go on, and the thread where it is *)
(* if it is a function: it has been called, waits for its mutex, tells its   *)
(* requesters or has found that a dependency was the last; or its compiler   *)
(* runs or has ended, or its thread is to be started.                        *)
TokenKinds == {"check", "launch", "lock", "tell", "last", "compiler", "finished", "self"}

HasToken(at, s, t) ==
  \/ at \in {"check", "launch", "lock", "tell"} /\ t \in Thread /\ Here(at, s, t)
  \/ at = "last" /\ t \in Thread /\ buildDeps[s] = {} /\ Here(at, s, t)
  \/ at = "compiler" /\ t = None /\ s \in compilers
  \/ at = "finished" /\ t = None /\ CompileFinished(s) \in Called
  \/ at = "self" /\ t = None /\ BuildSelfThread(s) \in Called

OneToken ==
  \A s \in Script : \A t, u \in Thread \cup {None} : \A a, b \in TokenKinds :
    HasToken(a, s, t) /\ HasToken(b, s, u) => a = b /\ t = u

TokensGoOn ==
  \A s \in Script : \A t \in Thread \cup {None} : \A a \in TokenKinds :
    HasToken(a, s, t) => /\ s \in beingBuilt
                         /\ s \in Unresolvable => a \in {"lock", "tell"}
                         /\ s \notin Unresolvable => buildDeps[s] = {}
-----------------------------------------------------------------------------
(* The claim of requester r on script d, and where it is: still to be asked  *)
(* for, being asked for, noted by d, about to be told, being told, posted.   *)
ClaimKinds == {"todo", "ask", "noted", "tell", "erase", "posted"}

FrameClaims(f, t, at, d, r) ==
  \/ at = "todo" /\ f.at = "deps" /\ f.s = r /\ d \in f.todo
  \/ at = "todo" /\ f.at = "work" /\ t = r /\ d \in Elems(f.children)
  \/ at = "ask" /\ f.at \in AskKinds /\ f.s = d /\ f.for = r
  \/ at = "tell" /\ f.at = "tell" /\ f.s = d /\ \E i \in DOMAIN f.tell : f.tell[i][1] = r
  \/ at = "erase" /\ f.at = "erase" /\ f.s = r /\ f.dep = d

InFrames(at, d, r) == \E t \in Thread : \E f \in On(t) : FrameClaims(f, t, at, d, r)

Notes(d, r) == ~Doing("tell", d) /\ (workId[d] = r \/ r \in Elems(pseudoInitiators[d]))
Posted(d, r) == ResourceWorkCompleted(d, r) \in Called

HasClaim(at, d, r) ==
  \/ InFrames(at, d, r)
  \/ at = "noted" /\ Notes(d, r)
  \/ at = "posted" /\ Posted(d, r)

Expects(r, d) ==
  IF r \in Script THEN r \in beingBuilt \ Unresolvable /\ d \in buildDeps[r]
                  ELSE d \in working[r]

OneClaim ==
  \A d \in Script, r \in Requester : \A a, b \in ClaimKinds :
    HasClaim(a, d, r) /\ HasClaim(b, d, r) => a = b

ClaimsExpected ==
  \A d \in Script, r \in Requester : \A a \in ClaimKinds : HasClaim(a, d, r) => Expects(r, d)

ClaimsKept ==
  \A d \in Script, r \in Script : Expects(r, d) => \E a \in ClaimKinds : HasClaim(a, d, r)
-----------------------------------------------------------------------------
(* What is said of compilers and completions: the functions that compile a   *)
(* script, complete it or tell of it.                                        *)
SayKinds == {"check", "launch", "launched", "lock", "tell", "erase", "last"}
Said     == {f \in UNION {On(t) : t \in Thread} : f.at \in SayKinds}

Launched(s) == \E f \in Said : f.at = "launched" /\ f.s = s
Telling(s)  == \E f \in Said : f.at = "tell" /\ f.s = s

(* The compiler of a script itself, which it knows of from the moment when   *)
(* LaunchCompiler returns until it is completed.                             *)
Compiling(s) == s \in compilers \/ CompileFinished(s) \in Called

Finishes(f, s) == f.at \in {"lock", "tell"} /\ f.s = s /\ f.pid = s

KnowsOwn(s) ==
  /\ s \notin beingBuilt => pids[s] = {}
  /\ s \in pids[s] => Compiling(s) \/ \E f \in Said : Finishes(f, s)
  /\ Launched(s) => Compiling(s)
  /\ Compiling(s) => s \in pids[s] \/ Launched(s)

(* That of a script it waits for, d, which remembers it, tells it or is just *)
(* being taken off its list.                                                 *)
FrameKnows(f, r, d) ==
  \/ f.at = "tell" /\ f.s = d /\ <<r, d>> \in Elems(f.tell)
  \/ f.at = "erase" /\ f.s = r /\ f.dep = d /\ f.pid = d

KnownAt(r, d) ==
  \/ workId[d] = r /\ d \in pids[d] /\ ~Telling(d)
  \/ \E f \in Said : FrameKnows(f, r, d)

KnowsOf(r, d) == d \in pids[r] /\ d # r => d \in buildDeps[r] /\ KnownAt(r, d)

Compilers == \A s \in Script : KnowsOwn(s) /\ \A d \in Script : KnowsOf(s, d)
-----------------------------------------------------------------------------
(* A worker that starts has not noted yet what its project waits for.        *)
Starting(w) == \E f \in On(w) : f.at = "start"

ProjectsWait ==
  \A w \in Worker : /\ Starting(w) => working[w] = {} /\ busy
                    /\ ~busy => working[w] = {}
-----------------------------------------------------------------------------
(* Final is a set of scripts that are not compiled any more in this build,   *)
(* with all they use.                                                        *)
Known(Final) == Final \cup Unresolvable

Launching(s) == \E f \in Said : f.at = "launch" /\ f.s = s
Ends(f, s)   == f.at \in {"lock", "tell"} /\ f.s = s
Ending(s)    == \E f \in Said : Ends(f, s)

(* Its dependencies are done and it is to be compiled or has been.           *)
GoesOn(s) ==
  \/ Compiling(s) \/ BuildSelfThread(s) \in Called
  \/ \E f \in Said : f.at \in {"check", "launch"} /\ f.s = s

FinalStays(Final, s) ==
  s \in Final =>
    /\ s \in byteCode /\ ~Compiling(s) /\ ~Launching(s)
    /\ Uses[s] \subseteq Known(Final)
    /\ s \in someDepsCompiled => Ending(s)

(* A script that is being built with success has erased final dependencies.  *)
ErasedFinal(Final, s) ==
  s \in beingBuilt \ Unresolvable /\ Uses[s] # {} /\ s \notin depsFailed =>
    Uses[s] \ buildDeps[s] \subseteq Known(Final)

(* A script fails only if it is broken.                                      *)
Prospers(s) ==
  /\ GoesOn(s) => Uses[s] = {} \/ s \notin depsFailed
  /\ s \notin beingBuilt => s \in depsFailed /\ s \notin someDepsCompiled
  /\ s \in beingBuilt \ Broken /\ Uses[s] # {} /\ s \in depsFailed => Ending(s)
  /\ s \notin Faulty /\ CompileFinished(s) \in Called => s \in byteCode

(* What is told to be done is final, unless it is broken; who is told that a *)
(* dependency has been compiled is not final yet.                            *)
TellsFinal(Final, f) ==
  /\ f.at \in {"lock", "tell"} => (f.ok => f.s \in Known(Final)) /\ (f.ok \/ f.s \in Broken)
  /\ f.at = "erase" => (f.ok => f.dep \in Known(Final)) /\ (f.ok \/ f.dep \in Broken)

Rebuilds(Final, f) ==
  /\ f.at = "erase" /\ f.pid # None => f.s \notin Final
  /\ f.at = "lock" /\ f.pid # None => workId[f.s] \notin Final
  /\ f.at = "tell" => \A i \in DOMAIN f.tell : f.tell[i][2] # None => f.tell[i][1] \notin Final

(* A project waits for those of its scripts that are not.                    *)
AwaitsRest(Final, w) ==
  \A s \in ChildrenOf(w) \ Broken :
    /\ busy => Starting(w) \/ s \in working[w] \/ s \in Final
    /\ Posted(s, w) => s \in Final

Finality(Final) ==
  /\ Final \subseteq Script /\ upToDate \subseteq Known(Final)
  /\ \A s \in Script : FinalStays(Final, s) /\ ErasedFinal(Final, s)
  /\ \A f \in Said : TellsFinal(Final, f) /\ Rebuilds(Final, f)
  /\ \A w \in Worker : AwaitsRest(Final, w)

Done == (\A s \in Script : Prospers(s)) /\ \E Final \in SUBSET Script : Finality(Final)
-----------------------------------------------------------------------------
(* What is to be done is in hand.                                            *)
Framed  == Covered /\ Structure /\ TellsApart /\ Sounds
GoingOn == CalledOnce /\ OneToken /\ TokensGoOn
Claimed == OneClaim /\ ClaimsExpected /\ ClaimsKept
InHand  == Framed /\ Flags /\ NothingCanceled /\ GoingOn /\ Claimed /\ ProjectsWait

(* Who cancels a build does nothing else.                                    *)
CancelsAlone == busy /\ Canceling => \A f \in On(Gui) : f.at \in CancelKinds
=============================================================================
