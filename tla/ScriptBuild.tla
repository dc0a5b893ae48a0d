---------------------------- MODULE ScriptBuild ----------------------------
(***************************************************************************)
(* The build of a workspace by the project manager of the IDE              *)
(* (Components/ProjectManager/ScriptBuild.cpp, VirtualContainer.cpp): each *)
(* project has a worker thread that asks its scripts, one after the other, *)
(* to build; a script asks its dependencies first and is compiled, by a    *)
(* process of its own, when the last of them has told it that it is done.  *)
(* Whoever asks while a script is being built is noted as a pseudo         *)
(* initiator and told at the end as well.  Four kinds of threads call each *)
(* other's scripts: the workers, one thread per script that goes on after  *)
(* its dependencies, and the thread of the user interface, which makes the *)
(* delayed calls and cancels the build.                                    *)
(***************************************************************************)
EXTENDS Naturals, Sequences, FiniteSets

CONSTANTS
  Script,        (* the scripts of the workspace                             *)
  Worker,        (* the projects: each has one worker thread                 *)
  Pool,          (* the threads BuildSelfThread starts: how many at a time   *)
  Gui,           (* the thread of the user interface                         *)
  None,          (* no thread, no requester                                  *)
  Uses,          (* the scripts each script uses                             *)
  Children,      (* the scripts of each project, in the order of the project *)
  Listeners,     (* projects and scripts in the order in which they were     *)
                 (* created, which is the order in which a signal gets there *)
  Unresolvable,  (* scripts with a dependency that cannot be resolved        *)
  Faulty,        (* scripts that the compiler rejects                        *)
  MaxSessions,   (* how many builds the user starts                          *)
  MayCancel      (* may the user cancel one?                                 *)

Thread == Worker \cup Pool \cup {Gui}

(* Who a script is built for: another script, or a project's worker (the     *)
(* work id tells the two apart).                                             *)
Requester == Script \cup Worker

(* Cyclic dependencies are errors of their resolution: those left have no    *)
(* cycle, which the ranks of a function witness.                             *)
Ranking == {rank \in [Script -> 1..Cardinality(Script)] :
              \A s \in Script : \A d \in Uses[s] : rank[d] < rank[s]}

ASSUME BuildAssumption ==
  /\ IsFiniteSet(Script) /\ Script \cap Worker = {}
  /\ Uses \in [Script -> SUBSET Script] /\ Ranking # {}
  /\ Children \in [Worker -> Seq(Script) \ {<<>>}]
  /\ \A w \in Worker : \A i, j \in DOMAIN Children[w] :   (* a tree of components *)
       Children[w][i] = Children[w][j] => i = j
  /\ Listeners \in Seq(Script \cup Worker)
  /\ Unresolvable \subseteq Script /\ Faulty \subseteq Script
  /\ MaxSessions \in Nat
  /\ MayCancel \in BOOLEAN
  /\ Gui \notin Worker \cup Pool /\ Worker \cap Pool = {}
  /\ None \notin Thread \cup Requester

VARIABLES
  stack,          (* per thread: the functions it is in, the innermost first *)
  calls,          (* the delayed calls, oldest first                         *)
  compilers,      (* the scripts whose compiler process runs                 *)
  byteCode,       (* the scripts whose byte code is newer than their source  *)
  newerThan,      (* the used scripts a script's byte code is newer than     *)
  rejected,       (* the scripts the compiler found errors in last time      *)
  beingBuilt, upToDate, buildCanceled,              (* flags: sets of scripts *)
  workId,         (* m_workId: whose request is being served                 *)
  initiator,      (* m_buildInitiator: the script that is to be told         *)
  pseudoInitiators, (* who asked while the script was being built            *)
  buildDeps,      (* the dependencies still to be built                      *)
  depsFailed,     (* the scripts with m_buildDepsSucceeded false             *)
  someDepsCompiled,
  pids,           (* m_allBuildPids: the scripts the compilers are for       *)
  buildMutex, doneMutex, compMutex,                 (* of each script        *)
  callMutex,      (* s_componentCallMutex, of all of them                    *)
  working,        (* m_workingChildren of each project                       *)
  stopWorker,     (* the projects whose worker has been told to stop         *)
  session,        (* how many builds have been started                       *)
  busy,           (* does the workspace have a root working resource?        *)
  spoilt          (* history: see "What spoils a build"                      *)

flags     == <<beingBuilt, upToDate, buildCanceled>>
requests  == <<workId, initiator, pseudoInitiators>>
progress  == <<buildDeps, depsFailed, someDepsCompiled, pids>>
mutexes   == <<buildMutex, doneMutex, compMutex, callMutex>>
files     == <<byteCode, newerThan, rejected>>
workspace == <<working, stopWorker, session, busy, spoilt>>
vars      == <<stack, calls, compilers, files, flags, requests, progress,
               mutexes, workspace>>
-----------------------------------------------------------------------------
(* Frames: where a function of a script is.                                  *)
WorkThread          == [at |-> "start"]
Work(children)      == [at |-> "work", children |-> children]
BuildImpl(s, r)     == [at |-> "enter", s |-> s, for |-> r, todo |-> {}]
BuildSelf(s)        == [at |-> "check", s |-> s]
SetBuildCompleted(s, ok, pid) ==
  [at |-> "lock", s |-> s, ok |-> ok, pid |-> pid, tell |-> <<>>]
SetInitiatedBuildIsCompleted(s, d, ok, pid) ==
  [at |-> "erase", s |-> s, dep |-> d, ok |-> ok, pid |-> pid]
Terminate(s)        == [at |-> "terminate", s |-> s, todo |-> {}]
Cancel(left)        == [at |-> "cancel", left |-> left]

(* Delayed calls.                                                            *)
CompileFinished(s)          == [call |-> "finished", s |-> s]
BuildSelfThread(s)          == [call |-> "self", s |-> s]
ResourceWorkCompleted(s, r) == [call |-> "completed", s |-> s, for |-> r]
WorkCompleted               == [call |-> "over"]

At(t, where) == stack[t] # <<>> /\ Head(stack[t]).at = where
Top(t)       == Head(stack[t])

(* What a thread does next: go on elsewhere, call, return, or return from    *)
(* one function into the next (a tail call).                                 *)
GoTo(t, where) == stack' = [stack EXCEPT ![t][1].at = where]
Become(t, f)   == stack' = [stack EXCEPT ![t] = <<f>> \o Tail(@)]
Enter(t, f, where) ==
  stack' = [stack EXCEPT ![t] = <<f, [Head(@) EXCEPT !.at = where]>> \o Tail(@)]
Return(t)      == stack' = [stack EXCEPT ![t] = Tail(@)]

Post(c)  == calls' = Append(calls, c)
PostAll(cs) == calls' = calls \o cs

(* A project follows the scripts it asked for; nobody else looks at the      *)
(* notices of the rest.                                                      *)
Told(s, r) == IF r \in Worker THEN <<ResourceWorkCompleted(s, r)>> ELSE <<>>

(* What spoils a build: two threads in SetInitiatedBuildIsCompleted of one    *)
(* script, which takes no mutex, change m_buildDeps and m_allBuildPids at    *)
(* the same time, and both may find that theirs was the last dependency; and *)
(* a script that is being built is found up to date, against the assertion   *)
(* of SetIsBeingBuilt.  A debug build stops at the assertion; a release      *)
(* build goes on, and nothing below is known of it.                          *)
IsToldBy(t, s) == \E i \in DOMAIN stack[t] :
                    stack[t][i].at \in {"erase", "last"} /\ stack[t][i].s = s

\* Fault: m_someDepsCompiled is left as it is.
ClearedButForCompiled(s) ==
  /\ workId' = [workId EXCEPT ![s] = None]
  /\ initiator' = [initiator EXCEPT ![s] = None]
  /\ pseudoInitiators' = [pseudoInitiators EXCEPT ![s] = <<>>]
  /\ buildDeps' = [buildDeps EXCEPT ![s] = {}]
  /\ pids' = [pids EXCEPT ![s] = {}]
  /\ depsFailed' = depsFailed \cup {s}
  /\ beingBuilt' = beingBuilt \ {s}
  /\ UNCHANGED someDepsCompiled

(* ClearBuildInformation and the flags a build starts with.                  *)
ClearBuildInformation(s) ==
  /\ workId' = [workId EXCEPT ![s] = None]
  /\ initiator' = [initiator EXCEPT ![s] = None]
  /\ pseudoInitiators' = [pseudoInitiators EXCEPT ![s] = <<>>]
  /\ buildDeps' = [buildDeps EXCEPT ![s] = {}]
  /\ pids' = [pids EXCEPT ![s] = {}]
  /\ depsFailed' = depsFailed \cup {s}
  /\ someDepsCompiled' = someDepsCompiled \ {s}
  /\ beingBuilt' = beingBuilt \ {s}

(* The compiler writes the byte code of a script without errors, and leaves  *)
(* the files alone otherwise.                                                *)
Compile(s) ==
  IF s \in Faulty
  THEN rejected' = rejected \cup {s} /\ UNCHANGED <<byteCode, newerThan>>
  ELSE /\ rejected' = rejected \ {s}
       /\ byteCode' = byteCode \cup {s}
       /\ newerThan' = [x \in Script |-> IF x = s THEN Uses[s] ELSE newerThan[x] \ {s}]

(* m_workId = workId; SetIsBeingBuilt(); if (initiator) SetBuildInitiator(). *)
SetIsBeingBuiltFor(s, r) ==
  /\ beingBuilt' = beingBuilt \cup {s}
  /\ workId' = [workId EXCEPT ![s] = r]
  /\ initiator' = [initiator EXCEPT ![s] = IF r \in Script THEN r ELSE @]

Init ==
  /\ stack = [t \in Thread |-> <<>>] /\ calls = <<>>
  /\ compilers = {} /\ byteCode = Script
  /\ newerThan = Uses /\ rejected = {}
  /\ beingBuilt = {} /\ upToDate = {} /\ buildCanceled = {}
  /\ workId = [s \in Script |-> None]
  /\ initiator = [s \in Script |-> None]
  /\ pseudoInitiators = [s \in Script |-> <<>>]
  /\ buildDeps = [s \in Script |-> {}] /\ pids = [s \in Script |-> {}]
  /\ depsFailed = Script /\ someDepsCompiled = {}
  /\ buildMutex = [s \in Script |-> None]
  /\ doneMutex = [s \in Script |-> None]
  /\ compMutex = [s \in Script |-> None] /\ callMutex = None
  /\ working = [w \in Worker |-> {}] /\ stopWorker = {}
  /\ session = 0 /\ busy = FALSE /\ spoilt = FALSE
-----------------------------------------------------------------------------
(* A project's worker notes the scripts it waits for, then asks them one     *)
(* after the other; it looks at m_stopWorker after each of them.             *)
ChildrenOf(w) == {Children[w][i] : i \in DOMAIN Children[w]}
Stopped(w)    == w \in stopWorker /\ Len(Top(w).children) < Len(Children[w])

WorkStarts(w) ==
  /\ At(w, "start")
  /\ working' = [working EXCEPT ![w] = ChildrenOf(w)]
  /\ Become(w, Work(Children[w]))
  /\ UNCHANGED <<calls, compilers, files, flags, requests, progress, mutexes,
                 stopWorker, session, busy, spoilt>>

AskNext(w) ==
  /\ At(w, "work")
  /\ LET todo == Top(w).children IN
       IF todo = <<>> \/ Stopped(w)
       THEN Return(w)
       ELSE stack' = [stack EXCEPT ![w] =
                        <<BuildImpl(Head(todo), w), Work(Tail(todo))>>]
  /\ UNCHANGED <<calls, compilers, files, flags, requests, progress, mutexes,
                 workspace>>

(* BuildImpl takes the script's build mutex and keeps it until it returns.   *)
LockBuild(t) ==
  /\ At(t, "enter")
  /\ LET s == Top(t).s IN
       /\ buildMutex[s] = None
       /\ buildMutex' = [buildMutex EXCEPT ![s] = t]
  /\ GoTo(t, "test")
  /\ UNCHANGED <<calls, compilers, files, flags, requests, progress, doneMutex,
                 compMutex, callMutex, workspace>>

(* m_upToDate is read without the mutex under which it is written: a script  *)
(* built in this session is completed at once.                               *)
TestUpToDate(t) ==
  /\ At(t, "test")
  /\ LET s == Top(t).s IN
       IF s \in upToDate
       THEN /\ SetIsBeingBuiltFor(s, Top(t).for)
            /\ spoilt' = (spoilt \/ s \in beingBuilt)
            /\ Enter(t, SetBuildCompleted(s, TRUE, None), "leave")
       ELSE /\ GoTo(t, "progress")
            /\ UNCHANGED <<beingBuilt, workId, initiator, spoilt>>
  /\ UNCHANGED <<calls, compilers, files, upToDate, buildCanceled,
                 pseudoInitiators, progress, mutexes, working, stopWorker,
                 session, busy>>

\* Fault: the requester is noted although the script is telling its list.
NotedTooLate(t) ==
  /\ At(t, "progress")
  /\ Top(t).s \in beingBuilt
  /\ pseudoInitiators' = [pseudoInitiators EXCEPT ![Top(t).s] = Append(@, Top(t).for)]
  /\ GoTo(t, "leave")
  /\ UNCHANGED <<calls, compilers, files, flags, workId, initiator, progress,
                 mutexes, workspace>>

(* IsBuildInProgressHandler: who asks for a script that is being built is    *)
(* noted.                                                                    *)
AddBuildPseudoInitiator(t) ==
  /\ At(t, "progress")
  /\ LET s == Top(t).s IN
       /\ doneMutex[s] = None /\ s \in beingBuilt
       /\ pseudoInitiators' = [pseudoInitiators EXCEPT ![s] = Append(@, Top(t).for)]
  /\ GoTo(t, "leave")
  /\ UNCHANGED <<calls, compilers, files, flags, workId, initiator, progress,
                 mutexes, workspace>>

\* Fault: the answer of IsBuildInProgressHandler is not looked at.
StartBuildAgain(t) ==
  /\ At(t, "progress")
  /\ LET s == Top(t).s IN
       /\ doneMutex[s] = None /\ callMutex = None
       /\ SetIsBeingBuiltFor(s, Top(t).for)
       /\ buildCanceled' = buildCanceled \ {s}
       /\ IF Uses[s] = {}
          THEN Enter(t, BuildSelf(s), "leave")
          ELSE stack' = [stack EXCEPT ![t][1] =
                           [@ EXCEPT !.at = "deps", !.todo = Uses[s]]]
       /\ buildDeps' = [buildDeps EXCEPT ![s] = Uses[s]]
       /\ depsFailed' = depsFailed \ {s}
  /\ UNCHANGED <<calls, compilers, files, upToDate, pseudoInitiators,
                 someDepsCompiled, pids, mutexes, workspace>>

(* Otherwise its build starts: ExtractDependencies reads what it uses, under *)
(* s_componentCallMutex; BuildSelf at once if that is nothing; a failure if  *)
(* some of it cannot be resolved; else its dependencies.                     *)
StartBuild(t) ==
  /\ At(t, "progress")
  /\ LET s == Top(t).s IN
       /\ doneMutex[s] = None /\ s \notin beingBuilt /\ callMutex = None
       /\ SetIsBeingBuiltFor(s, Top(t).for)
       /\ buildCanceled' = buildCanceled \ {s}
       /\ IF s \in Unresolvable
          THEN Enter(t, SetBuildCompleted(s, FALSE, None), "unresolved")
          ELSE IF Uses[s] = {}
          THEN Enter(t, BuildSelf(s), "leave")
          ELSE stack' = [stack EXCEPT ![t][1] =
                           [@ EXCEPT !.at = "deps", !.todo = Uses[s]]]
       /\ buildDeps' = [buildDeps EXCEPT ![s] = Uses[s]]
       /\ depsFailed' = IF Uses[s] = {} THEN depsFailed ELSE depsFailed \ {s}
  /\ UNCHANGED <<calls, compilers, files, upToDate, pseudoInitiators,
                 someDepsCompiled, pids, mutexes, workspace>>

(* BuildWithScriptDependencies goes through a copy of the dependencies.      *)
BuildDependency(t) ==
  /\ At(t, "deps")
  /\ \E d \in Top(t).todo :
       stack' = [stack EXCEPT ![t] = <<BuildImpl(d, Top(t).s),
                   [Top(t) EXCEPT !.todo = @ \ {d}]>> \o Tail(@)]
  /\ UNCHANGED <<calls, compilers, files, flags, requests, progress, mutexes,
                 workspace>>

(* BuildImpl returns.  A script that could not be resolved counts as up to   *)
(* date, so that it is not built again in this session.                      *)
LeaveBuild(t) ==
  /\ \/ At(t, "leave") /\ UNCHANGED upToDate
     \/ At(t, "deps") /\ Top(t).todo = {} /\ UNCHANGED upToDate
     \/ At(t, "unresolved") /\ upToDate' = upToDate \cup {Top(t).s}
  /\ buildMutex' = [buildMutex EXCEPT ![Top(t).s] = None]
  /\ Return(t)
  /\ UNCHANGED <<calls, compilers, files, beingBuilt, buildCanceled, requests,
                 progress, doneMutex, compMutex, callMutex, workspace>>
-----------------------------------------------------------------------------
(* BuildSelf: compile if the source is newer than the byte code or if a      *)
(* dependency has been compiled; else the script is done.                    *)
CheckByteCode(t) ==
  /\ At(t, "check")
  /\ LET s == Top(t).s IN
       IF s \in byteCode /\ s \notin someDepsCompiled
       THEN Become(t, SetBuildCompleted(s, TRUE, None))
       ELSE GoTo(t, "launch")
  /\ UNCHANGED <<calls, compilers, files, flags, requests, progress, mutexes,
                 workspace>>

\* Fault: the compiler is launched without its mutex.
LaunchCompilerUnlocked(t) ==
  /\ At(t, "launch")
  /\ compilers' = compilers \cup {Top(t).s}
  /\ GoTo(t, "launched")
  /\ UNCHANGED <<calls, files, flags, requests, progress, mutexes, workspace>>

(* LaunchCompiler, under s_componentCallMutex and the script's compiler       *)
(* mutex: the process runs before its id is known to the script and to its   *)
(* initiator.  A script without a work id (its build has been cleared        *)
(* meanwhile) is compiled in the foreground and nobody is told.              *)
LaunchCompiler(t) ==
  /\ At(t, "launch")
  /\ LET s == Top(t).s IN
       IF workId[s] = None
       THEN /\ Compile(s)
            /\ Return(t) /\ UNCHANGED <<compilers, compMutex, callMutex>>
       ELSE /\ callMutex = None /\ compMutex[s] = None
            /\ compilers' = compilers \cup {s}
            /\ callMutex' = t /\ compMutex' = [compMutex EXCEPT ![s] = t]
            /\ GoTo(t, "launched") /\ UNCHANGED files
  /\ UNCHANGED <<calls, flags, requests, progress, buildMutex, doneMutex, workspace>>

LaunchFails(t) ==
  /\ At(t, "launch")
  /\ LET s == Top(t).s IN
       /\ s \in Faulty /\ workId[s] # None
       /\ callMutex = None /\ compMutex[s] = None
       /\ callMutex' = t /\ compMutex' = [compMutex EXCEPT ![s] = t]
       /\ Enter(t, SetBuildCompleted(s, FALSE, None), "unlock")
  /\ UNCHANGED <<calls, compilers, files, flags, requests, progress, buildMutex,
                 doneMutex, workspace>>

\* Fault: the initiator is told without a test whether there is one.
SetCompilerPidUntested(t) ==
  /\ At(t, "launched")
  /\ LET s == Top(t).s IN
       /\ pids' = [x \in Script \cup {initiator[s]} |->
                     IF x \notin Script THEN {s}
                     ELSE IF x \in {s, initiator[s]} THEN pids[x] \cup {s} ELSE pids[x]]
       /\ compMutex' = [compMutex EXCEPT ![s] = None] /\ callMutex' = None
  /\ Return(t)
  /\ UNCHANGED <<calls, compilers, files, flags, requests, buildDeps, depsFailed,
                 someDepsCompiled, buildMutex, doneMutex, workspace>>

SetCompilerPid(t) ==
  /\ At(t, "launched")
  /\ LET s == Top(t).s IN
       /\ pids' = [x \in Script |->
                     IF x \in {s, initiator[s]} THEN pids[x] \cup {s} ELSE pids[x]]
       /\ compMutex' = [compMutex EXCEPT ![s] = None] /\ callMutex' = None
  /\ Return(t)
  /\ UNCHANGED <<calls, compilers, files, flags, requests, buildDeps, depsFailed,
                 someDepsCompiled, buildMutex, doneMutex, workspace>>

(* The compiler process ends; the thread that reads its output posts the     *)
(* notice.                                                                   *)
CompilerEnds(s) ==
  /\ s \in compilers
  /\ compilers' = compilers \ {s}
  /\ Compile(s)
  /\ Post(CompileFinished(s))
  /\ UNCHANGED <<stack, flags, requests, progress, mutexes, workspace>>
-----------------------------------------------------------------------------
(* SetBuildCompleted, under the script's done mutex: the project that asked  *)
(* is told by a delayed call, then the initiator and the pseudo initiators.  *)
LockDone(t) ==
  /\ At(t, "lock")
  /\ LET s == Top(t).s
         real   == IF initiator[s] = None THEN <<>> ELSE <<<<initiator[s], Top(t).pid>>>>
         pseudo == [i \in DOMAIN pseudoInitiators[s] |-> <<pseudoInitiators[s][i], None>>]
     IN /\ doneMutex[s] = None
        /\ doneMutex' = [doneMutex EXCEPT ![s] = t]
        /\ PostAll(Told(s, workId[s]))
        /\ stack' = [stack EXCEPT ![t][1] = [@ EXCEPT !.at = "tell", !.tell = real \o pseudo]]
  /\ UNCHANGED <<compilers, files, flags, requests, progress, buildMutex,
                 compMutex, callMutex, workspace>>

TellRequester(t) ==
  /\ At(t, "tell") /\ Top(t).tell # <<>>
  /\ LET f == Top(t)
         r == Head(f.tell)[1]
         rest == [f EXCEPT !.tell = Tail(@)]
     IN /\ PostAll(Told(f.s, r))
        /\ stack' = [stack EXCEPT ![t] =
             (IF r \in beingBuilt
              THEN <<SetInitiatedBuildIsCompleted(r, f.s, f.ok, Head(f.tell)[2]), rest>>
              ELSE <<rest>>) \o Tail(@)]
        /\ spoilt' = (spoilt \/ (r \in beingBuilt /\ \E u \in Thread : IsToldBy(u, r)))
  /\ UNCHANGED <<compilers, files, flags, requests, progress, mutexes, working,
                 stopWorker, session, busy>>

BuildIsCompleted(t) ==
  /\ At(t, "tell") /\ Top(t).tell = <<>>
  /\ LET s == Top(t).s IN
       /\ ClearBuildInformation(s)
       /\ upToDate' = IF Top(t).ok THEN upToDate \cup {s} ELSE upToDate \ {s}
       /\ doneMutex' = [doneMutex EXCEPT ![s] = None]
  /\ Return(t)
  /\ UNCHANGED <<calls, compilers, files, buildCanceled, buildMutex, compMutex,
                 callMutex, workspace>>

\* Fault: the compiler of the dependency stays on the list.
EraseDependencyKeepsPid(t) ==
  /\ At(t, "erase")
  /\ LET f == Top(t) IN
       /\ buildDeps' = [buildDeps EXCEPT ![f.s] = @ \ {f.dep}]
       /\ someDepsCompiled' =
            IF f.pid # None THEN someDepsCompiled \cup {f.s} ELSE someDepsCompiled
       /\ depsFailed' = IF f.ok THEN depsFailed ELSE depsFailed \cup {f.s}
  /\ GoTo(t, "last")
  /\ UNCHANGED <<calls, compilers, files, flags, requests, pids, mutexes, workspace>>

(* SetInitiatedBuildIsCompleted takes no mutex of the script it tells: the   *)
(* dependency is removed in one step and the test whether it was the last    *)
(* is another.                                                               *)
EraseDependency(t) ==
  /\ At(t, "erase")
  /\ LET f == Top(t) IN
       /\ buildDeps' = [buildDeps EXCEPT ![f.s] = @ \ {f.dep}]
       /\ pids' = [pids EXCEPT ![f.s] = @ \ {f.pid}]
       /\ someDepsCompiled' =
            IF f.pid # None THEN someDepsCompiled \cup {f.s} ELSE someDepsCompiled
       /\ depsFailed' = IF f.ok THEN depsFailed ELSE depsFailed \cup {f.s}
  /\ GoTo(t, "last")
  /\ UNCHANGED <<calls, compilers, files, flags, requests, mutexes, workspace>>

\* Fault: one dependency too early.
LastButOneDependency(t) ==
  /\ At(t, "last")
  /\ IF Cardinality(buildDeps[Top(t).s]) > 1 THEN UNCHANGED calls ELSE Post(BuildSelfThread(Top(t).s))
  /\ Return(t)
  /\ UNCHANGED <<compilers, files, flags, requests, progress, mutexes, workspace>>

\* Fault: nobody hears of a script whose dependencies failed.
LastDependencySilent(t) ==
  /\ At(t, "last")
  /\ LET s == Top(t).s IN
       IF buildDeps[s] # {} \/ s \in depsFailed
       THEN UNCHANGED calls
       ELSE Post(BuildSelfThread(s))
  /\ Return(t)
  /\ UNCHANGED <<compilers, files, flags, requests, progress, mutexes, workspace>>

\* Fault: the script goes on at once, in the thread that told it.
LastDependencyGoesOn(t) ==
  /\ At(t, "last")
  /\ LET s == Top(t).s IN
       IF buildDeps[s] # {}
       THEN Return(t)
       ELSE IF s \notin depsFailed
       THEN Become(t, BuildSelf(s))
       ELSE Become(t, SetBuildCompleted(s, FALSE, None))
  /\ UNCHANGED <<calls, compilers, files, flags, requests, progress, mutexes, workspace>>

LastDependency(t) ==
  /\ At(t, "last")
  /\ LET s == Top(t).s IN
       IF buildDeps[s] # {}
       THEN Return(t) /\ UNCHANGED calls
       ELSE IF s \notin depsFailed
       THEN Return(t) /\ Post(BuildSelfThread(s))
       ELSE Become(t, SetBuildCompleted(s, FALSE, None)) /\ UNCHANGED calls
  /\ UNCHANGED <<compilers, files, flags, requests, progress, mutexes, workspace>>

(* The end of OnCompileFinished, or of a LaunchCompiler that failed.         *)
UnlockComp(t) ==
  /\ At(t, "unlock")
  /\ compMutex' = [compMutex EXCEPT ![Top(t).s] = None]
  /\ callMutex' = IF callMutex = t THEN None ELSE callMutex
  /\ Return(t)
  /\ UNCHANGED <<calls, compilers, files, flags, requests, progress, buildMutex,
                 doneMutex, workspace>>
-----------------------------------------------------------------------------
(* The thread of the user interface makes the delayed calls in order.        *)
Calling(c) == stack[Gui] = <<>> /\ calls # <<>> /\ Head(calls) = c /\ calls' = Tail(calls)

Waits(w) == working[w] # {} \/ At(w, "start")

\* Fault: the build is over when one script is left.
OverTooEarly(s, w) ==
  LET over == busy /\ s \in working[w] /\ Cardinality(working[w]) <= 2 IN
  /\ stack[Gui] = <<>> /\ calls # <<>> /\ Head(calls) = ResourceWorkCompleted(s, w)
  /\ calls' = Tail(calls) \o (IF over THEN <<WorkCompleted>> ELSE <<>>)
  /\ working' = [working EXCEPT ![w] = @ \ {s}]
  /\ busy' = (busy /\ ~over)
  /\ UNCHANGED <<stack, compilers, files, flags, requests, progress, mutexes,
                 stopWorker, session, spoilt>>

(* OnResourceWorkCompleted of a project: when its last script is done, and   *)
(* then the last project, the workspace's build is over.  Everybody is told  *)
(* so by one more delayed call, which makes the scripts forget that they are *)
(* up to date.                                                               *)
OnResourceWorkCompleted(s, w) ==
  LET over == busy /\ working[w] = {s} /\ \A v \in Worker \ {w} : ~Waits(v) IN
  /\ stack[Gui] = <<>> /\ calls # <<>> /\ Head(calls) = ResourceWorkCompleted(s, w)
  /\ calls' = Tail(calls) \o (IF over THEN <<WorkCompleted>> ELSE <<>>)
  /\ working' = [working EXCEPT ![w] = @ \ {s}]
  /\ busy' = (busy /\ ~over)
  /\ UNCHANGED <<stack, compilers, files, flags, requests, progress, mutexes,
                 stopWorker, session, spoilt>>

OnWorkCompleted ==
  /\ Calling(WorkCompleted)
  /\ upToDate' = {}
  /\ UNCHANGED <<stack, compilers, files, beingBuilt, buildCanceled, requests,
                 progress, mutexes, workspace>>

StartBuildSelfThread(s, p) ==
  /\ Calling(BuildSelfThread(s))
  /\ stack[p] = <<>>
  /\ stack' = [stack EXCEPT ![p] = <<BuildSelf(s)>>]
  /\ UNCHANGED <<compilers, files, flags, requests, progress, mutexes, workspace>>

(* OnCompileFinished waits for LaunchCompiler to have stored the process id; *)
(* a script that has been canceled does not listen.                          *)
OnCompileFinished(s) ==
  /\ Calling(CompileFinished(s))
  /\ IF s \in buildCanceled
     THEN UNCHANGED <<stack, compMutex>>
     ELSE /\ compMutex[s] = None
          /\ compMutex' = [compMutex EXCEPT ![s] = Gui]
          /\ stack' = [stack EXCEPT ![Gui] =
               <<SetBuildCompleted(s, s \in byteCode, s), [at |-> "unlock", s |-> s]>>]
  /\ UNCHANGED <<compilers, files, flags, requests, progress, buildMutex, doneMutex,
                 callMutex, workspace>>

(* The user starts a build of the workspace, having changed some sources.    *)
(* Assumed: the user is slower than the threads of the last build, which     *)
(* have only to return when it is over.  (A project whose last worker is     *)
(* still there gets no other, and its build never ends; and a script that is *)
(* marked up to date by a thread that is late is not built again.)           *)
StartWorking ==
  /\ stack[Gui] = <<>> /\ ~busy /\ session < MaxSessions
  /\ \A t \in Thread : stack[t] = <<>>
  /\ busy' = TRUE /\ session' = session + 1
  /\ upToDate' = {} /\ byteCode' \in SUBSET byteCode
  /\ stack' = [t \in Thread |-> IF t \in Worker THEN <<WorkThread>> ELSE <<>>]
  /\ UNCHANGED <<calls, compilers, newerThan, rejected, beingBuilt, buildCanceled,
                 requests, progress, mutexes, working, stopWorker, spoilt>>
-----------------------------------------------------------------------------
(* CancelWork signals every script and every project, one after the other.   *)
(* Only the last build is canceled: scripts that were being compiled then    *)
(* stay marked as being built, and a build that asks for one never ends.     *)
CancelWork ==
  /\ MayCancel /\ session = MaxSessions /\ busy /\ stack[Gui] = <<>>
  /\ stack' = [stack EXCEPT ![Gui] = <<Cancel(Listeners)>>]
  /\ UNCHANGED <<calls, compilers, files, flags, requests, progress, mutexes,
                 workspace>>

Signals(x) == At(Gui, "cancel") /\ Top(Gui).left # <<>> /\ Head(Top(Gui).left) = x

CancelScript(s) ==
  /\ Signals(s)
  /\ buildCanceled' = buildCanceled \cup {s}
  /\ stack' = [stack EXCEPT ![Gui] =
                 <<Terminate(s), [at |-> "reset", left |-> Tail(Top(Gui).left)]>>]
  /\ UNCHANGED <<calls, compilers, files, beingBuilt, upToDate, requests, progress,
                 mutexes, workspace>>

ResetUpToDate ==
  /\ At(Gui, "reset")
  /\ upToDate' = {}
  /\ GoTo(Gui, "cancel")
  /\ UNCHANGED <<calls, compilers, files, beingBuilt, buildCanceled, requests,
                 progress, mutexes, workspace>>

(* TerminateAllLaunchedCompilers: the compilers of its dependencies, or its  *)
(* own; a build without any is forgotten.                                    *)
TerminateCompilers(t) ==
  /\ At(t, "terminate")
  /\ LET s == Top(t).s
         forget == pids[s] = {} /\ s \in beingBuilt
     IN /\ buildMutex[s] = None
        /\ buildMutex' = [buildMutex EXCEPT ![s] = t]
        /\ stack' = [stack EXCEPT ![t][1] =
             [@ EXCEPT !.at = "terminating",
                       !.todo = IF pids[s] = {} THEN {} ELSE buildDeps[s]]]
        /\ compilers' = IF buildDeps[s] = {} THEN compilers \ pids[s] ELSE compilers
        /\ IF forget
           THEN ClearBuildInformation(s)
           ELSE UNCHANGED <<beingBuilt, requests, progress>>
  /\ UNCHANGED <<calls, files, upToDate, buildCanceled, doneMutex, compMutex,
                 callMutex, workspace>>

TerminateDependency(t) ==
  /\ At(t, "terminating")
  /\ \E d \in Top(t).todo :
       stack' = [stack EXCEPT ![t] = <<Terminate(d),
                   [Top(t) EXCEPT !.todo = @ \ {d}]>> \o Tail(@)]
  /\ UNCHANGED <<calls, compilers, files, flags, requests, progress, mutexes,
                 workspace>>

LeaveTerminate(t) ==
  /\ At(t, "terminating") /\ Top(t).todo = {}
  /\ buildMutex' = [buildMutex EXCEPT ![Top(t).s] = None]
  /\ Return(t)
  /\ UNCHANGED <<calls, compilers, files, flags, requests, progress, doneMutex,
                 compMutex, callMutex, workspace>>

(* A project forgets the scripts it waits for and joins its worker.          *)
CancelProject(w) ==
  /\ Signals(w)
  /\ working' = [working EXCEPT ![w] = {}]
  /\ stopWorker' = IF stack[w] = <<>> THEN stopWorker ELSE stopWorker \cup {w}
  /\ stack' = [stack EXCEPT ![Gui] = <<[at |-> "join", left |-> Tail(Top(Gui).left)]>>]
  /\ UNCHANGED <<calls, compilers, files, flags, requests, progress, mutexes,
                 session, busy, spoilt>>

JoinWorker ==
  /\ At(Gui, "join")
  /\ \A w \in stopWorker : stack[w] = <<>>
  /\ stopWorker' = {}
  /\ GoTo(Gui, "cancel")
  /\ UNCHANGED <<calls, compilers, files, flags, requests, progress, mutexes,
                 working, session, busy, spoilt>>

WorkCanceled ==
  /\ At(Gui, "cancel") /\ Top(Gui).left = <<>>
  /\ busy' = FALSE
  /\ Return(Gui)
  /\ UNCHANGED <<calls, compilers, files, flags, requests, progress, mutexes,
                 working, stopWorker, session, spoilt>>
-----------------------------------------------------------------------------
(* What any thread does inside the functions of a script.                    *)
Build(t) ==
  \/ LockBuild(t) \/ TestUpToDate(t) \/ AddBuildPseudoInitiator(t) \/ StartBuild(t)
  \/ BuildDependency(t) \/ LeaveBuild(t) \/ CheckByteCode(t) \/ LaunchCompiler(t)
  \/ LaunchFails(t) \/ SetCompilerPid(t) \/ LockDone(t) \/ TellRequester(t)
  \/ BuildIsCompleted(t) \/ EraseDependency(t) \/ LastDependency(t) \/ UnlockComp(t)

MakeCall ==
  \/ \E s \in Script : OnCompileFinished(s)
  \/ \E s \in Script, w \in Worker : OnResourceWorkCompleted(s, w)
  \/ \E s \in Script, p \in Pool : StartBuildSelfThread(s, p)
  \/ OnWorkCompleted

CancelStep ==
  \/ \E s \in Script : CancelScript(s)
  \/ \E w \in Worker : CancelProject(w)
  \/ ResetUpToDate \/ JoinWorker \/ WorkCanceled
  \/ TerminateCompilers(Gui) \/ TerminateDependency(Gui) \/ LeaveTerminate(Gui)

Next ==
  \/ \E t \in Thread : Build(t)
  \/ \E w \in Worker : WorkStarts(w) \/ AskNext(w)
  \/ \E s \in Script : CompilerEnds(s)
  \/ MakeCall \/ CancelStep \/ StartWorking \/ CancelWork

Spec == Init /\ [][Next]_vars

(* The operating system schedules every thread and every process; the user   *)
(* need not do anything.                                                     *)
FairSpec ==
  /\ Spec
  /\ \A t \in Thread : WF_vars(Build(t))
  /\ \A w \in Worker : WF_vars(WorkStarts(w) \/ AskNext(w))
  /\ \A s \in Script : WF_vars(CompilerEnds(s))
  /\ WF_vars(MakeCall) /\ WF_vars(CancelStep)
-----------------------------------------------------------------------------
(* TypeOK: every variable has the shape the actions rely on.                 *)
WorkFrame    == [at : {"start"}] \cup [at : {"work"}, children : Seq(Script)]
BuildFrame   == [at : {"enter", "test", "progress", "deps", "leave", "unresolved"},
                 s : Script, for : Requester, todo : SUBSET Script]
CompileFrame == [at : {"check", "launch", "launched", "unlock"}, s : Script]
DoneFrame    == [at : {"lock", "tell"}, s : Script, ok : BOOLEAN,
                 pid : Script \cup {None}, tell : Seq(Requester \X (Script \cup {None}))]
ToldFrame    == [at : {"erase", "last"}, s : Script, dep : Script, ok : BOOLEAN,
                 pid : Script \cup {None}]
CancelFrame  == [at : {"terminate", "terminating"}, s : Script, todo : SUBSET Script]
                \cup [at : {"cancel", "reset", "join"}, left : Seq(Script \cup Worker)]
Frame == WorkFrame \cup BuildFrame \cup CompileFrame \cup DoneFrame \cup ToldFrame
         \cup CancelFrame

DelayedCall ==
  [call : {"finished", "self"}, s : Script]
  \cup [call : {"completed"}, s : Script, for : Worker] \cup [call : {"over"}]

TypeOK ==
  /\ stack \in [Thread -> Seq(Frame)] /\ calls \in Seq(DelayedCall)
  /\ {compilers, byteCode, rejected, beingBuilt, upToDate, buildCanceled,
      depsFailed, someDepsCompiled} \subseteq SUBSET Script
  /\ {newerThan, buildDeps, pids} \subseteq [Script -> SUBSET Script]
  /\ workId \in [Script -> Requester \cup {None}]
  /\ initiator \in [Script -> Script \cup {None}]
  /\ pseudoInitiators \in [Script -> Seq(Requester)]
  /\ {buildMutex, doneMutex, compMutex} \subseteq [Script -> Thread \cup {None}]
  /\ callMutex \in Thread \cup {None}
  /\ working \in [Worker -> SUBSET Script] /\ stopWorker \subseteq Worker
  /\ session \in 0..MaxSessions /\ busy \in BOOLEAN /\ spoilt \in BOOLEAN

(* A build goes on that nobody is canceling, and that nothing has spoilt.    *)
Canceling == \E i \in DOMAIN stack[Gui] : stack[Gui][i].at \in {"cancel", "reset", "join"}
Working   == busy /\ ~Canceling
Soundly   == Working /\ ~spoilt

Calls(c) == \E i \in DOMAIN calls : calls[i] = c

(* Will dependency d tell script s when it is done, or is it going to be     *)
(* asked to?                                                                 *)
Owes(d, s) ==
  LET Asks(f)  == /\ f.at \in {"enter", "test", "progress"} /\ f.s = d /\ f.for = s
      Will(f)  == f.at = "deps" /\ f.s = s /\ d \in f.todo
      Tells(f) == /\ f.at = "tell" /\ f.s = d
                  /\ \E i \in DOMAIN f.tell : f.tell[i][1] = s
      Told1(f) == f.at = "erase" /\ f.s = s /\ f.dep = d
  IN \/ d \in beingBuilt /\ initiator[d] = s
     \/ d \in beingBuilt /\ \E i \in DOMAIN pseudoInitiators[d] : pseudoInitiators[d][i] = s
     \/ \E t \in Thread : \E i \in DOMAIN stack[t] :
          \/ Asks(stack[t][i]) \/ Will(stack[t][i])
          \/ Tells(stack[t][i]) \/ Told1(stack[t][i])

(* NoRequestIsLost: however completions and the requests that arrive         *)
(* meanwhile interleave, until they spoil the build, each dependency a       *)
(* script still waits for knows of it (BuildImpl, IsBuildInProgressHandler,  *)
(* SetBuildCompleted).                                                       *)
NoRequestIsLost ==
  Soundly => \A s \in beingBuilt \ Unresolvable : \A d \in buildDeps[s] : Owes(d, s)

(* CompiledAfterDependencies: while a script is compiled, everything it uses *)
(* has byte code newer than its source and is not being compiled, although   *)
(* the dependencies may be shared and asked for again at any time.           *)
CompiledAfterDependencies ==
  Soundly => \A s \in compilers : \A d \in Uses[s] \ Unresolvable :
               d \in byteCode /\ d \notin compilers

(* GoesOnOnce: a script has one continuation at a time: a posted call of     *)
(* BuildSelfThread, a thread in BuildSelf, a compiler, or its notice.  (Two  *)
(* would compile it twice and complete it twice.)  Threads that complete     *)
(* different scripts at the same time do not matter, unless both tell one    *)
(* and the same script of it.                                                *)
Continuations(s) ==
  LET Goes(f) == f.at \in {"check", "launch"} /\ f.s = s IN
  Cardinality({i \in DOMAIN calls : calls[i] = BuildSelfThread(s)})
  + Cardinality({t \in Thread : \E i \in DOMAIN stack[t] : Goes(stack[t][i])})
  + Cardinality(compilers \cap {s})
  + Cardinality({i \in DOMAIN calls : calls[i] = CompileFinished(s)})

GoesOnOnce == Soundly => \A s \in Script : Continuations(s) <= 1

(* FinishedFindsItsCompiler: when the notice that a compiler has ended gets  *)
(* to its script, the script is being built, waits for nothing else and      *)
(* knows exactly that compiler (the assertion of OnCompileFinished), however *)
(* soon the process ends after its launch.                                   *)
FinishedFindsItsCompiler ==
  Soundly => \A s \in Script \ buildCanceled :
    Calls(CompileFinished(s)) /\ compMutex[s] = None =>
       s \in beingBuilt /\ workId[s] # None /\ pids[s] = {s} /\ buildDeps[s] = {}

(* CompilersBelongToDependencies: the compilers a waiting script knows of,   *)
(* which it terminates when it is canceled, are those of dependencies it     *)
(* still waits for (the assertions of TerminateAllLaunchedCompilers and of   *)
(* SetInitiatedBuildIsCompleted).                                            *)
CompilersBelongToDependencies ==
  Soundly => \A s \in beingBuilt \ Unresolvable :
    IF buildDeps[s] = {} THEN pids[s] \subseteq {s} ELSE pids[s] \subseteq buildDeps[s]

(* CompilersAreKnown: what scripts know of compilers, here each of its own,  *)
(* there each of those it waits for, is true when it is used.                *)
CompilersAreKnown == FinishedFindsItsCompiler /\ CompilersBelongToDependencies

(* The scripts the compiler rejects or that use one which cannot be built.   *)
Closed(S) == \A s \in Script : Uses[s] \cap S # {} => s \in S
Broken    == {s \in Script : \A S \in SUBSET Script :
                Faulty \cup Unresolvable \subseteq S /\ Closed(S) => s \in S}

(* ToldIsFinal: once a project has been told that a script is done, and may  *)
(* run it, no compiler writes it in this build, however often it is asked    *)
(* for again (except one that fails, which every request tries again).       *)
ToldIsFinal ==
  Soundly => \A s \in compilers \ Broken : \A w \in Worker :
    s \in ChildrenOf(w) => s \in working[w] \/ At(w, "start")

(* LocksInOrder: a thread waits for a mutex only if it comes after those the *)
(* thread holds, in one order for all threads: build mutexes (the users of   *)
(* a script before it), s_componentCallMutex, compiler mutexes, done mutexes *)
(* (a script before its users); and the thread of the user interface joins a *)
(* worker only without any.  So no threads wait for each other, whatever     *)
(* completions, requests and cancelations meet.  (A script goes on after its *)
(* last dependency by a call "Delayed so as to release any dependency        *)
(* mutexes", SetInitiatedBuildIsCompleted.)                                  *)
Owned(t) ==
  [kind : {"build"}, s : {s \in Script : buildMutex[s] = t}]
  \cup [kind : {"call"}, s : {s \in {None} : callMutex = t}]
  \cup [kind : {"comp"}, s : {s \in Script : compMutex[s] = t}]
  \cup [kind : {"done"}, s : {s \in Script : doneMutex[s] = t}]

Awaited(t) ==
  LET Mutexes(kinds) == [kind : kinds, s : {Top(t).s}] IN
  IF At(t, "enter") \/ At(t, "terminate") THEN Mutexes({"build"})
  ELSE IF At(t, "progress") THEN Mutexes({"done", "call"})
  ELSE IF At(t, "launch") THEN Mutexes({"call", "comp"})
  ELSE IF At(t, "lock") THEN Mutexes({"done"})
  ELSE {}

Level(rank, m) ==
  LET n == Cardinality(Script) IN
  CASE m.kind = "build" -> n - rank[m.s]
    [] m.kind = "call"  -> n
    [] m.kind = "comp"  -> n + 1
    [] m.kind = "done"  -> n + 1 + rank[m.s]

LocksInOrder ==
  /\ \A t \in Thread : \A m \in Awaited(t), held \in Owned(t), rank \in Ranking :
       Level(rank, held) < Level(rank, m)
  /\ At(Gui, "join") => Owned(Gui) = {}

(* BuiltWhenOver: when a build that nobody canceled is over, and nothing has *)
(* spoilt it, every script the projects asked for has byte code newer than   *)
(* its source, unless the compiler rejects it or something it uses.          *)
Asked     == UNION {ChildrenOf(w) : w \in Worker}

BuiltWhenOver ==
  [][busy /\ ~busy' /\ ~Canceling /\ ~spoilt => Asked \ Broken \subseteq byteCode']_vars

(* BuildEnds: a build that is started ends, by itself or canceled, and every *)
(* thread comes to rest, unless the build is spoilt: canceling, which waits  *)
(* for the workers and for the build mutex of every script, never waits for  *)
(* one that waits.                                                           *)
BuildEnds == busy ~> spoilt \/ (~busy /\ \A t \in Thread : stack[t] = <<>>)
=============================================================================
