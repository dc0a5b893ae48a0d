# Delta: models of the debugger backend, exceptions, collector, delayed calls and builds

TLA+ models of four parts of the Delta language's run-time system (debugger
backend, trace commands, exception handling, garbage collector) and of two of its
IDE (delayed calls, project builds), the TLC configurations that check them and
TLAPS proofs about all six.  All paths below are relative to `src/`;
`PROJECT.json` ("map") has the lines each definition stands for, so a change of
the code can be followed into the models.

    tlc -workers 2 -config DebugServer_faults.cfg DebugServer
    tlapm DebugServer_proofs.tla

Contents: 1 inventory, 2 plan, 3 DebugServer and TraceStepping,
4 ExceptionHandling and Collector, 5 DelayedCaller and ScriptBuild, 6 runs,
7 proofs, 8 what the code does differently from what it says, 9 what is not
modelled.

## 1. Inventory

The repository holds the Delta language (`Tools/Delta`: compiler, virtual
machine, debugger backend and frontends, libraries), the Sparrow IDE written
around it (`IDE`, `Components`, `Base`, editor and layout tools) and the Talkie
application with a Chord overlay (`Addons`).  Most of it is sequential: a
compiler, an interpreter of instructions on values, user interface code.  The
protocol logic, where several actors or several stacks have to agree, is in the
parts marked * below, which this project models, and in the break point lists, the
packet links and the Chord overlay, which the plan has left.

| component | state | operations | what is hard, and what makes it correct |
|---|---|---|---|
| * debug server (`Tools/Delta/DebugServer`) | client link, `insideBreakPoint`, two threads, two mutexes | accept a client, receive its break points, set and reset the callbacks, read and dispatch requests, report stops, close, clean up | three threads; a client lost at any step; threads that start each other. A request acts on a program that is really stopped; the program leaves a stop once, with the command it was given; a lost client stops nothing |
| * break controller and messenger (`DeltaVirtualMachineDebugExtensions`) | `inBreakPoint`, `breakExecutionRequested`, `isBreakFromTraceCommand`, the callbacks | decide whether to break, service loop, evaluate conditions, notify | runs on the program's thread, written from the service thread, mostly without locks |
| * trace commands (same library) | command, its target, nesting counter, completion flag | post, complete, busy-wait | stored by one thread while another polls it; one counter of calls over all virtual machines, across exceptions and errors. A command stops the program where it says and misses no such place |
| break point lists (`DebugBreakPointHolder`, server and client copies) | a set of break points on each side | add, remove, enable, change condition, transfer | the two copies must agree after a change in a run and after a second client |
| debug client (`DebugClient`) | link, outstanding request | connect, request, dispatch reports | blocks for the reply of a request while reports arrive |
| packet links (`SocketLib`) | partial packet | send, receive, test for data | length prefix and payload arrive in pieces |
| * exception handling (`DeltaVirtualMachine`: `DeltaExceptionHandling`, `Execute`, `CallTracesAndCallInformation`) | stack of call contexts with trap blocks, two unwinding flags, stack of call traces, errors and passports per virtual machine | enter and leave calls and loops, try, trap, throw, native try, unwind, fail, reset | several virtual machines share the stacks and re-enter each other through C++ calls; the stacks are unwound separately and have to agree |
| * calls between script, library and virtual machines (`Func`, `DeltaRuntimeError`) | saved program counters | call, return, error of the callee | an error or an exception crosses them all |
| * delayed collection (`DeltaCollectableContainer`, `ContainerDelayedCollector`, `DeltaTable`) | referrers of each container, dying states, two lists, delegates and delegators | count, search, destroy, commit | garbage cycles are found by a search at every dropped reference; dropping the fields of what dies makes more garbage inside the first collection. Nothing reachable is collected, nothing unreachable stays, nothing freed is touched |
| * delayed calls (`Base/Timers/DelayedCaller`) | list of calls, a flag, pending events | post, cancel, call | any thread posts; the functions called post, throw, and open dialogs whose event loop calls on. Every call is made once and in order, and none waits for an event nobody sends |
| * project builder (`Components/ProjectManager/ScriptBuild`, `VirtualContainer`) | per script: being built, up to date, remaining dependencies, initiator and pseudo initiators, compiler processes | build, build dependencies, compile, complete, cancel | worker threads, threads per compilation and delayed calls complete the dependencies of one script at the same time; a cancelation in the middle. Each script is compiled once, after its dependencies, and everyone who asked is told |
| Chord overlay (`Addons/Talkie/Chord`) | successor, predecessor, fingers | join, stabilise, notify, look up | peers join and leave while others do |
| call stack inspector, watches, expression evaluator | a mirror of the call stack | inspect a stopped program | read only; safe if the debug server only lets requests in at a stop |
| instructions and values | operands, tables, strings | about a hundred instructions | sequential data |
| dynamic debug loading, facades | library handles | load, forward | none |
| threads, mutexes, sockets (`UtilLib`) | OS handles | start, wait, lock | used by the debug server and modelled where it does |
| standard library, loaders, readers | per function | script-callable functions | `vmrun` re-enters the virtual machine; the rest is data |
| compiler, syntax tree, aspect compiler | trees, symbol tables | translate | sequential |
| console debugger | a debug client | text front end | none of its own |
| DebugLib | blocks of memory | allocate, check | a memory manager for debug builds |
| extra libraries (wx, XML, JSON, CORBA, AOP) | wrapped objects | bindings | largely generated |
| Talkie directory, friends, chat | lists | request and reply | user interface code |
| IDE core, other components and base libraries, editor, find/replace, i-views, DMSL | windows, projects, properties | user commands | the thread of the user interface; what other threads do reaches it as delayed calls |

How the starred parts interact.  The debugged program runs on its own thread.
Every instruction that begins a line calls `OnExecuteCheckBreakPoints`; the
break controller decides and, at a break, enters `BreakPointServiceLoop`: it
calls the server's callbacks through the messenger (which keeps its mutex while
a callback runs), the callbacks send packets over the client link (under the
client link mutex), and the program then polls the trace command until another
thread has stored one.  That other thread is the server's service thread: it
reads a request, looks at `insideBreakPoint` (set by the callback on the
program's thread) and stores the command.  When the client is lost it takes the
callbacks down, releases the program and starts the connection thread, which
accepts the next client, sets the callbacks again and starts the service thread.
Exceptions and errors are handled on the program's thread below all this: each
call, library call, execution loop and native try block has an entry in the
exception handler's stack, each call one in the call traces, and each loop,
library function and native block is a C++ call that must itself return.

In the IDE, a build runs on worker threads and compiler processes; what they
have to tell the user interface, and the next step of a script whose dependencies
are built, go through `DelayedCaller`, as do menu commands and notices of changed
files.

The hazards this gives rise to are listed in `PROJECT.json` ("hazards") at the
line where each bites, with the properties that would catch it.

## 2. Plan

Done:

1. `BreakSession`, the promise of the debugger backend, and `DebugServer`, its
   three threads; `DebugServerClaims`; `DebugServer_proofs`.
2. `ThrowSemantics`, the promise of a throw and of an error, and
   `ExceptionHandling`.
3. `CallQueue`, the promise of a delayed call, and `DelayedCaller`;
   `DelayedCaller_proofs`.
4. `ScriptBuild`: the build of a graph of scripts;
   `ScriptBuild_proofs` (types, the order of the mutexes);
   `ScriptBuildInvariant` (the inductive invariant),
   `ScriptBuildInvariant_proofs` (requests are kept, scripts go on once) and
   `ScriptBuildCompilers_proofs` (what is known of compilers, what stays built).
5. `Collector`: counting, searching, destroying and freeing; `CollectorClaims`,
   `Collector_proofs`.
6. `TraceStepping`: the trace commands and their nesting counter, over calls,
   exceptions and errors; `TraceStepping_proofs`.
7. `ExceptionHandling_proofs` (lemmas about stacks and their matchings, the inductive
   invariant, one lemma per action, every safety property that the runs check, the
   refinement of `ThrowSemantics`).

Left, in this order:

8. `BreakPointSync`: the lists of the client and of the server, `ReceiveAllBreakPoints`
   (`DebugServer.cpp:139`), `PostAllBreakoints` (`DebugClient.cpp:133`), changes
   during a run and a second client whose list is merged into the first one's.
   Abstract specification: when no message is on its way the two lists agree.
9. Extension of `ExceptionHandling` with the destruction of a running virtual
   machine (`RemoveAllMyCallTraces`) and stack overflow at a call.
10. `PacketLink`: framing over a byte stream that arrives in pieces, implementing
   the FIFO that `DebugServer` takes for granted.
11. `ChordRing`: join, stabilisation and lookup.

## 3. DebugServer and TraceStepping

### DebugServer

Modules: `BreakSession` (abstract), `DebugServer` (detailed, with the mapping
`Session == INSTANCE BreakSession`), `DebugServerClaims` (what two comments say
and the code does not do), `DebugServer_proofs`.

#### State

| variables | code |
|---|---|
| `vmPc`, `vmMsg` | where the program's thread is in `OnExecuteCheckBreakPoints`, `BreakPointServiceLoop`, `CloseClientConnection` or `CleanUp`; which message of a stop it sends (0: the report of a condition that cannot be evaluated) |
| `inBreakPoint`, `breakExecutionRequested`, `isBreakFromTraceCommand` | `DeltaDebugExecutionBreakController` |
| `cmmd`, `done` | `CommandData` of the trace command handler: the command and whether it has completed |
| `callbacks`, `messengerMutex` | `DeltaDebugMessengerProxy` and its proxy lock |
| `client`, `inbox`, `peer` | the server's link (null, link, or broken because the other side left), the requests in the socket, the client's process |
| `insideBreakPoint`, `debugStoppedByClient` | `DeltaDebugServer` |
| `clientLinkMutex`, `dataCreationMutex` | the server's mutexes |
| `dbgPc`, `dbgIdx`, `request`, `dbgExit` | the service thread, `DebugServiceLoopThread` |
| `conPc`, `conIdx`, `conExit` | the connection thread, `TryEstablishClientConnection` |
| `crashed` | a thread went through a null client link; the model stops there |

#### Actions and atomicity

A step is the code from one access to shared state to the next.  What is done
under a mutex without another shared access in between is one step that needs
the mutex free; where another lock is taken inside (the callbacks under the
messenger's mutex, the restart and the connection under the client link's) the
mutex is a variable and held across steps.  The unlocked accesses are the point
of the model and stay separate steps: `insideBreakPoint` is set on the program's
thread in `DoInfoStopPointAdapter` (`VmAdapter`) before the lock of the send
(`VmSend`); a release tests and clears it (`DbgRelease`) before it stores the
command (`DbgPost`, `DbgFill`) and the flag (`DbgMark`).  `CommandData::Set`
writes the command before the completion flag but nothing orders the two for
another thread, so `DbgPost` also allows the other order.

Data left out: which line has a break point, whether a condition is true, when a
trace command has reached its target (all free choices of the program's thread);
the contents of replies; every inspection is `GetVariables`, every trace command
other than `Continue` is a member of `Traces`.  The program between two
instructions that test for a break is not a step, and neither is an instruction
while no client is connected.

`CONSTANTS` `MayBreak`, `MayDetach`, `MayClose`, `MayEnd` say what the
environment may do: post `BreakExecution`, lose or drop the client, call
`CloseClientConnection`, end the program.

#### Properties

- `Handshake`: the two flags of the two sides and the command agree at every
  interleaving.  A stop is open to requests only while the program is in the
  service loop, past its report, with no command pending; a release that was
  accepted has not been overtaken.
- `InspectionSeesStoppedProgram`: a request that reads stacks and variables
  answers while the program is still stopped.
- `StartsOnlyFinishedThreads`: the two threads that start each other never start
  one still in its function (the starter holds mutexes the other would need).
- `BreakIsReported`, `ReleaseIsHonoured`: liveness; every break is reported,
  every accepted release gets the program out.
- `ImplementsBreakSession`: the program runs, breaks, is reported, is given
  exactly one order, leaves with that order.

#### Fairness

`FairSpec` has weak fairness per thread: the operating system schedules each,
and each of their steps, once enabled, either stays enabled or is one of several
the thread may take.  The program's fairness (`VmProceeds`) leaves out starting a
`CloseClientConnection`, `CleanUp` or an error: a program need not do those.
Nothing is assumed of the client: it need not connect, post or go away.

#### Bounds

`MaxInbox = 1` and one trace command.  The service thread takes one request at a
time and the client may post the next as soon as it is taken, so two releases in
flight at one stop (the case the handshake exists for) happen with an inbox of
one; a longer inbox only lets the client run ahead further.  All trace commands
take the same steps; one besides `Continue` distinguishes "the command of this
release" from another's.  The proofs are for any `Traces` and `MaxInbox`.

### TraceStepping

Modules: `TraceStepping`, `MCTraceStepping` (the code of the instance),
`TraceStepping_proofs`.  `DebugServer` takes the completion of a command for a
free choice; here it is what `DeltaDebugTraceCommandHandler` computes, over every
way calls are entered and left.

| variables | code |
|---|---|
| `stack` | `DeltaDebugCallStackInspector`: an entry per global code, function and library function, newest last, each of a virtual machine |
| `phase`, `pc` | where the program is: asking the handler about an instruction, testing for a break, executing it, or in a break |
| `cmmd`, `callNesting`, `postedBy`, `done`, `data` | `CommandData` |
| `isBreakFromTraceCommand`, `breakExecutionRequested` | `DeltaDebugExecutionBreakController` |
| `posting`, `request` | the writes `CommandData::Set` and its callers have still to make |
| `origin` | no code: where the command was posted, and the fewest entries since |
| `torn` | no code: the program has executed an instruction before the command was posted whole; forgotten at the next break |

One action per command, per write of a command, per answer of the handler and of
the test for a break, and per callback that changes the nesting
(`OnCallingProgramFunction`, `OnReturnFunction`, `OnStackUnWinding`,
`OnExecutionError`, ...).  Which instruction is next is chosen when the handler is
asked: jumps, loops and returns into the middle of a line are all there.
`FUNCENTER` and `FUNCRET` are not visible instructions (`TargetCode.cpp:468`), so a
call pushes its entry at once.  Unwinding takes any number of entries in one
step; whether the condition of a break point is true is a free choice; a client is
attached throughout; expressions evaluated in a break are left out.

`BusyWaitForTraceCommand` (`DeltaDebugTraceCommandHandler.cpp:163`) ends as soon as
there is a command, and the service thread writes the nesting, who posted it, its
target and its mark after that (`DeltaDebugTraceCommandHandler.h:58-83`,
`DeltaDebugExtensions.cpp:439-512`).  Nothing orders the program behind these
writes, so `LeaveBreak` may happen between any two of them, and in all runs and
proofs it does.  A program that then executes an instruction before the last write
is `torn`: the counter is reset behind its back, or its command is compared with
the target of an earlier one.  What such a command does is in the model until it is
stopped again; the properties below speak of all other commands (`Traced`), also of
those for which the program woke early but was overtaken by the writes, and of
those that come after a torn one.

- `NestingCountsCalls`: the counter, which is only ever increased and decreased,
  is the number of calls on the stack more or less than where the command was
  posted.  An error that takes global code breaks this (the code counts it as a
  call when it goes and not when it comes); `origin.cut` marks those commands.
- `TraceBreaksAreMarked`: the assertion of `WeShouldBreakFromTraceCommand`, for all
  breaks.  It does not hold: run `marked`, finding 4 in section 8.
- `StopsWhereCommanded`, `MissesNoStop`: the command completes only where it
  should, and at the first such place, said in terms of the stack instead of the
  counter.

Bounds: two lines in four instructions, two virtual machines (symmetric), four
entries, five calls below the command.  Four entries are a function of A that
calls B through a library function, and global code of B below its functions.
`TornIsShort` (`CONSTRAINT`): a torn command is followed on one entry at most until
the break that forgets it, for nothing is claimed of it.  `marked` needs one virtual
machine and two entries.

## 4. ExceptionHandling and Collector

### ExceptionHandling

Modules: `ThrowSemantics` (abstract), `ExceptionHandling` (detailed, with the
mapping `Semantics`), and for the proofs `ExceptionHandling_proofs`.

#### State

| variables | code |
|---|---|
| `callStack`, `isUnwinding`, `shouldUnwind`, `expectedNativeTrapDisableCalls` | `DeltaExceptionHandling`: call contexts with their trap blocks and the saved program counter each returns to |
| `callTraces` | `DeltaVirtualMachine::callTraces` |
| `pc` | the program counter of each virtual machine: idle, at an instruction, at a trap block, or past the end |
| `error`, `checker` | the error flag of each virtual machine, and whether its loop tests for unwinding (`UNWINDING_CHECK` or the empty one) |
| `cpp` | the C++ calls to return to: execution loops (with the passport: `valid`, and the phase of the loop), library functions, calls of another virtual machine, native try blocks |
| `leftProgram`, `astray` | no code: an exception has left a program; the code has gone astray |

The last element of a stack is the newest (the code keeps `callStack` and
`callTraces` as lists with the newest in front).

#### Actions

One per instruction that touches these stacks, one per step of the execution
loop after an instruction (`LoopFailed`, `LoopGoesOn`, `LoopUnwinds`,
`LoopUnwound`, `LoopExit`), one per thing native code may do.  All run on one
thread; the interleaving is of nested calls, and what native code and script code
do next is a free choice.

- The call instruction up to `FUNCENTER` is one step (nothing in between tests
  for unwinding with an exception in flight, except the argument overflow left
  out below).
- `Throw` is the `THROW` instruction, and every run-time error, which throws its
  message if anything can handle it (`PrimaryError`) and otherwise invalidates
  the virtual machines (`InvalidateExecution`).  The loops of both
  `DELTA_DETERMINE_CALLSTACK_ENTRIES_TO_POP_ON_ERROR` uses are `CallsToPop`.
- `UnwindDeltaCode` is the loop of `Unwind` over script functions and global
  code; nothing else runs between its iterations.
- The closure stack is pushed and popped together with the function contexts and
  is not kept.  `anyErrorInvalidatesAll` keeps its default, false.

#### Where the code goes astray

Nothing the code can do is switched off.  In particular any instruction may follow
a call: the compiler emits `GETRETVAL` after each, but it always optimises
(`CompilerAPI.cpp:281-284`) and `UnusedTempAssignElimination.cpp:148-159` drops it
where the result is not used.  So when an exception has popped the call of a library
function (`DeltaExceptionHandling.cpp:473-488`) and the C++ function has returned,
the loop executes whatever comes next before it tests for the unwinding.  Most
instructions do no harm there: those that neither call nor throw, a call of a
function of the same program (the unwinding pops it), the return of a function that
is not the handler and was not called by native code.  The properties hold through
these, and are proved to.

Some steps after which the stacks no longer agree remain, and the history variables
remember them:

- `astray` is set when a library function, a function of another virtual machine or
  native code is called, a program ends, a trap block is opened or left, the handler's
  function returns, or something else is thrown or fails, while an exception is
  unwound (`Diverts`, `ReturnDiverts`, `Thrown`, `FailureDiverts`); when an error
  occurs after an exception has left a program, for it counts call traces
  (`FailureDiverts`); and when errors are reset before the C++ calls of the failed
  virtual machines have returned (`ResetDiverts`).
- `leftProgram` is set when an exception passes global code, whose call trace
  the code leaves behind.

These steps happen in the run; the properties hold up to and including
the last state before (`OnCourse`), and section 8 says what the code does after
them.  `StacksAgree` stops at `leftProgram` as well; the others do not.

#### Properties

- `StacksAgree`: without loops and native blocks the exception handler's stack
  is the stack of call traces.
- `ControlAgrees`: when nothing is unwound, the C++ calls still to return to are
  those the exception handler has contexts for, in order.
- `FailedMachinesHaveNoCalls`: an error leaves no call of a failed virtual machine.
- `HostFindsNothingLeft`: whatever was thrown, when control is back in the host
  the stack is empty, nothing is unwound and no native try block is awaited.
- `CodeRunsInItsCall`: script code runs only where its own call is on top; if an
  exception is being unwound then, the handler is still below, and the loop tests
  and unwinds right after that instruction.
- `UnwindingIsChecked`: while an exception is unwound every valid loop on the way
  to the innermost native try block tests for it.
- `UnwindingEnds`: every unwinding ends (liveness).
- `ImplementsThrowSemantics`: a throw removes the calls above the innermost
  handler, and no other, at once; an error removes the least number of newest
  calls that separates the failing virtual machines from the others.  The
  detailed handler takes many steps for this, through several loops.  The mapping
  is `FramesThatStay`: the entries that are not loops, and of those, while an
  exception is unwound, the ones up to the innermost handler.

Fairness: `FairSpec` is `WF(Next)`: the one thread runs.  No choice of a program
is fair; a program may loop for ever, but no loop is possible while unwinding.

Bounds: two virtual machines, `MaxTraps = 1`, `MaxDepth = 6` for each of the two
stacks.  A calls B which calls A back takes six entries (a loop and a call each), a
library function that calls back five, so interleaved calls of a failing machine,
which is what `CallsToPop` is about, and an exception through script, library, native
and script code again all happen.  `OnCourse` (`CONSTRAINT`): the steps by which the
code goes astray are taken and checked, what it does afterwards is not followed.

### Collector

Modules: `Collector`, `MCCollector` (symmetry), `CollectorClaims`,
`Collector_proofs`.

| variables | code |
|---|---|
| `phase` | `dyingState` of each container, and whether its memory is in use |
| `refers`, `referrers` | the container a value refers to, and the values a container counts (`DeltaCollectableContainer`) |
| `external` | counts without a value (`IncRefCounter` of native holders) |
| `myDelegates`, `myDelegators` | `DeltaTable` |
| `nesting`, `forCollection` | `ContainerDelayedCollector` |
| `work` | the C++ call stack: what the collector has still to do |
| `orphans` | no code: delegates whose delegator was collected |

`Collect` makes the first call of `work`; a call that makes others puts them in
front.  Instructions (`New`, `Copy`, `GetInto`, `DoExitBlock`, `Delegate`, ...) run
when it is empty.  The search for what reaches a container
(`IsReferencable`, with its list of the visited) and the marking of what dies with
it are one set each, `Above` and `Garbage`.

Assumed: a value refers to one container (a function value also refers to its
closure); a value of C++ code lives within one instruction, as `temp2` of
`t = t.x` (`Table.cpp:1000-1006`), and what is held longer is an external count.
Chosen freely where the code's order depends on addresses: which of the garbage is
destroyed next (the root goes first) and which field is dropped next.  A dropped
value is undefined before the nested call and not after it, which nothing in the
nested call reads.  Freeing the collected is one step.  Left out: the forced
collection at the end of the program.

- `CountersAgree`: the counted referrers are the values that refer, at every step
  between two nested calls, and delegates and delegators are each other's inverse.
- `ReachableIsAlive`: nothing that the program can reach is collected.
- `NothingFreedIsUsed`: no call still to be made touches freed memory.
- `NoGarbageLeft`: when an instruction is over, what cannot be reached has been
  freed (cycles included), except delegates that lost their delegator (finding 3).
- `DiesInOrder`: memory is freed only after its container was destroyed, and only
  when the outermost collection ends.

Bounds: three containers with a field each, two variables and a value of C++ code,
one external count, two delegations: cycles of one, two and three containers, a
cycle hanging from a delegator, and collections nested in collections.

## 5. DelayedCaller and ScriptBuild

### DelayedCaller

Modules: `CallQueue` (abstract), `DelayedCaller` (detailed, with the mapping
`Queue`), `DelayedCaller_proofs`.

#### State

| variable | code |
|---|---|
| `list`, `duringCall` | `m_callbackList`, `m_duringCall` |
| `events` | `EVENT_CALL`s in the event queue of wxWidgets (external) |
| `gui` | the activations of `onCallExpired`, each with the block it is before, the rest of `current` and the function it is in |
| `late` | no code: the calls posted after the test of the list and before `m_duringCall` is cleared |

#### Actions

Each block under `m_mutex` is one step, so the mutex is not a variable; taking an
event is one step with the first block, as a post between the two is no different
from one before.  A function that is called may return, throw, post, cancel, or
open a dialog: then the event loop of the dialog takes an event and another
activation begins inside the first.  Any thread may post between any two steps.

#### Properties

- `NoCallStranded`: a call in the list that was posted in time has an event
  pending or the outermost activation's test ahead.  A call posted between that
  test and the clearing of the flag has neither: this is what the code does, and
  such a call waits until somebody posts another.  The user interface's own code
  never runs there; the worker threads and the threads of the compilers do.
- `ActivationsNest` (proved, not in a run): an activation below another is inside
  a function.  The flag that an inner activation clears under an outer one is no
  harm: a post that finds it off adds an event.
- `EveryCallEnds`: a call posted in time is called, dropped with a batch that
  fails, or canceled (liveness).
- `ImplementsCallQueue`: without dialogs calls start in posting order, each once.
  A dialog calls newer functions while the rest of the batch waits; in the queue
  of the outermost activation those count as called off, and the rest keep order.

Fairness: `FairSpec` has the main event loop take its events and each activation
proceed; a function that is called returns or throws.  For an outer activation
this is strong fairness: its dialog is closed in the end although the dialog's
event loop keeps calling other functions.

Bounds: three calls (one running, one posted in time, one late), two activations,
`MaxEvents = 3` events before a post has to wait.  The proofs are for any.

### ScriptBuild

Modules: `ScriptBuild`, `MCScriptBuild` (the graphs of the instances),
`ScriptBuildInvariant`, `ScriptBuild_proofs`, `ScriptBuildInvariant_proofs`,
`ScriptBuildCompilers_proofs`.  The
delayed calls are `calls`, a queue, as `ImplementsCallQueue` has it.

| variables | code |
|---|---|
| `stack` | the C++ call stack of each thread: workers, threads of `BuildSelfThread`, user interface |
| `calls` | the delayed calls: a compiler has ended, go on with a script, a script is done for a project, all is over |
| `compilers`, `byteCode`, `newerThan`, `rejected` | the compiler processes and what they wrote |
| `beingBuilt`, `upToDate`, `buildCanceled`, `workId`, `initiator`, `pseudoInitiators`, `buildDeps`, `depsFailed`, `someDepsCompiled`, `pids` | the members of `Script` |
| `buildMutex`, `doneMutex`, `compMutex` | its three mutexes |
| `callMutex` | `s_componentCallMutex`, one for all scripts |
| `working`, `stopWorker` | `m_workingChildren`, `m_stopWorker` of a project (`VirtualContainer`) |
| `session`, `busy` | builds started; the workspace has a root working resource |

One action per step from one access to shared state to the next, named after the
function it is in; what runs under a mutex of the script without a call in between
is one step.  `BuildImpl` keeps the build mutex over its calls, so that is a
variable and deadlock is possible; the members it reads without it (`m_upToDate`) or that
others write without it (`SetInitiatedBuildIsCompleted` takes no mutex of the
script it tells) are separate steps.

Any number of threads complete scripts at the same time: `SetBuildCompleted`
takes the mutex of its own script only (`ScriptBuild.cpp:1408-1410`), and
`SetInitiatedBuildIsCompleted`, which it calls for each requester, none.  Two things
spoil a build, and `spoilt` (no code) remembers that one of them has happened:

- two threads are in `SetInitiatedBuildIsCompleted` of one and the same script
  (`IsToldBy`): they change its `m_buildDeps` and `m_allBuildPids`, a set and a list, at
  the same time, and both may find that theirs was the last dependency
  (`ScriptBuild.cpp:1522`, 1536);
- a script is found up to date while it is being built, and the assertion
  `!m_beingBuilt` of `SetIsBeingBuilt` fails (1356).

Both happen in run `build`.  The first is a data race, the second stops a debug
build; what a release build does after them is in section 8, and the
properties, which hold up to that step, promise nothing after it (`Soundly`).
The promises are about everything else that overlaps: completions of
different scripts on different threads, the same dependency told to several
scripts, requests that arrive while a script completes.

Assumed, each because the code goes wrong without it (section 8):

- the user starts a build when the threads of the last one have returned;
- only the last build of a run is canceled.

Left out: `m_buildDepsMutex` (held over `BuildWithUsingDependencies` only, inside the
build mutex of the same script), the build log, aspect transformations, debug builds, failures of
directories and copies, changes of settings.  The notices of a project and of the
workspace that the last script is done are one delayed call.

- `NoRequestIsLost`: each dependency a script still waits for knows of it, however
  completions and requests interleave.
- `CompiledAfterDependencies`, `GoesOnOnce`: a script is compiled after what it uses
  and has one continuation at a time.
- `CompilersAreKnown`: the end of a compiler finds what `LaunchCompiler` left, however
  soon it comes, and the list of compilers to terminate on cancelation is in step
  with the dependencies.
- `ToldIsFinal`: what a project has been told is done is not compiled again (what
  cannot be built is tried again by every request).
- `LocksInOrder`: a thread waits for a mutex only if it comes, in one order for all
  threads, after those the thread holds: build mutexes (of a script before those of
  what it uses), `s_componentCallMutex`, compiler mutexes, done mutexes (of a script
  before those of its users); and the user interface joins workers without any.  The
  order of the scripts is any ranking that witnesses that there are no cycles.
- `BuiltWhenOver`: when a build is over all that can be built is.
- `BuildEnds` (liveness): every build that is not spoilt ends and every thread comes
  to rest, canceled or not.

Fairness: `FairSpec` has weak fairness of every thread and of every compiler
process; the user need not start or cancel anything.

Bounds: `build` has two projects, `app` -> `lib` -> `core`, `app` -> `core`, and
`tool` -> `core` which has a dependency that cannot be resolved; `lib`, which has a
dependency, and `core` are asked for by three each; any subset of the sources is newer.  `sessions` has two
builds of two scripts that share one dependency, one of which also uses a script
the compiler rejects.  Two threads of `BuildSelfThread` at a time in `build`, one
in `sessions`.  Nobody cancels in `build`, the second build may be canceled at any
moment in `sessions`.  `Unspoilt` (`CONSTRAINT`): the steps that spoil a build are taken
and checked, what follows them is not.

## 6. Runs

| run | what it asks | states | what it shows |
|---|---|---|---|
| `session` | a client that stays | 61,522 | breaks are reported, releases honoured, and the three threads never deadlock |
| `faults` | clients come and go, `CloseClientConnection`, `CleanUp` at any time | 224,066 | the handshake, the thread alternation and the refinement of `BreakSession` |
| `stepping` | every trace command over two virtual machines, exceptions and errors, a program that wakes in the middle of a post | STEPPING | the counter counts calls, commands stop where they should and nowhere before |
| `exceptions` | handled and unhandled throws through everything, errors, resets, any instruction after an unwound library function | EXCEPTIONS | until the code goes astray the three stacks agree, throws and errors take exactly the calls they should, the unwinding is tested for everywhere, ends, and leaves nothing |
| `tables` | every graph of three tables | 745,717 | what is reachable lives, the rest is freed, in order and not touched after |
| `calls` | posts from any thread, failing calls and dialogs | 10,985 | no call posted in time is stranded, every one ends, none is out of order |
| `build` | two projects, shared scripts, overlapping completions | BUILD | until the build is spoilt no request is lost and a script is compiled once and after what it uses |
| `sessions` | two builds, a rejected script, cancelation of the second at any moment | SESSIONS | mutexes are taken in order; every build ends and leaves what can be built built |
| `release`, `replace` | comments of the debug server | | violated; findings 1 and 2 |
| `delegates` | a comment of the collector | | violated; finding 3 |
| `marked` | an assertion of the break controller | | violated; finding 4 |

Deadlock is checked in `session`, `tables`, `exceptions` and `calls`.  `faults` and the claims about `DebugServer` do not check it: a
program may end there, the model stops when a thread goes through the null link,
and finding 2 is itself a deadlock.  `stepping` and `marked` do not (a model at its bounds may
stop) and neither do the runs of `ScriptBuild` (the user need not start another
build): `BuildEnds` says there that nothing waits for ever.

Each property of a passing run has a mutant: an operator in the module, marked
"Fault:", that changes a definition the way a plausible bug would (a dropped
guard, a missing reset, a swapped order), under which TLC finds the property
violated.

Three runs do not follow some states (`CONSTRAINT`s `TornIsShort`, `OnCourse` and
`Unspoilt`, sections 3 to 5): those after a step of which a history variable says that
nothing is promised any more.  The step itself and the state after it are checked.

## 7. Proofs

`DebugServer_proofs` proves, for every set of trace commands, every socket
capacity and every combination of switches:

| theorem | statement |
|---|---|
| `Invariance` | `Spec => []IInv` |
| `TypeCorrect` | `Spec => []TypeOK` |
| `HandshakeHolds` | `Spec => []Handshake` |
| `InspectionSafe` | `Spec => []InspectionSeesStoppedProgram` |
| `ThreadsStartSafely` | `Spec => []StartsOnlyFinishedThreads` |
| `Refinement` | `Spec => ImplementsBreakSession` |

Assumptions: `TracesAssumption` (a trace command is neither `Continue` nor the
absence of one), `MaxInboxAssumption`, `SwitchAssumption`; TLC evaluates them in
every run.

`IInv == TypeOK /\ Handshake /\ ServiceInOrder /\ ThreadsAlternate /\ ReplyInside`.
None of the properties is inductive alone:

- `TypeOK` needs `Handshake`: the command stored by `DbgPost` is the request, and
  that the request is a release there is a conjunct of `Handshake`.
- `InspectionSeesStoppedProgram` follows from `ReplyInside` (the service thread,
  the only one to clear `insideBreakPoint`, is busy with the reply) and from
  `Handshake` (where the program is while the flag is set).
- `StartsOnlyFinishedThreads` follows from `ThreadsAlternate`: at most one of
  the two threads is in its function, which in turn needs the data creation mutex
  to keep `CleanUp` away from a thread being started.
- `ServiceInOrder` ties `vmMsg` to `vmPc` and says that the program leaves with a
  command; the refinement needs it for `Leave`.

The inductive step has one lemma per thread and conjunct (`VmFlags`,
`DbgHandshake`, `ConThreads`, ...) with one case per action.  `Refinement` has
one lemma per thread: under `IInv` each action is one of `Break`, `Report`,
`Release`, `Leave`, or leaves `Product` and `Order` alone.

`DelayedCaller_proofs` proves, for every set of calls, every depth of dialogs
and every bound on the events:

| theorem | statement |
|---|---|
| `TypeCorrect` | `Spec => []TypeOK` |
| `NestingHolds` | `Spec => []ActivationsNest` |
| `PostedInTimeIsSeen` | `Spec => []NoCallStranded` |
| `Refinement` | `MaxNesting = 1 => (Spec => ImplementsCallQueue)` |

Assumptions: `CallsAssumption` (`NoCall` is not a call) and `BoundsAssumption`.
`TypeOK` and `ActivationsNest` are inductive together (`TypeNest`): what the top
of the stack is after a step (`TopChanges`, `TopReturns`) needs the types, and the
types need nothing else.  `NoCallStranded` is inductive given `TypeNest`: a step
inside an inner activation leaves the outermost one inside its function, so its
test stays ahead, and a post that adds no event finds the flag on, hence an
activation there.  The refinement needs that there is one activation at most
(`NestingBounded`) and two lemmas about a sequence in two parts (`Ends`, `Parts`).

`TraceStepping_proofs` proves, for every set of virtual machines, every code and
every bound:

| theorem | statement |
|---|---|
| `TypesHold` | `Spec => []TypeOK` |
| `NestingIsCounted` | `Spec => []NestingCountsCalls` |
| `CommandsStopWhereCommanded` | `Spec => StopsWhereCommanded` |
| `CommandsMissNoStop` | `Spec => MissesNoStop` |

Assumptions: `NoVMAssumption`, `BoundAssumption`, `CodeAssumption`.  The program may
leave its break between any two writes of a command.  `IInv` (`InvariantHolds`) has the parts: a command is posted
only in a break (`Posted`) and the handler sees all of it (`Written`, `AtRest`); the
counter counts (`Counted`); a completed command is tested at once (`DoneAtTest`);
global code is only ever pushed above a library function (`Nested`); the lowest
entry since the command was posted is the one it was posted in, or a caller of it
(`Where`).  The argument: the entries up to `origin.low` have not changed, so the
counter is the number of calls above what is left of the stack of the command; and
because the entries above a function start with a call, a counter of zero without
leaving means that the same entry is on top again (`HandlerKnows`).  Lemmas about
counting (`Called`, `CalledTo`) and about pushing and keeping entries
(`NestedPush`, `WhereKeep`, ...) come first, then one lemma per action.

`Collector_proofs` proves, for every set of containers, values and fields, and
every bound:

| theorem | statement |
|---|---|
| `CollectorTypeOK` | `Spec => []TypeOK` |
| `CollectorCountersAgree` | `Spec => []CountersAgree` |
| `CollectorReachableIsAlive` | `Spec => []ReachableIsAlive` |
| `CollectorNothingFreedIsUsed` | `Spec => []NothingFreedIsUsed` |
| `CollectorDiesInOrder` | `Spec => DiesInOrder` |
| `CollectorNoGarbageLeft` | `Spec => []NoGarbageLeft` |

Assumption: `ResidencyAssumption` (stack, C++ code and fields are different
places).  The properties are about containers, but whether they last depends on the
calls that are still to be made, so `IInv` (`Inductive`) is about both:

- `Sound`: the living count exactly who refers to them (`Counted`), roots and the
  living hold only the living (`Rooted`, `Kept`), what is destroyed holds nothing
  and what is freed is held by nothing (`Gone`).
- `Nested`: there is one end for each collection under way, innermost first.  The
  last one is therefore the last call but for those of the instruction.
- `Pending`: each dying container is still to be destroyed, before the end of some
  collection, its fields dropped first; so when the outermost collection ends,
  nothing is dying and all that was collected is destroyed (`NoneDying`).  A call
  that drops or assigns a field finds its container held by a variable that no
  earlier call drops (`Held`), or dying.

The step of the search (`GarbageFacts`, `CollectStep`): what is alive and refers to
garbage is garbage, no root refers to garbage, and a container that was created
but not yet assigned (`Fresh`) is not found; so marking the garbage keeps `Sound`.
Lemmas about sequences come first (`TailKeeps`: the first call is over,
`FrontKeeps`: calls are put in front, `ShrinkKeeps`), then one lemma per call of
the collector and per instruction.  `ReachableIsAlive` is then that the living are
closed under what they hold.

`NoGarbageLeft` is about the end of an instruction; in the middle of a collection
what was cut off is alive until a call finds it.  Its invariant, `NoLeak`, says that
at every step whatever is alive can be reached downwards from an anchor: a variable,
a value of C++ code, an external count, an orphan, a dying container (which still
drops its fields) or a new container that is about to be assigned.  Two lemmas
carry it: `NoneAstrayKeeps` (what stops being an anchor, or being led to, is
itself of no more use or can be reached in another way) and `TestLeak` (the search
upwards is right: if it finds nothing, the container is marked as dying and is an
anchor; if it finds a holder, the containers outside a set that is closed downwards
are closed upwards, so the container is in that set with its holder).  When no call
is left, nothing is dying or to be assigned, and the anchors are the roots and the
orphans.

`ExceptionHandling_proofs` proves, for every set of virtual machines, every depth
of the stacks and every nesting of try blocks:

| theorem | statement |
|---|---|
| `StacksStayInStep` | `Spec => [](OnCourse => IInv)` |
| `TypesAreKept` | `Spec => [](OnCourse => TypeOK)` |
| `StacksAlwaysAgree` | `Spec => []StacksAgree` |
| `ControlAlwaysAgrees` | `Spec => []ControlAgrees` |
| `FailedMachinesLeaveTheStack` | `Spec => []FailedMachinesHaveNoCalls` |
| `HostFindsNothing` | `Spec => []HostFindsNothingLeft` |
| `CodeStaysInItsCall` | `Spec => []CodeRunsInItsCall` |
| `UnwindingIsAlwaysChecked` | `Spec => []UnwindingIsChecked` |
| `ThrowsAreImplemented` | `Spec => ImplementsThrowSemantics` |

Assumptions: `NoVMAssumption`, `BoundAssumption`.  Nothing is assumed of the programs;
each property ends its promise at the step with which the code goes astray
(`OnCourse`, section 4), and `StacksAgree` where an exception leaves a program.

`IInv` says how the three stacks match; no property is inductive, for each is
about two of them when nothing is going on, and every exception and error goes
through states where they disagree.

- `TypeInv`, `CallsNest`, `FramesNest`: what may be below what.  Script code is
  above code or a loop of its own virtual machine, a library function above
  script code, a C++ call of a library or of another machine above a loop.
- `ErrorInv`, `NativeInv`: a C++ call has lost its passport exactly if its virtual
  machine has failed, which then has no entry on `callStack`; the native blocks on
  the stack are counted.
- `MatchInv`: an increasing map takes the C++ calls that are still valid onto the
  entries of `callStack` that are not script code, with the same virtual machine and
  kind.  There are two moments when one side is ahead: a library function that
  throws loses its entry before its C++ call returns (`LibGone`), one that throws
  natively keeps it after (`LibLeft`).  No handler is reached through the C++
  call of a failed machine, or the exception would be unwound by nobody.
- `TraceInv`: an increasing map takes the call traces onto the entries of
  `callStack` that are neither loops nor native code.
- `ControlInv`: what the newest loop finds at each point of its code (`Executes`,
  `Checks`, `Unwound`, `Exits`), as a relation between `isUnwinding`,
  `shouldUnwind`, the program counter and the top of `callStack`; while an exception
  is unwound there is a handler, every loop tests, and outside the loops
  `shouldUnwind` is set.

The maps are existentially quantified, so a step that pushes or pops changes them
at their ends only (`IncreasingPush`, `IncreasingPop`), and the properties, which
number the entries by rank, follow from the uniqueness of such maps
(`IncreasingRank`, `RankMirrors`).  The hard steps are the throw, which cuts
`callStack` at the newest handler or loop (`UnwindCuts`), and the error: the lemmas
`CallsCutApart` and `TracesCutApart` say that the two counts of `CallsToPop`, one on
entries and one on traces, cut both stacks at the same call, and `InStepFailed` that
what remains matches the C++ calls whose passports have not expired.

For the refinement, `FramesThatStay` is shown to be what any increasing enumeration
of the staying entries lists (`ListIsUnique`); pushing, popping, changing and
cutting `callStack` then change the list in the obvious way (`ListPushed`, `ListCut`,
...).  A throw takes the frames above the handler at once (`FramesThrown`): the
entries that later steps take, or that loops pop on the way, are not listed any
more (`FramesUnwound`), so those steps stutter.  An error takes the least
separable set of frames (`FramesFailed`).

`ScriptBuild_proofs` proves, for every finite set of scripts, every relation of use
without a cycle, any projects and threads:

| theorem | statement |
|---|---|
| `ScriptBuildTypeCorrect` | `Spec => []TypeOK` |
| `BuildLocksInOrder` | `Spec => []LocksInOrder` |

Assumption: `BuildAssumption` (scripts, projects and threads are different things,
`Uses` has a ranking, every project has a script).  The order of the mutexes holds in
builds that are spoilt as well.

`TypeOK` is inductive with the types of the frames of all stacks (`Types`); the work is
in the lemmas on sequences of frames.  `LocksInOrder` needs
`InOrder == Types /\ RequestsUse /\ \A rank \in Ranking : Shape(rank)`:

- `RequestsUse`: the initiator and the pseudo initiators of a script use it, and it waits
  only for what it uses; `FrameUses` says the same of the requests, completions and
  terminations that are on a stack.  So completions go up the ranking, requests down.
- `Shape(rank)`: each function on a stack has a depth (`Depth`), and depths grow strictly
  from the outermost function to the innermost.  What a function holds (`Holds`) is not
  above its depth in the order of the mutexes, what it waits for is not below it, and
  every mutex that a thread owns is held by a function on its stack (`Backed`).

The step that is not local is a completion: `SetInitiatedBuildIsCompleted`, at the
depth of the script it tells, is entered from `SetBuildCompleted`, which holds the done
mutex of a script used by it.  When the last dependency has succeeded the script goes
on by a delayed call, not in this stack; when one has failed it is completed in this
stack, which is in order.

`ScriptBuildInvariant_proofs` and `ScriptBuildCompilers_proofs` go on from there:

| theorem | statement |
|---|---|
| `RequestsAreKept` | `Spec => []NoRequestIsLost` |
| `ScriptsGoOnOnce` | `Spec => []GoesOnOnce` |
| `CompilersStayKnown` | `Spec => []CompilersAreKnown` |
| `DependenciesComeFirst` | `Spec => []CompiledAfterDependencies` |
| `WhatIsToldStays` | `Spec => []ToldIsFinal` |
| `AllIsBuiltAtTheEnd` | `Spec => BuiltWhenOver` |

They have no hypotheses besides `BuildAssumption`.  Any number of threads complete
scripts at once, any script may be asked for by any number of others.  What they
promise ends where a build is spoilt (section 5): when two threads tell one
script at the same time or a script is found up to date while it is being built.

None of them is inductive, for a request passes through many hands.
`Invariant` is `InOrder` and, as long as nothing has spoilt the build, `Sane`: who
cancels does nothing else (`CancelsAlone`), and as long as the last build is not over or
canceled (`Live`), what is to be done is in hand (`InHand`):

- `Framed`: a stack is a function that has called others (`Covered`); each holds the
  mutexes of its script and has been called by whom it says (`Structure`); no two
  threads tell one script (`TellsApart`); nobody is on a list twice (`Sounds`).
- `Flags`: a script that is not being built knows of no requester, one that is has a
  work id, which is its initiator or a project.
- `GoingOn`: what makes a script go on is its token: a call of `BuildSelf`,
  `LaunchCompiler` or `SetBuildCompleted` on a stack, the last dependency's notice, a
  running compiler, or one of two delayed calls.  A script has one at most, and has one
  only while it is being built and waits for nothing (`OneToken`, `TokensGoOn`).
  `ScriptsGoOnOnce` counts them.
- `Claimed`: the claim of a requester on a script is still to be made, being made,
  noted by the script, on the list that `SetBuildCompleted` tells, being told, or posted
  to a project.  It is in one of these places only (`OneClaim`), whoever holds it
  waits for the script (`ClaimsExpected`), and while a script waits for another its
  claim is somewhere (`ClaimsKept`), which is `NoRequestIsLost`.
- `ProjectsWait`, `NothingCanceled`: a project that starts waits for nothing yet, and no
  flag of a cancelation is set.

A token is what makes it safe to clear a script (`BuildIsCompleted`), for nobody else
completes it; a claim is what makes it safe to erase a dependency (`EraseDependency`),
for it cannot be told twice.  Each rests on the other: the last dependency is the one
whose claim is told, and it alone creates a token.  A step exchanges a few functions
of one stack for others (`Swap`), so the lemmas `TokenMoves` and `ClaimMoves` reduce what a
step does to these few.  `BuildAssumption` says for this that the children of a project
are different, for they are a tree of components.

`CompilersStayKnown` adds `Compilers` to the invariant (`KnowingInvariant`), which says
of each number in `m_allBuildPids` of a script why it is there:

- its own (`KnowsOwn`): the compiler runs, its notice is posted, or the script is being
  completed with it.  The other way round, a script that is being compiled has the
  number from the moment when `LaunchCompiler` lets the compiler mutex go, and
  `OnCompileFinished` waits for that mutex;
- that of another script (`KnowsOf`): it waits for that script, whose work id it is and
  which knows the number, or is being told by it (the number is on the list that
  `SetBuildCompleted` works off), or is just taking it off its list.

That a script knows the number of no script it has stopped waiting for is where claims
come in: only the work id of a script learns its number, and while the work id's claim
is noted it waits for the script.

The last three theorems add `Done` to it (`DoneInvariant`).  The code keeps no record of
what has been compiled for good in this build: `m_upToDate` is forgotten when the last
build's notice arrives late, and a script whose flag is gone is looked at again.  `Done`
says that there is a set of scripts, `Final`, for which all this is true (`Finality`):

- a script in it has newer byte code, no compiler, and uses nothing outside of it
  (`FinalStays`); what is marked as up to date is in it, or could not be resolved;
- a script that is being built with success has erased only dependencies in it
  (`ErasedFinal`), so one that goes on uses only what is in it (`GoesOnFinal`): that is
  `CompiledAfterDependencies`;
- what is completed, told or erased with success is in it, and with failure is broken
  (`TellsFinal`); and who is told that a compiler ran is not in it yet (`Rebuilds`), so
  `m_someDepsCompiled` is never set for a script in it and it is not compiled again;
- a project waits for each of its scripts that is not in it and not broken, and is
  posted a notice only of what is (`AwaitsRest`).

Beside it, `Prospers` says that only what is broken fails.  `Final` is not a variable: each
lemma picks it for one step (`DoneWith`) and shows that the same set, or the set with the
script that is just found compiled, will do after the step (`DoneStep`).  It grows in two
places, where `BuildSelf` finds nothing to do and where a compiler's notice
arrives.  There nobody may tell the script of a compiler any more (`NobodyTells`), and
in the second place its requester must not be in the set (`RequesterNotFinal`).
A build starts with the empty set, for when no thread is in a function of a script
nothing is being built (`NothingBegun`): each such script is being built for one above
it in the ranking, and a highest one would be built for a project that waits.
`AllIsBuiltAtTheEnd` needs in addition that the only step that ends a build nobody
cancels is the last notice to the last project (`WhoEndsBuild`).

Only model-checked: all liveness, `UnwindingEnds` and `BuildEnds` among it (out of reach
of the prover).  Neither proved nor checked: exception handling
after the code has gone astray, commands that the program has outrun, and builds after
they have been spoilt, except for `TypeOK` and `LocksInOrder`.

## 8. Where the code and what it says differ

With a run:

1. `release`: `DebugServer.cpp:82` says that a stopped program is released when
   its client is lost.  A program that has passed `IsConnected` but not yet
   reported its stop is not: the artificial Go looks at `insideBreakPoint`, finds
   it false, and the program then reports to callbacks that are gone and waits.
2. `replace`: `DebugServer.cpp:86` says that the connection thread is respawned.
   The service thread resets the callbacks (messenger mutex) under the client
   link's mutex, the program sends (client link mutex) under the messenger's:
   they may wait for each other.
3. `delegates`: `DeltaTable.cpp:2206-2207` says that all delegates of a collected
   table are under collection too.  A delegate that only its delegator kept alive
   is taken off its list (2227-2231) without a test whether it can be reached, and
   stays for ever.
4. `marked`: `DeltaDebugExecutionBreakController.cpp:221` asserts
   `IsBreakFromTraceCommand()` of every completed trace command.  `StepIn` sets the
   command first and the mark last (`DeltaDebugExtensions.cpp:449-455`), and the program
   waits for the command only (`DeltaDebugTraceCommandHandler.cpp:163`): it may go on,
   execute an instruction, complete the step and stop before the mark is set.

In a run, after which nothing is promised:

- Trace commands (`torn`).  A program that goes on and executes an instruction before
  the command is posted whole: `Set` resets the nesting after it was counted, so
  that a step over stops in a call or runs on past its function; `SetRunTo` and
  `SetSelectiveStepIn` store the target after the program has compared with that of an
  earlier command; calls made before the mark is set are not counted at all
  (`IsBreakFromTraceCommand` in `DeltaDebugVMCallbacks` guards the counting).
- Exception handling (`astray`).  `Throw` asserts `!IsUnwinding()`
  (`DeltaExceptionHandling.cpp:64`), but an instruction runs after a library function
  was unwound (line 485) and may throw, call a library function, whose native code
  may do anything, or change the trap blocks the unwinding is on its way to.
  An exception that leaves global code pops its call context and not its call trace
  (line 503), against "in accordance to the global call-stack"
  (`DeltaExceptionHandling.h:49`); an error that counts call traces then pops too few
  calls (`leftProgram`).  `Execute.cpp:218` says that expired loops are gracefully
  ignored; `PopExecutionLoop` (line 89) looks at the error flag, not at the passport, and
  pops another call when the flag was reset in between.
- Project builder (`spoilt`).  With `app` using `lib` and `core`, and `lib` using `core`: the
  thread that completes `core` tells `lib`, which is compiled and completed by another
  thread and tells `app`, while the first thread gets to `app` too.  Both are then in
  `SetInitiatedBuildIsCompleted` of `app` (`ScriptBuild.cpp:1511-1550`), erase from
  the same set (1522), and if both erase before either tests (1536) both post
  `BuildSelfThread`, and `app` is compiled and completed twice.  And with `lib` asked
  for by `app` and by both projects: `BuildImpl` reads `m_upToDate` (2394) without the
  done mutex; one that reads it before a build of `lib` is completed, and asks whether it
  is being built after, builds it once more, and one that asks next finds it up to
  date while it is being built.  There the assertion `!m_beingBuilt` of
  `SetIsBeingBuilt` (1356) fails; without assertions it overwrites who asked
  for `lib` and clears what that build waits for, and a request is lost.

Seen while modelling, without a run:

- Debugger backend.  The comment at `DebugServer.cpp:402`, that `CleanUp` need not lock the client link for
  only the service thread uses it (the connection thread accepts, tests and deletes
  the same link and is stopped later); `CleanUp` waits for the connection thread with
  the data creation mutex held that this thread waits for (`DebugServer.cpp:286`);
  `CloseClientConnection` deletes the link under threads that use it
  (`DebugServer.cpp:255`, the uses at 459 and 884; `crashed` marks it); a
  `BreakExecution` that arrives while a condition is evaluated is forgotten
  (`DeltaDebugExecutionBreakController.cpp:333`); `uthread::Start` asserts that the
  thread is not running (`uthreadlib.cpp:82`) where a predecessor may not have left
  its wrapper.
- Trace commands.  A selective step in compares addresses only and may turn into a
  step in at the same address of another activation or virtual machine
  (`DeltaDebugTraceCommandHandler.cpp:103`, "Reached start of target call, so post a
  step in."); after an error that takes global code the nesting is one too low, and
  a step ends at once as if it was traced out; a step at the end of a library
  function's callback stops in the next callback, which the comment at line 83 calls
  the same function.
- Exception handling.  An assertion of `UnwindGlobalCode` on the context below
  (`DeltaExceptionHandling.cpp:508`); `topCallTrace` after `RemoveAllMyCallTraces`; the
  overflow error of a call, posted for the callee while the caller's calls are on top
  (`Func.cpp:139`); `vmrun` reports errors without testing for unwinding
  (`VMRegLib.cpp:640`).
- Delayed calls.  A call posted too late (section 5).
- Project builder (`ScriptBuild.cpp`).  Who is noted as a pseudo initiator, or finds the
  script up to date, is told that nothing was compiled (1437, 2398) and is not compiled
  although what it uses was.  A rejected script that has old, newer byte code counts
  as built, against the comment at 1644.  A build canceled during a compilation
  leaves `m_beingBuilt` set, and the next build waits for ever (977); one canceled
  between the launch and `SetCompilerPid` leaves a compiler nobody knows (1433).  A
  script that cannot be resolved is reported as built to later requesters (1219).
  `VirtualContainer.cpp:212`: a project whose last worker has not returned gets no
  other.

## 9. What is not modelled

Of the modelled parts: the contents of messages and replies and the break point
lists; dynamic code notifications other than as a callback; of the exception
handling, functor objects of library functions called from native code, the
destruction of running virtual machines, stack overflow, `vmrun`'s own error
report; of the collector, forced collection and containers other than tables by
what they add; of the builder, what section 5 leaves out.

Of the repository: everything not starred in section 1, for the reasons given
there and in `PROJECT.json`: sequential data transformations, pure input and
output, user interface code on one thread, generated bindings and third-party
code, which are by far the most of its lines.
