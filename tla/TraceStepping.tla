---------------------------- MODULE TraceStepping -----------------------------
(***************************************************************************)
(* The trace commands of the debugger backend: step over, step in,        *)
(* selective step in, step out, run to, continue.  The service thread     *)
(* posts a command while the program waits in a break; before every       *)
(* instruction the thread of the program asks the trace command handler   *)
(* whether the command is completed there.  The handler does not look at  *)
(* the call stack: it counts, in callNesting, the calls entered and left  *)
(* since the command was posted, over all virtual machines of the process *)
(* and whether calls end by a return, an exception or an error.           *)
(* A command is posted by several writes without a lock, the first of     *)
(* which already lets the program go on.                                  *)
(***************************************************************************)
EXTENDS Integers, Sequences, FiniteSets

CONSTANTS
    VMs, NoVM,          \* the virtual machines, and the null one
    Code,               \* their instructions: the line of each (0 if it is not
                        \* visible), whether it leads its line, whether it is
                        \* the start of a call
    BreakPoints,        \* the lines with a break point
    MaxDepth,           \* bound on the entries of the call stack
    MaxNesting          \* bound on the calls an error takes below the command

ASSUME NoVMAssumption == NoVM \notin VMs
ASSUME BoundAssumption == MaxDepth \in Nat /\ MaxNesting \in Nat
ASSUME CodeAssumption ==
    Code \in [VMs -> Seq([line : Nat, leads : BOOLEAN, call : BOOLEAN])]

VARIABLES
    stack,                      \* DeltaDebugCallStackInspector, newest entry last
    phase,                      \* of the thread of the program
    pc,                         \* the instruction of the top entry
    cmmd, callNesting, postedBy, done, data,    \* CommandData
    isBreakFromTraceCommand, breakExecutionRequested,
    posting, request,           \* of the service thread: the writes left, the command
    origin,                     \* history: where the command was posted
    torn                        \* history: the program executed an instruction
                                \* before the command was posted whole

commandVars == <<cmmd, callNesting, postedBy, done, data>>
postVars    == <<posting, request>>
vars == <<stack, phase, pc, commandVars, isBreakFromTraceCommand,
          breakExecutionRequested, postVars, origin, torn>>

-----------------------------------------------------------------------------
TraceCommands == {"Step", "StepIn", "SelectiveStepIn", "StepOut", "RunTo"}
Commands == TraceCommands \cup {"Continue", "None"}

Entry(kind, v) == [kind |-> kind, vm |-> v]
Top   == stack[Len(stack)]
AtScript == stack # <<>> /\ Top.kind # "library"
\* Calls from native code: of the host or of a library function.
AtNative == phase = "handle" /\ ~AtScript

\* The entries that callNesting counts: global code is none.
IsCalled(e) == e.kind # "global"
CalledIn(s, from) == Cardinality({i \in from..Len(s) : IsCalled(s[i])})
Calls(s) == CalledIn(s, 1)

Line(v, i)  == Code[v][i].line
\* LinesHolder::IsLeadingInstructionOfLine, of the line of the instruction.
Leads(v, i) == Line(v, i) # 0 /\ Code[v][i].leads

Least(m, n) == IF m < n THEN m ELSE n

\* Where a command was posted: the virtual machine, the entries and the calls on
\* the stack, the fewest entries since, whether an error took global code since.
OriginHere(v, target) ==
    [vm |-> v, depth |-> Len(stack), calls |-> Calls(stack), low |-> Len(stack),
     target |-> target, cut |-> FALSE]

Nowhere == [vm |-> NoVM, depth |-> 0, calls |-> 0, low |-> 0, target |-> 0,
            cut |-> FALSE]
NoRequest == [cmmd |-> "None", vm |-> NoVM, data |-> 0]

Init ==
    /\ stack = <<>> /\ phase = "handle" /\ pc = 0
    /\ cmmd = "None" /\ callNesting = 0 /\ postedBy = NoVM /\ done = FALSE /\ data = 0
    /\ isBreakFromTraceCommand = FALSE /\ breakExecutionRequested = FALSE
    /\ posting = <<>> /\ request = NoRequest
    /\ origin = Nowhere /\ torn = FALSE

-----------------------------------------------------------------------------
(* The service thread posts a command.                                     *)

\* CommandData::Set: the command is visible at once, and the rest is written
\* after it: Set, SetSelectiveStepIn or SetRunTo, SetIsBreakFromTraceCommand.
Post(command, value) ==
    /\ phase = "break" /\ cmmd = "None" /\ posting = <<>>
    /\ cmmd' = command
    /\ posting' = <<"callNesting", "postedBy", "done">>
          \o (IF command \in {"SelectiveStepIn", "RunTo"} THEN <<"data">> ELSE <<>>)
          \o <<"isBreakFromTraceCommand">>
    /\ request' = [cmmd |-> command, vm |-> Top.vm, data |-> value]
    /\ origin' = OriginHere(Top.vm, value)
    /\ UNCHANGED <<stack, phase, pc, callNesting, postedBy, done, data,
                   isBreakFromTraceCommand, breakExecutionRequested, torn>>

Step     == Post("Step", 0)
StepIn   == Post("StepIn", 0)
StepOut  == Post("StepOut", 0)
Continue == Post("Continue", 0)

\* Of the calls that the statement still has to make; the one the program is at
\* already needs a step in only, and so does a call that is not found.
SelectiveStepIn ==
    /\ phase = "break"
    /\ \E target \in DOMAIN Code[Top.vm] :
        /\ Code[Top.vm][target].call
        /\ Line(Top.vm, target) = Line(Top.vm, pc) /\ target > pc
        /\ Post("SelectiveStepIn", target)

RunTo ==
    /\ phase = "break"
    /\ \E i \in DOMAIN Code[Top.vm] :
        Leads(Top.vm, i) /\ Post("RunTo", Line(Top.vm, i))

\* One of the writes.
WriteField ==
    LET is(field) == Head(posting) = field
    IN  /\ posting # <<>>
        /\ callNesting' = IF is("callNesting") THEN 0 ELSE callNesting
        /\ postedBy' = IF is("postedBy") THEN request.vm ELSE postedBy
        /\ done' = IF is("done") THEN FALSE ELSE done
        /\ data' = IF is("data") THEN request.data ELSE data
        /\ isBreakFromTraceCommand' = IF is("isBreakFromTraceCommand")
              THEN request.cmmd # "Continue" ELSE isBreakFromTraceCommand
        /\ posting' = Tail(posting)
        /\ request' = IF Len(posting) = 1 THEN NoRequest ELSE request
        /\ UNCHANGED <<stack, phase, pc, cmmd, breakExecutionRequested, origin, torn>>

\* BreakExecution, when the program is not in a break.
BreakExecution ==
    /\ phase # "break" /\ ~breakExecutionRequested
    /\ breakExecutionRequested' = TRUE
    /\ UNCHANGED <<stack, phase, pc, commandVars, isBreakFromTraceCommand,
                   postVars, origin, torn>>

-----------------------------------------------------------------------------
(* The thread of the program: breaks.                                      *)

\* BreakPointServiceLoop, up to the wait: the tracer is reset.
Stop(marked) ==
    /\ phase' = "break"
    /\ cmmd' = "None" /\ callNesting' = 0 /\ postedBy' = NoVM /\ done' = FALSE
    /\ isBreakFromTraceCommand' = marked
    /\ breakExecutionRequested' = FALSE
    /\ origin' = Nowhere /\ torn' = FALSE
    /\ UNCHANGED <<stack, data, postVars>>

\* BusyWaitForTraceCommand ends as soon as there is a command, posted whole or not.
LeaveBreak ==
    /\ phase = "break" /\ cmmd # "None"
    /\ phase' = "execute"
    /\ UNCHANGED <<stack, pc, commandVars, isBreakFromTraceCommand,
                   breakExecutionRequested, postVars, origin, torn>>

\* Fault: the step does not look where it is.
HandleStepAnywhere(v, i) == Leads(v, i) \/ callNesting < 0
\* Fault: a step does not end when its function does.
HandleStepInFunction(v, i) == v = postedBy /\ callNesting = 0 /\ Leads(v, i)

\* The handlers of the trace commands: is the command completed at instruction i?
HandleStep(v, i) ==
    (v = postedBy /\ callNesting = 0 /\ Leads(v, i)) \/ callNesting < 0

HandleStepIn(v, i) == Leads(v, i) \/ callNesting < 0
HandleSelectiveStepIn(v, i) ==
    i # data /\ ((callNesting = 0 /\ Leads(v, i)) \/ callNesting < 0)
HandleStepOut == callNesting < 0
HandleRunTo(v, i) == data = Line(v, i) /\ postedBy = v /\ Leads(v, i)

\* HandleAnyTraceCommand, before instruction i: at an instruction without a line
\* nothing is done; a selective step in at its target becomes a step in.
HandleAnyTraceCommand(i) ==
    LET v       == Top.vm
        visible == Line(v, i) # 0
        turns   == visible /\ cmmd = "SelectiveStepIn" /\ i = data
        completes ==
            /\ visible
            /\ \/ cmmd = "Step" /\ HandleStep(v, i)
               \/ cmmd = "StepIn" /\ HandleStepIn(v, i)
               \/ cmmd = "SelectiveStepIn" /\ HandleSelectiveStepIn(v, i)
               \/ cmmd = "StepOut" /\ HandleStepOut
               \/ cmmd = "RunTo" /\ HandleRunTo(v, i)
    IN  /\ phase = "handle" /\ AtScript
        /\ pc' = i /\ phase' = "test"
        /\ done' = ((done \/ completes) /\ ~turns)
        /\ IF turns
           THEN /\ cmmd' = "StepIn" /\ callNesting' = 0 /\ postedBy' = v
                /\ origin' = OriginHere(v, 0)
           ELSE UNCHANGED <<cmmd, callNesting, postedBy, origin>>
        /\ UNCHANGED <<stack, data, isBreakFromTraceCommand,
                       breakExecutionRequested, postVars, torn>>

IsBreakExecutionRequested == breakExecutionRequested /\ Leads(Top.vm, pc)
IsTraceCommandCompleted   == done /\ cmmd # "None"

\* IsBreakPointTime, then the break; a condition may be false.
IsBreakPointTime ==
    /\ phase = "test" /\ Line(Top.vm, pc) # 0
    /\ \/ IsBreakExecutionRequested /\ Stop(FALSE)
       \/ /\ ~IsBreakExecutionRequested /\ IsTraceCommandCompleted
          /\ Stop(isBreakFromTraceCommand)
       \/ /\ ~IsBreakExecutionRequested /\ ~IsTraceCommandCompleted
          /\ Leads(Top.vm, pc) /\ Line(Top.vm, pc) \in BreakPoints
          /\ Stop(FALSE)
    /\ UNCHANGED pc

IsNoBreakPointTime ==
    /\ phase = "test"
    /\ Line(Top.vm, pc) # 0 => ~IsBreakExecutionRequested /\ ~IsTraceCommandCompleted
    /\ phase' = "execute"
    /\ UNCHANGED <<stack, pc, commandVars, isBreakFromTraceCommand,
                   breakExecutionRequested, postVars, origin, torn>>

\* OnArtificialBreakPoint: of an assertion, a throw or an error.
OnArtificialBreakPoint ==
    phase = "execute" /\ Stop(FALSE) /\ UNCHANGED pc

-----------------------------------------------------------------------------
(* The thread of the program: instructions and native code.                *)

\* The next instruction is chosen when it is handled.
Executed == /\ phase' = "handle" /\ pc' = 0
            /\ torn' = (torn \/ posting # <<>>)
            /\ UNCHANGED <<cmmd, postedBy, done, data, isBreakFromTraceCommand,
                           breakExecutionRequested, postVars>>

Count(n) == callNesting' = IF isBreakFromTraceCommand THEN callNesting + n ELSE callNesting

Push(e) == /\ Len(stack) < MaxDepth
           /\ stack' = Append(stack, e)
           /\ UNCHANGED origin

\* The entries up to n remain.
Keep(n) == /\ stack' = SubSeq(stack, 1, n)
           /\ origin' = [origin EXCEPT !.low = Least(@, n)]

\* An instruction that calls nothing.
Proceed ==
    phase = "execute" /\ Executed /\ UNCHANGED <<stack, callNesting, origin>>

\* OnCallingProgramFunction: by script code, of any virtual machine, and by native code.
OnCallingProgramFunction(w) ==
    /\ phase = "execute" \/ AtNative
    /\ Push(Entry("function", w)) /\ Count(1) /\ Executed

\* OnCallingLibraryFunction
OnCallingLibraryFunction ==
    phase = "execute" /\ Push(Entry("library", Top.vm)) /\ Count(1) /\ Executed

\* OnStartingExecution, of a program that native code runs.
OnStartingExecution(w) ==
    /\ AtNative /\ \A i \in DOMAIN stack : stack[i].vm # w
    /\ Push(Entry("global", w)) /\ Executed /\ UNCHANGED callNesting

\* Fault: a function returns without a call.
OnReturnFunctionAlways ==
    /\ (phase = "execute" /\ Top.kind = "function") \/ AtNative
    /\ Keep(Len(stack) - 1) /\ Count(-1) /\ Executed

\* OnReturnProgramFunction, OnReturnLibraryFunction
OnReturnFunction ==
    /\ \/ phase = "execute" /\ Top.kind = "function"
       \/ AtNative /\ stack # <<>>
    /\ Keep(Len(stack) - 1) /\ Count(-1) /\ Executed

\* OnEndingExecution
OnEndingExecution ==
    /\ phase = "execute" /\ Top.kind = "global"
    /\ Keep(Len(stack) - 1) /\ Executed /\ UNCHANGED callNesting

\* Fault: the calls an exception leaves are not counted.
OnStackUnWindingUncounted(n) ==
    /\ phase = "execute" \/ (AtNative /\ stack # <<>>)
    /\ Keep(n) /\ Executed /\ UNCHANGED callNesting

\* An exception is caught in entry n, or by the host: DoLocalFuncReturnCode and
\* DoExternFuncReturnCode of the calls above it, OnStackUnWindingGlobalCode.
OnStackUnWinding(n) ==
    /\ phase = "execute" \/ (AtNative /\ stack # <<>>)
    /\ Keep(n) /\ Count(- CalledIn(stack, n + 1)) /\ Executed

\* An error of the newest call takes all entries of its virtual machine, of the
\* ones between, and of the callers up to native code.
Fails(n) ==
    /\ \A i \in 1..n, j \in n + 1..Len(stack) : stack[i].vm # stack[j].vm
    /\ n > 0 => stack[n].kind = "library"

\* OnExecutionError: every entry counts as a call left.
OnExecutionError(n) ==
    /\ phase = "execute" \/ (AtNative /\ stack # <<>>)
    /\ Fails(n) /\ \A m \in n + 1..Len(stack) - 1 : ~Fails(m)
    /\ callNesting - Len(stack) >= - MaxNesting
    /\ stack' = SubSeq(stack, 1, n)
    /\ origin' = [origin EXCEPT
          !.low = Least(@, n),
          !.cut = @ \/ \E i \in n + 1..Len(stack) : stack[i].kind = "global"]
    /\ Count(n - Len(stack)) /\ Executed

-----------------------------------------------------------------------------
ServiceThread == \/ Step \/ StepIn \/ SelectiveStepIn \/ StepOut \/ RunTo \/ Continue
                 \/ WriteField \/ BreakExecution

Breaks == \/ LeaveBreak \/ IsBreakPointTime \/ IsNoBreakPointTime
          \/ OnArtificialBreakPoint
          \/ AtScript /\ \E i \in DOMAIN Code[Top.vm] : HandleAnyTraceCommand(i)

Execution == \/ Proceed \/ OnCallingLibraryFunction \/ OnReturnFunction \/ OnEndingExecution
             \/ \E w \in VMs : OnCallingProgramFunction(w) \/ OnStartingExecution(w)
             \/ \E n \in 0..Len(stack) - 1 : OnStackUnWinding(n) \/ OnExecutionError(n)

Next == ServiceThread \/ Breaks \/ Execution

Spec == Init /\ [][Next]_vars

-----------------------------------------------------------------------------
(* Properties.                                                             *)

Entries == [kind : {"global", "function", "library"}, vm : VMs]

\* The variables have their types.
TypeOK ==
    /\ stack \in Seq(Entries)
    /\ phase \in {"handle", "test", "execute", "break"}
    /\ phase # "handle" => AtScript
    /\ pc \in Nat
    /\ cmmd \in Commands /\ callNesting \in Int /\ postedBy \in VMs \cup {NoVM}
    /\ done \in BOOLEAN /\ data \in Nat
    /\ isBreakFromTraceCommand \in BOOLEAN /\ breakExecutionRequested \in BOOLEAN
    /\ torn \in BOOLEAN
    /\ posting \in Seq({"callNesting", "postedBy", "done", "data",
                        "isBreakFromTraceCommand"})
    /\ request \in [cmmd : Commands, vm : VMs \cup {NoVM}, data : Nat]
    /\ origin \in [vm : VMs \cup {NoVM}, depth : Nat, calls : Nat, low : Nat,
                   target : Nat, cut : BOOLEAN]

\* A trace command is under way that was posted whole before the program executed
\* an instruction; whatever became of earlier commands.
Traced == cmmd \in TraceCommands /\ posting = <<>> /\ ~torn

\* callNesting is the number of calls on the stack more, or less, than where the
\* command was posted, whatever virtual machines called each other and however
\* calls ended; unless an error took global code, which was never counted.
NestingCountsCalls ==
    Traced /\ ~origin.cut => callNesting = Calls(stack) - origin.calls

\* DASSERT(IsBreakFromTraceCommand()) of WeShouldBreakFromTraceCommand: a break
\* that completes a trace command is marked as one, whenever the program goes on.
TraceBreaksAreMarked ==
    /\ phase = "test" /\ Line(Top.vm, pc) # 0
    /\ ~IsBreakExecutionRequested /\ IsTraceCommandCompleted
    => isBreakFromTraceCommand

\* The entry the command was posted in is on top, or one of its callers.
InFunction == Len(stack) = origin.depth /\ origin.low = origin.depth
InCaller   == Len(stack) = origin.low /\ origin.low < origin.depth
LeftFunction == origin.low < origin.depth

IsHandled == phase = "handle" /\ phase' = "test" /\ Traced /\ ~origin.cut

\* A step over never stops in a call that the line makes, a step out never
\* before its function is left, a run to only at its line; a step over that did
\* not leave its function stops in it, at the start of a line.
StopsWhereCommanded ==
    [][IsHandled /\ done' =>
        CASE cmmd \in {"Step", "SelectiveStepIn"} ->
                LeftFunction \/ (InFunction /\ Leads(Top.vm, pc'))
          [] cmmd = "StepIn"  -> LeftFunction \/ Leads(Top.vm, pc')
          [] cmmd = "StepOut" -> LeftFunction
          [] cmmd = "RunTo"   -> /\ Top.vm = origin.vm
                                 /\ Line(Top.vm, pc') = origin.target]_vars

\* No command misses its stop: once the function is left the first visible
\* instruction of a caller, a line of the function itself, the line to run to.
MissesNoStop ==
    [][IsHandled /\ ~done' =>
        /\ cmmd \in {"Step", "StepIn", "StepOut"} /\ InCaller => Line(Top.vm, pc') = 0
        /\ cmmd = "Step" /\ InFunction => ~Leads(Top.vm, pc')
        /\ cmmd = "StepIn" => ~Leads(Top.vm, pc')
        /\ cmmd = "SelectiveStepIn" /\ InCaller /\ pc' # origin.target
              => Line(Top.vm, pc') = 0
        /\ cmmd = "RunTo" /\ Top.vm = origin.vm /\ Leads(Top.vm, pc')
              => Line(Top.vm, pc') # origin.target]_vars
=============================================================================
