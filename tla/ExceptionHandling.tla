------------------------- MODULE ExceptionHandling --------------------------
(***************************************************************************)
(* Exceptions and run time errors across the virtual machines of one      *)
(* process: the stack of calls with their trap blocks that the exception  *)
(* handler keeps (callStack, DeltaExceptionHandling), the stack of call   *)
(* traces of the virtual machines (callTraces), and the C++ calls that     *)
(* run them (cpp: execution loops, library functions, calls of another    *)
(* virtual machine, native try blocks).  The three must agree although an *)
(* exception unwinds each of them on its own.  All run on one thread; the *)
(* last element of a stack is the newest.                                 *)
(***************************************************************************)
EXTENDS Naturals, SequencesExt

CONSTANTS
    VMs,                \* the virtual machines of the process
    NoVM,               \* the null virtual machine of native code
    MaxDepth,           \* bound on the calls, and on the C++ calls
    MaxTraps            \* bound on the nested try blocks of a call

ASSUME NoVMAssumption == NoVM \notin VMs
ASSUME BoundAssumption == MaxDepth \in Nat /\ MaxTraps \in Nat

VARIABLES
    callStack, isUnwinding, shouldUnwind,
    expectedNativeTrapDisableCalls,
    callTraces,
    pc, error, checker,         \* of each virtual machine
    cpp,
    leftProgram, astray         \* history: see "Where the code goes astray"

exceptionVars == <<callStack, isUnwinding, shouldUnwind>>
vmVars        == <<pc, error, checker>>
history       == <<leftProgram, astray>>
vars == <<exceptionVars, expectedNativeTrapDisableCalls, callTraces, vmVars, cpp, history>>

-----------------------------------------------------------------------------
\* Where the program counter of a virtual machine is: before the first run, at
\* an instruction, at a trap block, at the end of the program.
Counters == {"idle", "code", "trap", "end"}
Contexts == {"InLibraryFunction", "InDeltaFunction", "InDeltaGlobalCode",
             "InNativeCode", "InExecutionLoop"}

Call(context, v, ret) ==
    [context |-> context, vm |-> v, traps |-> 0, ret |-> ret]
Trace(context, v) == [context |-> context, vm |-> v]

LoopFrame(v, saved) ==
    [what |-> "loop", vm |-> v, saved |-> saved, phase |-> "exec", valid |-> TRUE]
LibFrame(v)      == [what |-> "lib", vm |-> v, valid |-> TRUE]
CrossFrame(v, w) == [what |-> "cross", vm |-> v, callee |-> w, valid |-> TRUE]
TryFrame         == [what |-> "try", vm |-> NoVM, valid |-> TRUE]

\* A stack without its n newest elements.
Drop(s, n) == SubSeq(s, 1, Len(s) - n)

IsDeltaCodeContext(call) == call.context \in {"InDeltaFunction", "InDeltaGlobalCode"}
\* Fault: a call of script code handles exceptions without a trap block.
HandlesWithoutTraps(call) ==
    IsDeltaCodeContext(call) \/ call.context = "InNativeCode"

Handles(call) == \/ IsDeltaCodeContext(call) /\ call.traps > 0
                 \/ call.context = "InNativeCode"
Handlers == {i \in 1..Len(callStack) : Handles(callStack[i])}
IsThereAnyTrapBlock == Handlers # {}

Room(n) == Len(callStack) + n <= MaxDepth /\ Len(cpp) < MaxDepth

-----------------------------------------------------------------------------
Init ==
    /\ callStack = <<>> /\ callTraces = <<>> /\ cpp = <<>>
    /\ isUnwinding = FALSE /\ shouldUnwind = FALSE
    /\ expectedNativeTrapDisableCalls = 0
    /\ pc = [v \in VMs |-> "idle"]
    /\ error = [v \in VMs |-> FALSE]
    /\ checker = [v \in VMs |-> FALSE]
    /\ leftProgram = FALSE /\ astray = FALSE

-----------------------------------------------------------------------------
(* Where the code goes astray: nothing below is known to hold after that.  *)

\* An instruction that takes part in calls or trap blocks is run while an
\* exception is unwound.
Diverts == astray' = (astray \/ isUnwinding) /\ UNCHANGED leftProgram

\* A function returns meanwhile: harmless, unless it has the handler or was
\* called by native code.
ReturnDiverts ==
    /\ astray' = (astray \/ (isUnwinding /\ (Last(callStack).traps > 0
                                               \/ Last(callStack).ret = "end")))
    /\ UNCHANGED leftProgram

\* An error looks for its calls among the call traces, of which an exception
\* that left a program has left too many.
FailureDiverts == astray' = (astray \/ isUnwinding \/ leftProgram) /\ UNCHANGED leftProgram

\* Errors are reset while a C++ call of a failed virtual machine is still to
\* return.
ResetDiverts ==
    /\ astray' = (astray \/ \E i \in 1..Len(cpp) : cpp[i].vm # NoVM /\ error[cpp[i].vm])
    /\ UNCHANGED leftProgram

-----------------------------------------------------------------------------
(* Unwinding.                                                              *)

\* Fault: the call trace of the library function is left behind.
UnwindLibraryFunctionUntraced(caller, checkers) ==
    /\ Last(callStack).context = "InLibraryFunction"
    /\ callStack' = Front(callStack)
    /\ pc' = [pc EXCEPT ![caller] = "end",
                        ![Last(callStack).vm] = Last(callStack).ret]
    /\ checker' = checkers
    /\ isUnwinding' = TRUE /\ shouldUnwind' = TRUE
    /\ UNCHANGED callTraces

\* A library function is popped alone; its C++ call has to return first.
UnwindLibraryFunction(caller, checkers) ==
    /\ Last(callStack).context = "InLibraryFunction"
    /\ callStack' = Front(callStack)
    /\ callTraces' = Front(callTraces)
    /\ pc' = [pc EXCEPT ![caller] = "end",
                        ![Last(callStack).vm] = Last(callStack).ret]
    /\ checker' = checkers
    /\ isUnwinding' = TRUE /\ shouldUnwind' = TRUE

\* Fault: the exception is caught but the unwinding is not over.
UnwindDeltaCodeForEver(caller, checkers) ==
    LET v    == Last(callStack).vm
        stop == Max({i \in 1..Len(callStack) :
                        \/ Handles(callStack[i])
                        \/ callStack[i].context = "InExecutionLoop"})
        trapped == callStack[stop].context # "InExecutionLoop"
    IN  /\ IsDeltaCodeContext(Last(callStack))
        /\ callStack' = SubSeq(callStack, 1, stop)
        /\ pc' = [pc EXCEPT ![caller] = "end",
                            ![v] = IF trapped THEN "trap" ELSE "end"]
        /\ checker' = [checkers EXCEPT ![v] = @ /\ ~trapped]
        /\ isUnwinding' = TRUE /\ shouldUnwind' = FALSE
        /\ UNCHANGED callTraces

\* Script functions and global code are popped up to a trap block, where the
\* exception is caught, or up to the execution loop, which has to be left.  The
\* call trace of global code stays.
UnwindDeltaCode(caller, checkers) ==
    LET v         == Last(callStack).vm
        stop      == Max({i \in 1..Len(callStack) :
                             \/ Handles(callStack[i])
                             \/ callStack[i].context = "InExecutionLoop"})
        functions == Cardinality({i \in stop + 1..Len(callStack) :
                                     callStack[i].context = "InDeltaFunction"})
        trapped   == callStack[stop].context # "InExecutionLoop"
        left      == IF functions = 0 THEN "end" ELSE callStack[Len(callStack) - functions + 1].ret
    IN  /\ IsDeltaCodeContext(Last(callStack))
        /\ callStack' = SubSeq(callStack, 1, stop)
        /\ callTraces' = Drop(callTraces, functions)
        /\ pc' = [pc EXCEPT ![caller] = "end",
                            ![v] = IF trapped THEN "trap" ELSE left]
        /\ checker' = [checkers EXCEPT ![v] = @ /\ ~trapped]
        /\ isUnwinding' = ~trapped /\ shouldUnwind' = FALSE

Unwind(caller, checkers) ==
    UnwindLibraryFunction(caller, checkers) \/ UnwindDeltaCode(caller, checkers)

\* Fault: only the virtual machine that throws tests for the unwinding.
UnwindingCheckersOfThrower ==
    [v \in VMs |-> checker[v] \/ (callStack # <<>> /\ Last(callStack).vm = v)]

\* SetUnwindingCheckers: of the virtual machines with a call on the stack.
UnwindingCheckers ==
    [v \in VMs |-> checker[v] \/ \E i \in 1..Len(callStack) : callStack[i].vm = v]

(* Errors.                                                                 *)

\* Faults: an error takes all calls; it takes only the newest calls in a row.
CallsToPopAll(s, v) == Len(s)
CallsToPopInARow(s, v) ==
    Min({n \in 1..Len(s) : n = Len(s) \/ s[Len(s) - n].vm # v})

\* The newest calls that fail with a virtual machine: all its calls, and all of
\* the virtual machines whose calls are between them.
CallsToPop(s, v) ==
    Min({n \in 1..Len(s) :
        \A j \in 1..Len(s) - n :
            /\ s[j].vm # v
            /\ \A i \in Len(s) - n + 1..Len(s) - 1 : s[i].vm # s[j].vm})

\* InvalidateExecution of the primary failing virtual machine and of those that
\* fail with it; the passports of their execution loops expire.
InvalidateExecution(v, control) ==
    LET traces  == CallsToPop(callTraces, v)
        calls   == CallsToPop(callStack, v)
        failing == {v} \cup {callTraces[i].vm :
                                i \in Len(callTraces) - traces + 1..Len(callTraces) - 1}
    IN  /\ callTraces' = Drop(callTraces, traces)
        /\ callStack' = Drop(callStack, calls)
        /\ expectedNativeTrapDisableCalls' = expectedNativeTrapDisableCalls
              - Cardinality({i \in Len(callStack) - calls + 1..Len(callStack) :
                                callStack[i].context = "InNativeCode"})
        /\ error' = [u \in VMs |-> error[u] \/ u \in failing]
        /\ pc' = [u \in VMs |-> IF u \in failing THEN "end" ELSE pc[u]]
        /\ cpp' = [i \in DOMAIN control |->
                      [control[i] EXCEPT !.valid = @ /\ control[i].vm \notin failing]]
        /\ FailureDiverts
        /\ UNCHANGED <<checker, isUnwinding, shouldUnwind>>

\* No program is left if its global code is under the innermost handler, or over
\* none at all.
StaysInProgram ==
    \A i \in 1..Len(callStack) :
        callStack[i].context = "InDeltaGlobalCode" => \E h \in Handlers : h >= i

\* An exception starts to be unwound.
Thrown == /\ leftProgram' = (leftProgram \/ ~StaysInProgram)
          /\ astray' = (astray \/ isUnwinding)

\* Throw, and PrimaryError, which throws its message.
Throw(v, control) ==
    \/ /\ IsThereAnyTrapBlock
       /\ Unwind(v, UnwindingCheckers)
       /\ cpp' = control
       /\ Thrown
       /\ UNCHANGED <<expectedNativeTrapDisableCalls, error>>
    \/ /\ ~IsThereAnyTrapBlock
       /\ InvalidateExecution(v, control)

-----------------------------------------------------------------------------
(* Native code: the host, a library function or a native try block.       *)

Top(what) == cpp # <<>> /\ Last(cpp).what = what

\* Native code calls nothing while an exception unwinds it.
AtNativeCode == /\ cpp = <<>> \/ Top("lib") \/ Top("try")
                /\ ~isUnwinding

\* DeltaVirtualMachine::Run, up to PROGRAMBEGIN.
Run(v) ==
    /\ AtNativeCode /\ pc[v] = "idle" /\ Room(2)
    /\ callStack' = callStack \o <<Call("InExecutionLoop", v, "end"),
                                   Call("InDeltaGlobalCode", v, "end")>>
    /\ callTraces' = Append(callTraces, Trace("InDeltaGlobalCode", v))
    /\ cpp' = Append(cpp, LoopFrame(v, "end"))
    /\ pc' = [pc EXCEPT ![v] = "code"] /\ checker' = [checker EXCEPT ![v] = FALSE]
    /\ UNCHANGED <<isUnwinding, shouldUnwind, expectedNativeTrapDisableCalls, error, history>>

\* ExtCallGlobalFuncCommit, up to FUNCENTER, in a loop of its own.
CallInNewLoop(v, control) ==
    /\ pc[v] # "idle" /\ ~error[v] /\ Room(2)
    /\ callStack' = callStack \o <<Call("InExecutionLoop", v, "end"),
                                   Call("InDeltaFunction", v, "end")>>
    /\ callTraces' = Append(callTraces, Trace("InDeltaFunction", v))
    /\ cpp' = Append(control, LoopFrame(v, pc[v]))
    /\ pc' = [pc EXCEPT ![v] = "code"] /\ checker' = [checker EXCEPT ![v] = FALSE]
    /\ Diverts
    /\ UNCHANGED <<isUnwinding, shouldUnwind, expectedNativeTrapDisableCalls, error>>

ExtCall(v) == AtNativeCode /\ CallInNewLoop(v, cpp)

\* DELTA_EXCEPTIONS_NATIVE_TRY: not directly inside another one.
NativeTry ==
    /\ AtNativeCode /\ Room(1)
    /\ ~(callStack # <<>> /\ Last(callStack).context = "InNativeCode")
    /\ callStack' = Append(callStack, Call("InNativeCode", NoVM, "end"))
    /\ expectedNativeTrapDisableCalls' = expectedNativeTrapDisableCalls + 1
    /\ cpp' = Append(cpp, TryFrame)
    /\ UNCHANGED <<isUnwinding, shouldUnwind, callTraces, vmVars, history>>

\* DELTA_EXCEPTIONS_NATIVE_TRAP without an exception.
NativeTrapDisable ==
    /\ Top("try") /\ ~isUnwinding
    /\ cpp' = Front(cpp)
    /\ IF expectedNativeTrapDisableCalls > 0
       THEN /\ callStack' = Front(callStack)
            /\ expectedNativeTrapDisableCalls' = expectedNativeTrapDisableCalls - 1
       ELSE UNCHANGED <<callStack, expectedNativeTrapDisableCalls>>
    /\ UNCHANGED <<isUnwinding, shouldUnwind, callTraces, vmVars, history>>

\* Fault: the try block that caught an exception is still expected to end.
NativeTrapUncounted ==
    /\ Top("try") /\ isUnwinding
    /\ cpp' = Front(cpp)
    /\ callStack' = Front(callStack)
    /\ isUnwinding' = FALSE /\ shouldUnwind' = FALSE
    /\ UNCHANGED <<expectedNativeTrapDisableCalls, callTraces, vmVars, history>>

\* DELTA_EXCEPTIONS_NATIVE_TRAP of an exception: NativeTrap, UnwindNativeCode.
NativeTrap ==
    /\ Top("try") /\ isUnwinding
    /\ cpp' = Front(cpp)
    /\ callStack' = Front(callStack)
    /\ expectedNativeTrapDisableCalls' = expectedNativeTrapDisableCalls - 1
    /\ isUnwinding' = FALSE /\ shouldUnwind' = FALSE
    /\ UNCHANGED <<callTraces, vmVars, history>>

\* A library function posts an error or throws for its virtual machine.
LibThrow ==
    /\ Top("lib") /\ ~isUnwinding
    /\ Last(cpp).valid /\ ~error[Last(cpp).vm]
    /\ Throw(Last(cpp).vm, cpp)

\* NativeThrow leaves the unwinding to the next execution loop.
NativeThrow ==
    /\ Top("lib") /\ ~isUnwinding
    /\ Last(cpp).valid /\ ~error[Last(cpp).vm]
    /\ IsThereAnyTrapBlock
    /\ isUnwinding' = TRUE /\ shouldUnwind' = TRUE /\ checker' = UnwindingCheckers
    /\ Thrown
    /\ UNCHANGED <<callStack, expectedNativeTrapDisableCalls, callTraces, pc, error, cpp>>

\* CallPreboundLibraryFunc, after the function: it is popped here unless an
\* exception or an error does or did.
LibReturn ==
    /\ Top("lib")
    /\ cpp' = Front(cpp)
    /\ LET v == Last(cpp).vm
       IN  IF Last(cpp).valid /\ ~error[v] /\ ~isUnwinding
           THEN /\ callStack' = Front(callStack)
                /\ callTraces' = Front(callTraces)
                /\ pc' = [pc EXCEPT ![v] = Last(callStack).ret]
           ELSE UNCHANGED <<callStack, callTraces, pc>>
    /\ UNCHANGED <<isUnwinding, shouldUnwind, expectedNativeTrapDisableCalls,
                   error, checker, history>>

\* ResetRunTimeErrors makes the failed virtual machines workable again.
ResetRunTimeErrors ==
    /\ AtNativeCode /\ \E v \in VMs : error[v]
    /\ error' = [v \in VMs |-> FALSE]
    /\ ResetDiverts
    /\ UNCHANGED <<exceptionVars, expectedNativeTrapDisableCalls, callTraces,
                   pc, checker, cpp>>

-----------------------------------------------------------------------------
(* The execution loop of a virtual machine: the instructions.             *)

InLoop(v, phase) == Top("loop") /\ Last(cpp).vm = v /\ Last(cpp).phase = phase

At(v, counter) == InLoop(v, "exec") /\ pc[v] = counter

\* The loop after the instruction.
Executed == [cpp EXCEPT ![Len(cpp)].phase = "check"]

\* CALLPROGRAMFUNC, up to FUNCENTER.
CallFunction(v) ==
    /\ At(v, "code") /\ Room(1)
    /\ callStack' = Append(callStack, Call("InDeltaFunction", v, "code"))
    /\ callTraces' = Append(callTraces, Trace("InDeltaFunction", v))
    /\ cpp' = Executed
    /\ UNCHANGED <<isUnwinding, shouldUnwind, expectedNativeTrapDisableCalls, vmVars, history>>

\* CallPreboundLibraryFunc, up to the function.
CallLibrary(v) ==
    /\ At(v, "code") /\ Room(1)
    /\ callStack' = Append(callStack, Call("InLibraryFunction", v, "code"))
    /\ callTraces' = Append(callTraces, Trace("InLibraryFunction", v))
    /\ cpp' = Append(Executed, LibFrame(v))
    /\ Diverts
    /\ UNCHANGED <<isUnwinding, shouldUnwind, expectedNativeTrapDisableCalls, vmVars>>

\* Callfunc_ProgramFunc of a function of another virtual machine.
CallOther(v, w) ==
    /\ At(v, "code") /\ v # w
    /\ CallInNewLoop(w, Append(Executed, CrossFrame(v, w)))

\* DELTA_INVOKE_FUNCTION_OR_METHOD, after the call: an error of the callee
\* becomes one of the caller.
CrossReturn ==
    /\ Top("cross")
    /\ LET v == Last(cpp).vm
           failed == ~isUnwinding /\ error[Last(cpp).callee] /\ ~error[v]
           back   == ~isUnwinding /\ ~error[v] /\ Last(cpp).valid
       IN  \/ failed /\ Throw(v, Front(cpp))
           \/ /\ ~failed
              /\ cpp' = Front(cpp)
              /\ pc' = IF back THEN [pc EXCEPT ![v] = "code"] ELSE pc
              /\ UNCHANGED <<exceptionVars, expectedNativeTrapDisableCalls,
                             callTraces, error, checker, history>>

\* FUNCRET
FuncReturn(v) ==
    /\ At(v, "code") /\ Last(callStack).context = "InDeltaFunction"
    /\ pc' = [pc EXCEPT ![v] = Last(callStack).ret]
    /\ callStack' = Front(callStack) /\ callTraces' = Front(callTraces)
    /\ cpp' = Executed
    /\ ReturnDiverts
    /\ UNCHANGED <<isUnwinding, shouldUnwind, expectedNativeTrapDisableCalls,
                   error, checker>>

\* PROGRAMEND
ProgramEnd(v) ==
    /\ At(v, "code") /\ Last(callStack).context = "InDeltaGlobalCode"
    /\ pc' = [pc EXCEPT ![v] = "end"]
    /\ callStack' = Front(callStack) /\ callTraces' = Front(callTraces)
    /\ cpp' = Executed
    /\ Diverts
    /\ UNCHANGED <<isUnwinding, shouldUnwind, expectedNativeTrapDisableCalls,
                   error, checker>>

\* TRAPENABLE and TRAPDISABLE
TrapEnable(v) ==
    /\ At(v, "code") /\ Last(callStack).traps < MaxTraps
    /\ callStack' = [callStack EXCEPT ![Len(callStack)].traps = @ + 1]
    /\ cpp' = Executed
    /\ Diverts
    /\ UNCHANGED <<isUnwinding, shouldUnwind, expectedNativeTrapDisableCalls,
                   callTraces, vmVars>>

TrapDisable(v) ==
    /\ At(v, "code") /\ Last(callStack).traps > 0
    /\ callStack' = [callStack EXCEPT ![Len(callStack)].traps = @ - 1]
    /\ cpp' = Executed
    /\ Diverts
    /\ UNCHANGED <<isUnwinding, shouldUnwind, expectedNativeTrapDisableCalls,
                   callTraces, vmVars>>

\* TRAP, where a caught exception continues.
Trap(v) ==
    /\ At(v, "trap")
    /\ callStack' = [callStack EXCEPT ![Len(callStack)].traps = @ - 1]
    /\ pc' = [pc EXCEPT ![v] = "code"]
    /\ cpp' = Executed
    /\ UNCHANGED <<isUnwinding, shouldUnwind, expectedNativeTrapDisableCalls,
                   callTraces, error, checker, history>>

\* GETRETVAL, which follows a call unless the optimiser drops it, and every
\* other instruction that neither calls nor throws.
OtherInstruction(v) ==
    /\ At(v, "code")
    /\ cpp' = Executed
    /\ UNCHANGED <<exceptionVars, expectedNativeTrapDisableCalls, callTraces, vmVars, history>>

\* THROW, and any instruction that fails.
ThrowOrFail(v) == At(v, "code") /\ Throw(v, Executed)

-----------------------------------------------------------------------------
(* The execution loop: what follows every instruction.                    *)

Proceed(phase) == cpp' = [cpp EXCEPT ![Len(cpp)].phase = phase]

\* DELTA_CORE_EXECUTION_LOOP: the loop is over after an error.
LoopFailed(v) ==
    /\ InLoop(v, "check") /\ (error[v] \/ ~Last(cpp).valid)
    /\ Proceed("exit")
    /\ UNCHANGED <<exceptionVars, expectedNativeTrapDisableCalls, callTraces, vmVars, history>>

\* PERFORM_UNWINDING_CHECKS: nothing to unwind, or nobody told this loop.
LoopGoesOn(v) ==
    /\ InLoop(v, "check") /\ ~error[v] /\ Last(cpp).valid
    /\ ~(checker[v] /\ isUnwinding)
    /\ checker' = [checker EXCEPT ![v] = FALSE]
    /\ Proceed(IF pc[v] = "end" THEN "exit" ELSE "exec")
    /\ UNCHANGED <<exceptionVars, expectedNativeTrapDisableCalls, callTraces, pc, error, history>>

\* PerformUnwindingTests, first half.
LoopUnwinds(v) ==
    /\ InLoop(v, "check") /\ ~error[v] /\ Last(cpp).valid
    /\ checker[v] /\ isUnwinding
    /\ IF shouldUnwind
       THEN Unwind(v, checker)
       ELSE UNCHANGED <<exceptionVars, callTraces, pc, checker>>
    /\ Proceed("unwound")
    /\ UNCHANGED <<expectedNativeTrapDisableCalls, error, history>>

\* Fault: the next loop is not told to unwind.
LoopUnwoundForgets(v) ==
    /\ InLoop(v, "unwound")
    /\ Proceed(IF (isUnwinding /\ ~shouldUnwind) \/ pc[v] = "end" THEN "exit" ELSE "exec")
    /\ UNCHANGED <<exceptionVars, expectedNativeTrapDisableCalls, callTraces, vmVars, history>>

\* PerformUnwindingTests, second half: it leaves the loop if the unwinding has
\* come to it.
LoopUnwound(v) ==
    /\ InLoop(v, "unwound")
    /\ IF isUnwinding /\ ~shouldUnwind
       THEN shouldUnwind' = TRUE /\ Proceed("exit")
       ELSE UNCHANGED shouldUnwind /\ Proceed(IF pc[v] = "end" THEN "exit" ELSE "exec")
    /\ UNCHANGED <<callStack, isUnwinding, expectedNativeTrapDisableCalls,
                   callTraces, vmVars, history>>

\* Fault: a loop pops its entry although the error did.
LoopExitPopsAlways(v) ==
    /\ InLoop(v, "exit")
    /\ cpp' = Front(cpp)
    /\ callStack' = Front(callStack)
    /\ pc' = IF error[v] \/ ~Last(cpp).valid
             THEN pc ELSE [pc EXCEPT ![v] = Last(cpp).saved]
    /\ UNCHANGED <<isUnwinding, shouldUnwind, expectedNativeTrapDisableCalls,
                   callTraces, error, checker, history>>

\* The end of Continue, with PopExecutionLoop, and of the call that entered it.
LoopExit(v) ==
    /\ InLoop(v, "exit")
    /\ cpp' = Front(cpp)
    /\ callStack' = IF error[v] THEN callStack ELSE Front(callStack)
    /\ pc' = IF error[v] \/ ~Last(cpp).valid
             THEN pc ELSE [pc EXCEPT ![v] = Last(cpp).saved]
    /\ UNCHANGED <<isUnwinding, shouldUnwind, expectedNativeTrapDisableCalls,
                   callTraces, error, checker, history>>

-----------------------------------------------------------------------------
NativeCode == \/ \E v \in VMs : Run(v) \/ ExtCall(v)
              \/ NativeTry \/ NativeTrapDisable \/ NativeTrap
              \/ LibThrow \/ NativeThrow \/ LibReturn \/ ResetRunTimeErrors

Instruction(v) == \/ CallFunction(v) \/ CallLibrary(v)
                  \/ \E w \in VMs : CallOther(v, w)
                  \/ FuncReturn(v) \/ ProgramEnd(v) \/ OtherInstruction(v)
                  \/ TrapEnable(v) \/ TrapDisable(v) \/ Trap(v) \/ ThrowOrFail(v)

ExecutionLoop(v) == LoopFailed(v) \/ LoopGoesOn(v) \/ LoopUnwinds(v)
                    \/ LoopUnwound(v) \/ LoopExit(v)

Next == NativeCode \/ CrossReturn \/ \E v \in VMs : Instruction(v) \/ ExecutionLoop(v)

Spec == Init /\ [][Next]_vars

\* The one thread runs; no choice of a program is fair.
FairSpec == Spec /\ WF_vars(Next)

-----------------------------------------------------------------------------
(* Properties.  They hold until the code goes astray, and when it does.   *)

OnCourse == ~astray

Frames == [what : {"loop"}, vm : VMs, saved : Counters,
           phase : {"exec", "check", "unwound", "exit"}, valid : BOOLEAN]
     \cup [what : {"lib"}, vm : VMs, valid : BOOLEAN]
     \cup [what : {"cross"}, vm : VMs, callee : VMs, valid : BOOLEAN]
     \cup [what : {"try"}, vm : {NoVM}, valid : BOOLEAN]

\* The variables have their types.
TypeOK ==
    /\ callStack \in Seq([context : Contexts, vm : VMs \cup {NoVM},
                          traps : 0..MaxTraps, ret : Counters])
    /\ callTraces \in Seq([context : Contexts, vm : VMs])
    /\ isUnwinding \in BOOLEAN /\ shouldUnwind \in BOOLEAN
    /\ expectedNativeTrapDisableCalls \in Nat
    /\ pc \in [VMs -> Counters]
    /\ error \in [VMs -> BOOLEAN] /\ checker \in [VMs -> BOOLEAN]
    /\ cpp \in Seq(Frames)
    /\ leftProgram \in BOOLEAN /\ astray \in BOOLEAN

\* How many of the positions I are up to the i-th of the stack.
Rank(I, i) == Cardinality({j \in I : j <= i})

\* The call contexts "in accordance to the global call-stack": without loops and
\* native code they are the call traces, until an exception leaves a program.
Traced == {i \in 1..Len(callStack) :
              callStack[i].context \notin {"InExecutionLoop", "InNativeCode"}}
StacksAgree == OnCourse /\ ~leftProgram =>
    /\ Len(callTraces) = Cardinality(Traced)
    /\ \A i \in Traced : callTraces[Rank(Traced, i)]
                            = Trace(callStack[i].context, callStack[i].vm)

\* When nothing is unwound, the C++ calls still to return to are the ones the
\* exception handler has contexts for, in the same order.
CppCalls == {i \in 1..Len(callStack) : ~IsDeltaCodeContext(callStack[i])}
Live     == {j \in 1..Len(cpp) : cpp[j].valid /\ cpp[j].what # "cross"}
ContextOf(what) == CASE what = "loop" -> "InExecutionLoop" [] what = "lib" -> "InLibraryFunction"
                     [] what = "try" -> "InNativeCode"
SameCalls ==
    \A i \in CppCalls, j \in Live :
        Rank(CppCalls, i) = Rank(Live, j) =>
            callStack[i].vm = cpp[j].vm /\ callStack[i].context = ContextOf(cpp[j].what)
ControlAgrees ==
    OnCourse /\ ~isUnwinding => Cardinality(CppCalls) = Cardinality(Live) /\ SameCalls

\* The calls that remain after an error are of virtual machines without one.
FailedMachinesHaveNoCalls ==
    OnCourse => \A i \in 1..Len(callStack) : callStack[i].vm # NoVM => ~error[callStack[i].vm]

\* The host finds everything as it was before its call, but for the errors.
HostFindsNothingLeft ==
    OnCourse /\ cpp = <<>> => callStack = <<>> /\ ~isUnwinding
                              /\ expectedNativeTrapDisableCalls = 0

\* Script code runs only where its own call is on top.  While an exception is
\* unwound that is the one instruction after a call that was popped: the handler
\* is still below, and the unwinding goes on after that instruction.
CodeRunsInItsCall ==
    OnCourse => \A v \in VMs : At(v, "code") \/ At(v, "trap") =>
        /\ callStack # <<>> /\ Last(callStack).vm = v /\ IsDeltaCodeContext(Last(callStack))
        /\ pc[v] = "trap" => ~isUnwinding /\ Last(callStack).traps > 0
        /\ isUnwinding => shouldUnwind /\ checker[v] /\ IsThereAnyTrapBlock

\* While an exception is unwound every loop that can go on tests for it.
UnwindingIsChecked ==
    OnCourse /\ isUnwinding => \A j \in 1..Len(cpp) :
        cpp[j].what = "loop" /\ cpp[j].valid => checker[cpp[j].vm]

\* The unwinding of every exception ends at its handler.
UnwindingEnds == isUnwinding ~> ~isUnwinding \/ astray

FrameOf(call) == [context |-> call.context, vm |-> call.vm, traps |-> call.traps]

\* The calls of s that stay are none of those above the handler that unwinding
\* goes to, and no execution loops.
StayIn(s, unwinding) ==
    {i \in 1..Len(s) : /\ s[i].context # "InExecutionLoop"
                       /\ unwinding => \E h \in i..Len(s) : Handles(s[h])}

FramesThatStay(s, unwinding) ==
    LET stay  == StayIn(s, unwinding)
        frame == [i \in 1..Len(s) |-> FrameOf(s[i])]
    IN  [n \in 1..Cardinality(stay) |-> frame[CHOOSE i \in stay : Rank(stay, i) = n]]

Semantics == INSTANCE ThrowSemantics WITH
    Frames <- {FrameOf(Call(c, v, "end")) :
                  c \in {"InDeltaFunction", "InDeltaGlobalCode", "InLibraryFunction"},
                  v \in VMs} \cup {FrameOf(Call("InNativeCode", NoVM, "end"))},
    frames <- FramesThatStay(callStack, isUnwinding)

\* A throw removes the calls above its handler and no other, an error the calls
\* that fail with its virtual machine and no other.
ImplementsThrowSemantics ==
    /\ Semantics!Init
    /\ [][Semantics!Next \/ astray']_(FramesThatStay(callStack, isUnwinding))
=============================================================================
