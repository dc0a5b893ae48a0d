---------------------------- MODULE DebugServer -----------------------------
(***************************************************************************)
(* The debugger backend inside a running Delta program: the thread of the *)
(* virtual machine ("vm"), the service thread that reads the requests of  *)
(* the debugger client ("dbg", DebugServiceLoopThread) and the thread     *)
(* that waits for a client to attach ("con", TryEstablishClientConnection)*)
(* with the mutexes, the flags and the trace command they share.  A step  *)
(* is the code between two accesses to what another thread may change.    *)
(***************************************************************************)
EXTENDS Naturals, Sequences

CONSTANTS
    Traces,         \* trace commands other than Continue (StepOver, StepIn, ...)
    MaxInbox,       \* requests the socket holds before the client blocks
    MayBreak,       \* the client may post BreakExecution
    MayDetach,      \* the client may go away, and come back
    MayClose,       \* the program may call CloseClientConnection
    MayEnd          \* the program may end and call CleanUp

ASSUME TracesAssumption == "Continue" \notin Traces /\ "None" \notin Traces
ASSUME MaxInboxAssumption == MaxInbox \in Nat \ {0}
ASSUME SwitchAssumption == {MayBreak, MayDetach, MayClose, MayEnd} \subseteq BOOLEAN

VARIABLES
    \* the virtual machine's thread
    vmPc, vmMsg,
    inBreakPoint, breakExecutionRequested, isBreakFromTraceCommand,
    cmmd, done,                       \* debugCmmd of the tracer
    \* the messenger between the virtual machine and the server
    callbacks, messengerMutex,
    \* the server
    client, clientLinkMutex, dataCreationMutex,
    insideBreakPoint, debugStoppedByClient,
    dbgPc, dbgIdx, request, dbgExit,
    conPc, conIdx, conExit,
    \* the client's process and its link
    peer, inbox,
    \* a thread went through the null client link
    crashed

vmVars     == <<vmPc, vmMsg>>
breakVars  == <<inBreakPoint, breakExecutionRequested, isBreakFromTraceCommand>>
tracerVars == <<cmmd, done>>
linkVars   == <<client, peer, inbox>>
mutexes    == <<messengerMutex, clientLinkMutex, dataCreationMutex>>
dbgVars    == <<dbgPc, dbgIdx, request, dbgExit>>
conVars    == <<conPc, conIdx, conExit>>
serverVars == <<insideBreakPoint, debugStoppedByClient, crashed>>

vmThread == <<vmVars, breakVars, tracerVars>>
shared   == <<callbacks, linkVars, mutexes>>
server   == <<dbgVars, conVars, serverVars>>
vars     == <<vmThread, shared, server>>

-----------------------------------------------------------------------------
Releases == Traces \cup {"Continue"}
Requests == Releases \cup {"BreakExecution", "GetVariables", "Stop"}

\* The callbacks of the messenger in the order the server resets and sets them.
CallbackOrder == <<"InvalidBreakPoint", "ValidBreakPoint", "InvalidCondition",
                   "FuncResults", "StopPoint", "CurrFunction", "DynamicCode",
                   "IsConnected">>
Callbacks == {CallbackOrder[i] : i \in 1..8}

\* What the virtual machine reports at a break, in this order.
BreakInformation == <<"StopPoint", "CurrFunction", "FuncResults">>

VmPcs == {"run", "handle", "userRequest", "traceDone", "line", "condEnter",
          "condLeave", "artificial", "enter", "onStop", "notify", "adapter",
          "send", "wait", "leave", "closing", "stopDbg", "checkClient",
          "infoStop", "deleteClient", "stopCon", "ended"}
DbgPcs == {"off", "test", "loop", "reset", "go", "post", "fill", "mark",
           "restart", "dispatch", "reply", "processed", "finish", "destroyed"}
ConPcs == {"off", "begin", "accept", "accepted", "init", "receive", "set",
           "startDbg", "finish"}

\* A thread may lock a mutex nobody holds (umutex is not re-entrant).
Free(mutex) == mutex = "free"

-----------------------------------------------------------------------------
Init ==
    /\ vmPc = "run" /\ vmMsg = 1
    /\ inBreakPoint = FALSE /\ breakExecutionRequested = FALSE
    /\ isBreakFromTraceCommand = FALSE
    /\ cmmd = "None" /\ done = FALSE
    /\ callbacks = {} /\ messengerMutex = "free"
    /\ client = "null" /\ clientLinkMutex = "free" /\ dataCreationMutex = "free"
    /\ insideBreakPoint = FALSE /\ debugStoppedByClient = FALSE
    /\ dbgPc = "off" /\ dbgIdx = 1 /\ request = "none" /\ dbgExit = FALSE
    /\ conPc = "begin" /\ conIdx = 1 /\ conExit = FALSE
    /\ peer = "away" /\ inbox = <<>> /\ crashed = FALSE

-----------------------------------------------------------------------------
(* The virtual machine's thread: OnExecuteCheckBreakPoints.               *)

VmStep(from, to) == vmPc = from /\ vmPc' = to

\* GetMessenger().IsConnected() locks the messenger.
VmIsConnected ==
    /\ Free(messengerMutex) /\ "IsConnected" \in callbacks
    /\ VmStep("run", "handle")
    /\ UNCHANGED <<vmMsg, breakVars, tracerVars, shared, server>>

\* HandleAnyTraceCommand: where the program is decides if the command completes;
\* an instruction without a line is not considered for a break.
VmHandleAnyTraceCommand ==
    /\ \/ VmStep("handle", "userRequest") /\ cmmd \in Traces /\ done' = TRUE
       \/ VmStep("handle", "userRequest") /\ UNCHANGED done
       \/ VmStep("handle", "run") /\ UNCHANGED done
    /\ UNCHANGED <<vmMsg, breakVars, cmmd, shared, server>>

\* WeShouldBreakDueToUserRequest; only at the leading instruction of a line.
VmUserRequest ==
    /\ \/ /\ breakExecutionRequested
          /\ isBreakFromTraceCommand' = FALSE
          /\ VmStep("userRequest", "enter")
       \/ VmStep("userRequest", "traceDone") /\ UNCHANGED isBreakFromTraceCommand
    /\ UNCHANGED <<vmMsg, inBreakPoint, breakExecutionRequested, tracerVars,
                   shared, server>>

\* WeShouldBreakFromTraceCommand
VmTraceDone ==
    /\ VmStep("traceDone", IF done /\ cmmd # "None" THEN "enter" ELSE "line")
    /\ UNCHANGED <<vmMsg, breakVars, tracerVars, shared, server>>

\* WeShouldBreakAtLine: no break point here, one without and one with a condition.
VmLine ==
    /\ \/ VmStep("line", "run") /\ UNCHANGED isBreakFromTraceCommand
       \/ VmStep("line", "enter") /\ isBreakFromTraceCommand' = FALSE
       \/ VmStep("line", "condEnter") /\ UNCHANGED isBreakFromTraceCommand
    /\ UNCHANGED <<vmMsg, inBreakPoint, breakExecutionRequested, tracerVars,
                   shared, server>>

\* EvaluateCondition runs with the variables of a break point set for a while.
VmCondEnter ==
    /\ VmStep("condEnter", "condLeave")
    /\ inBreakPoint' = TRUE /\ breakExecutionRequested' = FALSE
    /\ UNCHANGED <<vmMsg, isBreakFromTraceCommand, tracerVars, shared, server>>

\* The condition is true, false, or cannot be evaluated (message 0).
VmCondLeave ==
    /\ inBreakPoint' = FALSE
    /\ \/ VmStep("condLeave", "enter") /\ isBreakFromTraceCommand' = FALSE
          /\ UNCHANGED vmMsg
       \/ VmStep("condLeave", "run") /\ UNCHANGED <<isBreakFromTraceCommand, vmMsg>>
       \/ VmStep("condLeave", "notify") /\ vmMsg' = 0
          /\ UNCHANGED isBreakFromTraceCommand
    /\ UNCHANGED <<breakExecutionRequested, tracerVars, shared, server>>

\* An error, a throw or an assertion breaks while the messenger is connected.
VmError ==
    /\ Free(messengerMutex) /\ "IsConnected" \in callbacks
    /\ VmStep("run", "artificial")
    /\ UNCHANGED <<vmMsg, breakVars, tracerVars, shared, server>>

\* OnArtificialBreakPoint
VmArtificial ==
    /\ VmStep("artificial", "enter")
    /\ cmmd' = "None" /\ done' = FALSE /\ isBreakFromTraceCommand' = FALSE
    /\ UNCHANGED <<vmMsg, inBreakPoint, breakExecutionRequested, shared,
                   server>>

-----------------------------------------------------------------------------
(* The virtual machine's thread: BreakPointServiceLoop.                    *)

\* SetBreakPointEnvironmentVariables
VmEnter ==
    /\ VmStep("enter", "onStop") /\ vmMsg' = 1
    /\ inBreakPoint' = TRUE /\ breakExecutionRequested' = FALSE
    /\ UNCHANGED <<isBreakFromTraceCommand, tracerVars, shared, server>>

\* NotifyEnterBreakPoint: OnStopPoint forgets the previous command first.
VmOnStop ==
    /\ VmStep("onStop", "notify")
    /\ cmmd' = "None" /\ done' = FALSE
    /\ UNCHANGED <<vmMsg, breakVars, shared, server>>

\* Fault: one message too many.
VmNextMessageTooFar ==
    /\ vmPc' = CASE vmMsg = 0 -> "run" [] vmMsg \in 1..3 -> "notify" [] OTHER -> "wait"
    /\ vmMsg' = IF vmMsg \in 1..3 THEN vmMsg + 1 ELSE vmMsg

\* After one message of the virtual machine comes the next, or the busy wait.
VmNextMessage ==
    /\ vmPc' = CASE vmMsg = 0 -> "run" [] vmMsg \in 1..2 -> "notify" [] OTHER -> "wait"
    /\ vmMsg' = IF vmMsg \in 1..2 THEN vmMsg + 1 ELSE vmMsg

Message(m) == IF m = 0 THEN "InvalidCondition" ELSE BreakInformation[m]

\* Notify...: the messenger stays locked while its callback runs.
VmNotify ==
    /\ vmPc = "notify" /\ Free(messengerMutex)
    /\ IF Message(vmMsg) \in callbacks
       THEN vmPc' = "adapter" /\ messengerMutex' = "vm" /\ UNCHANGED vmMsg
       ELSE VmNextMessage /\ UNCHANGED messengerMutex
    /\ UNCHANGED <<breakVars, tracerVars, callbacks, linkVars,
                   clientLinkMutex, dataCreationMutex, server>>

\* Fault: the stop is sent but insideBreakPoint is never set.
VmAdapterSilent ==
    /\ VmStep("adapter", "send")
    /\ UNCHANGED <<vmMsg, breakVars, tracerVars, shared, server>>

\* DoInfoStopPointAdapter opens the stop to the requests of the client.
VmAdapter ==
    /\ VmStep("adapter", "send")
    /\ insideBreakPoint' = (insideBreakPoint \/ Message(vmMsg) = "StopPoint")
    /\ UNCHANGED <<vmMsg, breakVars, tracerVars, shared, dbgVars, conVars,
                   debugStoppedByClient, crashed>>

\* Fault: OnStopPoint forgets the command after the break was reported.
VmSendThenForget ==
    /\ vmPc = "send" /\ Free(clientLinkMutex)
    /\ VmNextMessage /\ messengerMutex' = "free"
    /\ IF vmMsg = 3 THEN cmmd' = "None" /\ done' = FALSE ELSE UNCHANGED tracerVars
    /\ crashed' = (client = "null")
    /\ UNCHANGED <<breakVars, callbacks, linkVars, clientLinkMutex,
                   dataCreationMutex, dbgVars, conVars, insideBreakPoint,
                   debugStoppedByClient>>

\* CLIENT_LINK_LOCK and SendMsg of the DoInfo... functions.
VmSend ==
    /\ vmPc = "send" /\ Free(clientLinkMutex)
    /\ VmNextMessage /\ messengerMutex' = "free"
    /\ crashed' = (client = "null")
    /\ UNCHANGED <<breakVars, tracerVars, callbacks, linkVars,
                   clientLinkMutex, dataCreationMutex, dbgVars, conVars,
                   insideBreakPoint, debugStoppedByClient>>

\* BusyWaitForTraceCommand
VmWait ==
    /\ VmStep("wait", "leave") /\ cmmd # "None"
    /\ UNCHANGED <<vmMsg, breakVars, tracerVars, shared, server>>

\* ResetBreakPointEnvironmentVariables
VmLeave ==
    /\ VmStep("leave", "run") /\ inBreakPoint' = FALSE
    /\ UNCHANGED <<vmMsg, breakExecutionRequested, isBreakFromTraceCommand,
                   tracerVars, shared, server>>

-----------------------------------------------------------------------------
(* The virtual machine's thread: CloseClientConnection and CleanUp.        *)

\* CloseClientConnection tests the link before it locks it.
VmClose ==
    /\ MayClose /\ client # "null" /\ VmStep("run", "closing")
    /\ UNCHANGED <<vmMsg, breakVars, tracerVars, shared, server>>

VmClosing ==
    /\ VmStep("closing", "run") /\ Free(clientLinkMutex)
    /\ client' = "null" /\ inbox' = <<>>
    /\ UNCHANGED <<vmMsg, breakVars, tracerVars, callbacks, peer, mutexes,
                   server>>

\* CleanUpForClientConnection: lock, and ask the service thread to stop.
VmEnd ==
    /\ MayEnd /\ VmStep("run", "stopDbg")
    /\ Free(dataCreationMutex) /\ dataCreationMutex' = "vm"
    /\ dbgExit' = TRUE
    /\ UNCHANGED <<vmMsg, breakVars, tracerVars, callbacks, linkVars,
                   messengerMutex, clientLinkMutex, dbgPc, dbgIdx, request,
                   conVars, serverVars>>

\* RequestExitWaitAndDestroy(debugThread)
VmStopDbg ==
    /\ VmStep("stopDbg", "checkClient") /\ dbgPc = "off"
    /\ dbgPc' = "destroyed"
    /\ UNCHANGED <<vmMsg, breakVars, tracerVars, shared, dbgIdx, request,
                   dbgExit, conVars, serverVars>>

\* The client is told unless it asked for the end itself; no lock is held.
VmCheckClient ==
    /\ \/ client = "null" /\ VmStep("checkClient", "stopCon") /\ conExit' = TRUE
       \/ /\ client = "link" /\ ~debugStoppedByClient
          /\ VmStep("checkClient", "infoStop") /\ UNCHANGED conExit
       \/ /\ client # "null" /\ (client = "broken" \/ debugStoppedByClient)
          /\ VmStep("checkClient", "deleteClient") /\ UNCHANGED conExit
    /\ UNCHANGED <<vmMsg, breakVars, tracerVars, shared, dbgVars, conPc,
                   conIdx, serverVars>>

VmInfoStop ==
    /\ VmStep("infoStop", "deleteClient") /\ Free(clientLinkMutex)
    /\ crashed' = (client = "null")
    /\ UNCHANGED <<vmMsg, breakVars, tracerVars, shared, dbgVars, conVars,
                   insideBreakPoint, debugStoppedByClient>>

VmDeleteClient ==
    /\ VmStep("deleteClient", "stopCon")
    /\ client' = "null" /\ inbox' = <<>> /\ conExit' = TRUE
    /\ UNCHANGED <<vmMsg, breakVars, tracerVars, callbacks, peer, mutexes,
                   dbgVars, conPc, conIdx, serverVars>>

\* RequestExitWaitAndDestroy(connectThread), then the mutex is released.
VmStopCon ==
    /\ VmStep("stopCon", "ended") /\ conPc = "off"
    /\ dataCreationMutex' = "free"
    /\ UNCHANGED <<vmMsg, breakVars, tracerVars, callbacks, linkVars,
                   messengerMutex, clientLinkMutex, server>>

-----------------------------------------------------------------------------
(* The service thread: DebugServiceLoopThread.                             *)

DbgStep(from, to) == dbgPc = from /\ dbgPc' = to

\* while (!IsExitRequested())
DbgTest ==
    /\ DbgStep("test", IF dbgExit THEN "finish" ELSE "loop")
    /\ UNCHANGED <<vmThread, shared, dbgIdx, request, dbgExit, conVars,
                   serverVars>>

\* Under CLIENT_LINK_LOCK: nothing to do, or one request is received.
DbgIdle ==
    /\ DbgStep("loop", "test") /\ Free(clientLinkMutex)
    /\ client = "link" /\ inbox = <<>>
    /\ UNCHANGED <<vmThread, shared, dbgIdx, request, dbgExit, conVars,
                   serverVars>>

DbgReceive ==
    /\ DbgStep("loop", "dispatch") /\ Free(clientLinkMutex)
    /\ client = "link" /\ inbox # <<>>
    /\ request' = Head(inbox) /\ inbox' = Tail(inbox)
    /\ UNCHANGED <<vmThread, callbacks, client, peer, mutexes, dbgIdx,
                   dbgExit, conVars, serverVars>>

\* IsClientDisconnectedAndStartedRetryingReconnection keeps CLIENT_LINK_LOCK
\* while it takes down the callbacks, releases the program and starts over.
DbgLost ==
    /\ DbgStep("loop", "reset") /\ Free(clientLinkMutex) /\ client # "link"
    /\ clientLinkMutex' = "dbg" /\ dbgIdx' = 1
    /\ client' = "null" /\ inbox' = <<>>
    /\ UNCHANGED <<vmThread, callbacks, peer, messengerMutex,
                   dataCreationMutex, request, dbgExit, conVars, serverVars>>

DbgReset ==
    /\ DbgStep("reset", IF dbgIdx = 8 THEN "go" ELSE "reset")
    /\ Free(messengerMutex)
    /\ callbacks' = callbacks \ {CallbackOrder[dbgIdx]}
    /\ dbgIdx' = IF dbgIdx = 8 THEN 1 ELSE dbgIdx + 1
    /\ UNCHANGED <<vmThread, linkVars, mutexes, request, dbgExit, conVars,
                   serverVars>>

\* Fault: the artificial Go is posted without asking InsideBreakPoint.
DbgGoAlways ==
    /\ DbgStep("go", "post")
    /\ insideBreakPoint' = FALSE /\ request' = "Continue"
    /\ UNCHANGED <<vmThread, shared, dbgIdx, dbgExit, conVars,
                   debugStoppedByClient, crashed>>

\* The artificial Go request of a lost client.
DbgGo ==
    /\ DbgStep("go", IF insideBreakPoint THEN "post" ELSE "restart")
    /\ insideBreakPoint' = FALSE /\ request' = "Continue"
    /\ UNCHANGED <<vmThread, shared, dbgIdx, dbgExit, conVars,
                   debugStoppedByClient, crashed>>

\* Fault: the service thread goes on after it has started the other one.
DbgRestartAndContinue ==
    /\ DbgStep("restart", "test") /\ conPc = "off"
    /\ conPc' = "begin" /\ clientLinkMutex' = "free" /\ request' = "none"
    /\ UNCHANGED <<vmThread, callbacks, linkVars, messengerMutex,
                   dataCreationMutex, dbgIdx, dbgExit, conIdx, conExit,
                   serverVars>>

\* connectThread->Start() spins until the new run has its thread's mutex, which
\* the last run keeps until it has returned; then the service thread returns.
DbgRestart ==
    /\ DbgStep("restart", "finish") /\ conPc = "off"
    /\ conPc' = "begin" /\ clientLinkMutex' = "free" /\ request' = "none"
    /\ UNCHANGED <<vmThread, callbacks, linkVars, messengerMutex,
                   dataCreationMutex, dbgIdx, dbgExit, conIdx, conExit,
                   serverVars>>

\* Fault: a handler without ResetInsideBreakPoint.
DbgReleaseKeepsInside ==
    /\ request \in Releases
    /\ DbgStep("dispatch", IF insideBreakPoint THEN "post" ELSE "processed")
    /\ UNCHANGED <<vmThread, shared, dbgIdx, request, dbgExit, conVars,
                   serverVars>>

\* Fault: a handler without the test of InsideBreakPoint.
DbgReleaseUnguarded ==
    /\ request \in Releases
    /\ DbgStep("dispatch", "post")
    /\ insideBreakPoint' = FALSE
    /\ UNCHANGED <<vmThread, shared, dbgIdx, request, dbgExit, conVars,
                   debugStoppedByClient, crashed>>

\* DispatchRequest: HandleGo, HandleStepOver, ... answer a reported stop only.
DbgRelease ==
    /\ request \in Releases
    /\ DbgStep("dispatch", IF insideBreakPoint THEN "post" ELSE "processed")
    /\ insideBreakPoint' = FALSE
    /\ UNCHANGED <<vmThread, shared, dbgIdx, request, dbgExit, conVars,
                   debugStoppedByClient, crashed>>

\* CommandData::Set stores the command before the rest, but nothing orders the
\* two for the other thread: the build may also store the command last.
DbgPost ==
    /\ \/ DbgStep("post", "fill") /\ UNCHANGED done
       \/ DbgStep("post", "mark") /\ done' = FALSE
    /\ cmmd' = request
    /\ UNCHANGED <<vmVars, breakVars, shared, dbgIdx, request, dbgExit, conVars,
                   serverVars>>

DbgFill ==
    /\ DbgStep("fill", "mark") /\ done' = FALSE
    /\ UNCHANGED <<vmVars, breakVars, cmmd, shared, dbgIdx, request, dbgExit,
                   conVars, serverVars>>

\* SetIsBreakFromTraceCommand comes last.
DbgMark ==
    /\ DbgStep("mark", IF clientLinkMutex = "dbg" THEN "restart" ELSE "processed")
    /\ isBreakFromTraceCommand' = (request # "Continue")
    /\ UNCHANGED <<vmVars, inBreakPoint, breakExecutionRequested, tracerVars,
                   shared, dbgIdx, request, dbgExit, conVars, serverVars>>

\* HandleBreakExecution
DbgBreakExecution ==
    /\ request = "BreakExecution" /\ DbgStep("dispatch", "processed")
    /\ breakExecutionRequested' = (breakExecutionRequested \/ ~inBreakPoint)
    /\ UNCHANGED <<vmVars, inBreakPoint, isBreakFromTraceCommand, tracerVars,
                   shared, dbgIdx, request, dbgExit, conVars, serverVars>>

\* Fault: an inspection without the test of InsideBreakPoint.
DbgInspectUnguarded ==
    /\ request = "GetVariables" /\ DbgStep("dispatch", "reply")
    /\ UNCHANGED <<vmThread, shared, dbgIdx, request, dbgExit, conVars,
                   serverVars>>

\* HandleGetVariables and the other inspections answer inside a stop only.
DbgInspect ==
    /\ request = "GetVariables"
    /\ DbgStep("dispatch", IF insideBreakPoint THEN "reply" ELSE "processed")
    /\ UNCHANGED <<vmThread, shared, dbgIdx, request, dbgExit, conVars,
                   serverVars>>

DbgReply ==
    /\ DbgStep("reply", "processed") /\ Free(clientLinkMutex)
    /\ crashed' = (client = "null")
    /\ UNCHANGED <<vmThread, shared, dbgIdx, request, dbgExit, conVars,
                   insideBreakPoint, debugStoppedByClient>>

\* HandleStop
DbgStop ==
    /\ request = "Stop" /\ DbgStep("dispatch", "processed")
    /\ debugStoppedByClient' = TRUE
    /\ UNCHANGED <<vmThread, shared, dbgIdx, request, dbgExit, conVars,
                   insideBreakPoint, crashed>>

\* RequestProcessed clears the message of the link without locking it.
DbgProcessed ==
    /\ DbgStep("processed", "test") /\ request' = "none"
    /\ crashed' = (client = "null")
    /\ UNCHANGED <<vmThread, shared, dbgIdx, dbgExit, conVars,
                   insideBreakPoint, debugStoppedByClient>>

\* ThreadWrapper releases the thread's mutex after its function has returned.
DbgFinish ==
    /\ DbgStep("finish", "off")
    /\ UNCHANGED <<vmThread, shared, dbgIdx, request, dbgExit, conVars, serverVars>>

-----------------------------------------------------------------------------
(* The connection thread: TryEstablishClientConnection.                    *)

ConStep(from, to) == conPc = from /\ conPc' = to

\* CLIENT_LINK_LOCK is kept until the thread returns.
ConBegin ==
    /\ ConStep("begin", "accept")
    /\ Free(clientLinkMutex) /\ clientLinkMutex' = "con"
    /\ UNCHANGED <<vmThread, callbacks, linkVars, messengerMutex,
                   dataCreationMutex, dbgVars, conIdx, conExit, serverVars>>

\* TryAcceptClient
ConAccept ==
    /\ ConStep("accept", "accepted") /\ ~conExit /\ peer = "connecting"
    /\ client' = "link" /\ peer' = "attached" /\ inbox' = <<>>
    /\ UNCHANGED <<vmThread, callbacks, mutexes, dbgVars, conIdx, conExit,
                   serverVars>>

ConAccepted ==
    /\ conPc = "accepted"
    /\ crashed' = (client = "null")
    /\ CASE client = "broken" -> conPc' = "accept" /\ client' = "null" /\ UNCHANGED clientLinkMutex
         [] client # "broken" /\ conExit ->
                conPc' = "finish" /\ client' = "null" /\ clientLinkMutex' = "free"
         [] OTHER -> conPc' = "init" /\ UNCHANGED <<client, clientLinkMutex>>
    /\ UNCHANGED <<vmThread, callbacks, peer, inbox, messengerMutex,
                   dataCreationMutex, dbgVars, conIdx, conExit,
                   insideBreakPoint, debugStoppedByClient>>

ConExit ==
    /\ ConStep("accept", "finish") /\ conExit
    /\ client' = "null" /\ clientLinkMutex' = "free"
    /\ UNCHANGED <<vmThread, callbacks, peer, inbox, messengerMutex,
                   dataCreationMutex, dbgVars, conIdx, conExit, serverVars>>

\* InitialiseAfterClientConnection: DATA_CREATION_LOCK
ConInit ==
    /\ ConStep("init", "receive")
    /\ Free(dataCreationMutex) /\ dataCreationMutex' = "con"
    /\ UNCHANGED <<vmThread, callbacks, linkVars, messengerMutex,
                   clientLinkMutex, dbgVars, conIdx, conExit, serverVars>>

\* ReceiveAllBreakPoints, the content of which is module BreakPointSync.
ConReceive ==
    /\ client = "link" /\ ConStep("receive", "set") /\ conIdx' = 1
    /\ UNCHANGED <<vmThread, shared, dbgVars, conExit, serverVars>>

ConReceiveFails ==
    /\ client # "link" /\ ConStep("receive", "accept")
    /\ client' = "null" /\ inbox' = <<>> /\ dataCreationMutex' = "free"
    /\ UNCHANGED <<vmThread, callbacks, peer, messengerMutex,
                   clientLinkMutex, dbgVars, conIdx, conExit, serverVars>>

ConSet ==
    /\ ConStep("set", IF conIdx = 8 THEN "startDbg" ELSE "set")
    /\ Free(messengerMutex)
    /\ callbacks' = callbacks \cup {CallbackOrder[conIdx]}
    /\ conIdx' = IF conIdx = 8 THEN 1 ELSE conIdx + 1
    /\ UNCHANGED <<vmThread, linkVars, mutexes, dbgVars, conExit, serverVars>>

\* debugThread->Start(), and the connection thread returns.
ConStartDbg ==
    /\ ConStep("startDbg", "finish") /\ dbgPc = "off"
    /\ dbgPc' = "test" /\ dataCreationMutex' = "free" /\ clientLinkMutex' = "free"
    /\ UNCHANGED <<vmThread, callbacks, linkVars, messengerMutex, dbgIdx,
                   request, dbgExit, conIdx, conExit, serverVars>>

ConFinish ==
    /\ ConStep("finish", "off")
    /\ UNCHANGED <<vmThread, shared, dbgVars, conIdx, conExit, serverVars>>

-----------------------------------------------------------------------------
(* The debugger client's process.                                          *)

PeerConnect ==
    /\ peer = "away" /\ peer' = "connecting"
    /\ UNCHANGED <<vmThread, callbacks, client, inbox, mutexes, server>>

PeerPost(r) ==
    /\ peer = "attached" /\ client = "link" /\ Len(inbox) < MaxInbox
    /\ r = "BreakExecution" => MayBreak
    /\ inbox' = Append(inbox, r)
    /\ UNCHANGED <<vmThread, callbacks, client, peer, mutexes, server>>

\* The process goes away, or sees that the server has deleted the link.
PeerDetach ==
    /\ peer = "attached" /\ peer' = "away"
    /\ MayDetach \/ client = "null"
    /\ client' = IF client = "link" THEN "broken" ELSE client
    /\ inbox' = <<>>
    /\ UNCHANGED <<vmThread, callbacks, mutexes, server>>

-----------------------------------------------------------------------------
VmNext ==
    \/ VmIsConnected \/ VmHandleAnyTraceCommand \/ VmUserRequest \/ VmTraceDone
    \/ VmLine \/ VmCondEnter \/ VmCondLeave \/ VmError \/ VmArtificial
    \/ VmEnter \/ VmOnStop \/ VmNotify \/ VmAdapter \/ VmSend \/ VmWait \/ VmLeave
    \/ VmClose \/ VmClosing
    \/ VmEnd \/ VmStopDbg \/ VmCheckClient \/ VmInfoStop \/ VmDeleteClient \/ VmStopCon

DbgNext ==
    \/ DbgTest \/ DbgIdle \/ DbgReceive \/ DbgLost \/ DbgReset \/ DbgGo \/ DbgRestart
    \/ DbgRelease \/ DbgPost \/ DbgFill \/ DbgMark
    \/ DbgBreakExecution \/ DbgInspect \/ DbgReply \/ DbgStop \/ DbgProcessed \/ DbgFinish

ConNext ==
    \/ ConBegin \/ ConAccept \/ ConAccepted \/ ConExit \/ ConInit
    \/ ConReceive \/ ConReceiveFails \/ ConSet \/ ConStartDbg \/ ConFinish

PeerNext == PeerConnect \/ PeerDetach \/ \E r \in Requests : PeerPost(r)

Next == ~crashed /\ (VmNext \/ DbgNext \/ ConNext \/ PeerNext)

Spec == Init /\ [][Next]_vars

(***************************************************************************)
(* Each thread is scheduled; the program, as long as it has not ended,    *)
(* keeps executing instructions.  Nothing is assumed of the client, and   *)
(* nothing of the program's calls to CloseClientConnection or CleanUp.    *)
(***************************************************************************)
VmProceeds ==
    \/ VmIsConnected \/ VmHandleAnyTraceCommand \/ VmUserRequest \/ VmTraceDone
    \/ VmLine \/ VmCondEnter \/ VmCondLeave \/ VmArtificial
    \/ VmEnter \/ VmOnStop \/ VmNotify \/ VmAdapter \/ VmSend \/ VmWait \/ VmLeave
    \/ VmClosing
    \/ VmStopDbg \/ VmCheckClient \/ VmInfoStop \/ VmDeleteClient \/ VmStopCon

Fairness ==
    /\ WF_vars(~crashed /\ VmProceeds)
    /\ WF_vars(~crashed /\ DbgNext)
    /\ WF_vars(~crashed /\ ConNext)

FairSpec == Spec /\ Fairness

-----------------------------------------------------------------------------
FlagsOK ==
    /\ inBreakPoint \in BOOLEAN /\ breakExecutionRequested \in BOOLEAN
    /\ isBreakFromTraceCommand \in BOOLEAN /\ done \in BOOLEAN
    /\ insideBreakPoint \in BOOLEAN /\ debugStoppedByClient \in BOOLEAN
    /\ dbgExit \in BOOLEAN /\ conExit \in BOOLEAN /\ crashed \in BOOLEAN

ValuesOK ==
    /\ vmPc \in VmPcs /\ vmMsg \in 0..3 /\ cmmd \in Releases \cup {"None"}
    /\ callbacks \subseteq Callbacks /\ messengerMutex \in {"free", "vm"}
    /\ client \in {"null", "link", "broken"}
    /\ clientLinkMutex \in {"free", "dbg", "con"}
    /\ dataCreationMutex \in {"free", "vm", "con"}
    /\ dbgPc \in DbgPcs /\ dbgIdx \in 1..8
    /\ request \in Requests \cup {"none"}
    /\ conPc \in ConPcs /\ conIdx \in 1..8
    /\ peer \in {"away", "connecting", "attached"} /\ inbox \in Seq(Requests)

\* The type invariant: every program counter is at a step of its thread, and
\* the messages, callbacks and requests stay within what the code knows.
TypeOK == FlagsOK /\ ValuesOK

\* The program is in BreakPointServiceLoop, not in EvaluateCondition.
InService == vmPc \in {"onStop", "notify", "adapter", "send", "wait", "leave"}
             /\ vmMsg # 0

\* NotifyStopPoint of this stop is over.
PastReport == \/ vmPc = "send" /\ vmMsg = 1
              \/ vmPc \in {"notify", "adapter", "send"} /\ vmMsg \in {2, 3}
              \/ vmPc = "wait"

\* A command that releases the program (the one of the last stop is reset last).
PendingOrder == vmPc # "onStop" /\ cmmd # "None"

(***************************************************************************)
(* The handshake between the two threads, across a flag the virtual       *)
(* machine's thread sets and another the server keeps: a request that     *)
(* dereferences the context of the break (all handlers behind             *)
(* InsideBreakPoint) is handled only while the program is in the service  *)
(* loop, past its report, with no command pending; and the command of a   *)
(* release in progress has not been overtaken by the program.             *)
(***************************************************************************)
Handshake ==
    /\ inBreakPoint <=> (InService \/ vmPc = "condLeave")
    /\ insideBreakPoint => PastReport /\ cmmd = "None" /\ dbgPc # "post"
    /\ dbgPc = "post" => PastReport /\ cmmd = "None" /\ request \in Releases
    /\ InService /\ vmPc \notin {"onStop", "leave"} /\ ~PastReport
           => cmmd = "None"

(***************************************************************************)
(* An inspection that was let in by InsideBreakPoint reads the stacks and *)
(* variables of a program that is still stopped when it answers.          *)
(***************************************************************************)
InspectionSeesStoppedProgram ==
    dbgPc = "reply" => insideBreakPoint /\ vmPc # "leave" /\ inBreakPoint

(***************************************************************************)
(* The two threads that start each other never start one that is still in *)
(* its function: uthread::Start, which is called with mutexes locked,     *)
(* waits for a return at most, never for a lock.                          *)
(***************************************************************************)
StartsOnlyFinishedThreads ==
    /\ dbgPc = "restart" => conPc \in {"off", "finish"}
    /\ conPc = "startDbg" => dbgPc \in {"off", "finish"}

\* The messages of a stop go out in order, and the program leaves with a command.
ServiceInOrder ==
    /\ vmPc = "onStop" => vmMsg = 1
    /\ vmPc \in {"wait", "leave"} => vmMsg = 3
    /\ vmPc = "leave" => cmmd # "None"

\* The steps of CleanUpForClientConnection, which hold the data creation mutex.
Ending == {"stopDbg", "checkClient", "infoStop", "deleteClient", "stopCon"}

\* At most one of the two threads is in its function; the clean-up locks the other out.
ThreadsAlternate ==
    /\ conPc \in {"off", "finish"} \/ dbgPc \in {"off", "finish", "destroyed"}
    /\ conPc \in {"receive", "set", "startDbg"} => dataCreationMutex = "con"
    /\ vmPc \in Ending => dataCreationMutex = "vm"
    /\ dbgPc = "destroyed" => vmPc \in (Ending \ {"stopDbg"}) \cup {"ended"}
    /\ vmPc \in Ending \ {"stopDbg"} => dbgPc = "destroyed"
    /\ vmPc = "ended" => conPc = "off" /\ dbgPc = "destroyed"

\* An inspection on its way to the client keeps the stop that let it in.
ReplyInside == dbgPc = "reply" => insideBreakPoint

(***************************************************************************)
(* The inductive invariant: what the three threads know of each other at  *)
(* every step, from which the properties above follow for any number of   *)
(* trace commands, any socket capacity and whatever else may happen.      *)
(***************************************************************************)
IInv == TypeOK /\ Handshake /\ ServiceInOrder /\ ThreadsAlternate
        /\ ReplyInside

\* What BreakSession sees of the backend: a release counts from the moment the
\* server has accepted it, a stop from the moment it may be released.
Product == CASE ~InService -> "running"
             [] InService /\ insideBreakPoint -> "stopped"
             [] InService /\ ~insideBreakPoint /\ (dbgPc = "post" \/ PendingOrder) -> "released"
             [] OTHER -> "breaking"

Order == IF dbgPc = "post" THEN request ELSE IF InService /\ PendingOrder THEN cmmd ELSE "None"

Session == INSTANCE BreakSession WITH
    Orders <- Releases, NoOrder <- "None", product <- Product, order <- Order

(***************************************************************************)
(* Across pipelined requests, lost clients and restarted threads the      *)
(* program is released once per reported stop, and leaves with the very   *)
(* command that released it.                                              *)
(***************************************************************************)
ImplementsBreakSession == Session!BSSpec

\* A program that has entered a break lets the client know.
BreakIsReported == (vmPc = "enter") ~> insideBreakPoint

\* A release accepted at a stop gets the program out of it.
ReleaseIsHonoured ==
    (dbgPc = "dispatch" /\ request \in Releases /\ insideBreakPoint) ~> (vmPc = "run")

==============================================================================
