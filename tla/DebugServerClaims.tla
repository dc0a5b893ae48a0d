------------------------- MODULE DebugServerClaims --------------------------
(***************************************************************************)
(* What comments of the debugger backend say of its threads, each checked *)
(* by a run of its own, and each refuted by an interleaving of DebugServer. *)
(***************************************************************************)
EXTENDS DebugServer

(***************************************************************************)
(* DebugServer.cpp:82-83, of a lost client: "In case we were stopped in a *)
(* breakpoint (tracing) we must artificially post a Go() request to the   *)
(* tracer so that the product continues its execution."  A program that   *)
(* passed IsConnected before the reset breaks after it: its stop is       *)
(* reported to nobody, and the Go request has already been spent.         *)
(***************************************************************************)
LostClientReleasesProgram == (dbgPc = "restart" /\ InService) ~> (vmPc = "run")

(***************************************************************************)
(* DebugServer.cpp:86, of a lost client: "We respawn the debug client     *)
(* connection thread."  The service thread takes the messenger's mutex    *)
(* while it holds the client link, the virtual machine's thread takes     *)
(* them in the other order.                                               *)
(***************************************************************************)
LostClientIsReplaced == (dbgPc = "reset") ~> (conPc = "begin")
=============================================================================
