----------------------------- MODULE CallQueue ------------------------------
(***************************************************************************)
(* What a delayed call is promised: calls start in the order they were    *)
(* posted, one at a time and each once.  A call that fails may take the   *)
(* oldest of the others with it, and the newest may be called off.        *)
(***************************************************************************)
EXTENDS Naturals, Sequences

CONSTANTS
    Calls,      \* the calls that may be posted
    NoCall      \* no call is running

VARIABLES
    queue,      \* calls posted and not started, oldest first
    running     \* the call that runs

CQInit == queue = <<>> /\ running = NoCall

Post(c) == queue' = Append(queue, c) /\ UNCHANGED running

Start ==
    /\ running = NoCall /\ queue # <<>>
    /\ running' = Head(queue)
    /\ queue' = Tail(queue)

Finish == running # NoCall /\ running' = NoCall /\ UNCHANGED queue

\* The running call fails, and the n oldest waiting ones are dropped.
Fail(n) ==
    /\ running # NoCall /\ running' = NoCall
    /\ queue' = SubSeq(queue, n + 1, Len(queue))

\* All but the n oldest waiting calls are called off.
CallOff(n) == queue' = SubSeq(queue, 1, n) /\ UNCHANGED running

CQNext ==
    \/ \E c \in Calls : Post(c)
    \/ Start
    \/ Finish
    \/ \E n \in 0 .. Len(queue) : Fail(n) \/ CallOff(n)

CQSpec == CQInit /\ [][CQNext]_<<queue, running>>
=============================================================================
