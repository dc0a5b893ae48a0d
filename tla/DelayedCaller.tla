--------------------------- MODULE DelayedCaller ----------------------------
(***************************************************************************)
(* DelayedCaller, by which any thread of the IDE has a function called on *)
(* the thread of the user interface ("gui") at its next turn of the event *)
(* loop.  Every block of code that locks m_mutex is one step; between two *)
(* of them other threads post.  A function that is called may open a      *)
(* dialog, whose event loop calls onCallExpired inside the running one.   *)
(***************************************************************************)
EXTENDS Naturals, SequencesExt

CONSTANTS
    Calls,          \* the calls that may be posted
    NoCall,
    MaxNesting,     \* activations of onCallExpired inside each other
    MaxEvents       \* events the posts may leave pending (a bound of the model)

ASSUME CallsAssumption == NoCall \notin Calls
ASSUME BoundsAssumption == MaxNesting \in Nat \ {0} /\ MaxEvents \in Nat \ {0}

VARIABLES
    list,           \* m_callbackList
    duringCall,     \* m_duringCall
    events,         \* number of EVENT_CALLs pending
    gui,            \* the activations of onCallExpired, innermost last
    late            \* the calls that were posted too late for the test (a
                    \* history variable, for the properties)

vars == <<list, duringCall, events, gui, late>>

\* An activation of onCallExpired: the block it is before, the rest of
\* `current' and the function being called.
Points == {"swap", "next", "call", "test", "clear"}
Activation(p, b, c) == [at |-> p, batch |-> b, call |-> c]

Init == list = <<>> /\ duringCall = FALSE /\ events = 0 /\ gui = <<>> /\ late = {}

\* The innermost activation is before block p.
At(p) == gui # <<>> /\ Last(gui).at = p

\* ... and its next state is a.
Becomes(a) == gui' = [gui EXCEPT ![Len(gui)] = a]

\* Code other than onCallExpired runs on the user interface's thread.
GuiCodeRuns == gui = <<>> \/ At("call")

Batches == UNION {Range(gui[i].batch) : i \in DOMAIN gui}
Waiting == Range(list) \cup Batches

\* onCallExpired has tested the list and not yet cleared m_duringCall: what
\* is posted now is seen by neither.
TooLate == duringCall /\ gui # <<>> /\ gui[1].at = "clear"

\* The place of c in the queue was taken in time, or too late.
NoteLate(c) == late' = IF TooLate THEN late \cup {c} ELSE late \ {c}
-----------------------------------------------------------------------------
\* Fault: an event is added for the first call of the list only.
PostDelayedCallFirst(c) ==
    /\ c \notin Waiting
    /\ events < MaxEvents
    /\ list' = Append(list, c)
    /\ events' = IF duringCall \/ list # <<>> THEN events ELSE events + 1
    /\ NoteLate(c)
    /\ UNCHANGED <<duringCall, gui>>

\* Any thread may post, at any time, the functions that are called included.
\* A call stands for its place in the queue: the same function may be posted
\* again once its call has begun.
PostDelayedCall(c) ==
    /\ c \notin Waiting
    /\ events < MaxEvents
    /\ list' = Append(list, c)
    /\ events' = IF duringCall THEN events ELSE events + 1
    /\ NoteLate(c)
    /\ UNCHANGED <<duringCall, gui>>

CancelAllDelayedCalls ==
    /\ GuiCodeRuns
    /\ list' = <<>>
    /\ UNCHANGED <<duringCall, events, gui, late>>

\* The event loop, the main one or a dialog's, takes an event.
OnCallExpired ==
    /\ GuiCodeRuns
    /\ Len(gui) < MaxNesting
    /\ events > 0
    /\ events' = events - 1
    /\ duringCall' = TRUE
    /\ gui' = Append(gui, Activation("swap", <<>>, NoCall))
    /\ UNCHANGED <<list, late>>

\* Fault: the list is copied, not swapped.
SwapCopies ==
    /\ At("swap")
    /\ Becomes(Activation("next", list, NoCall))
    /\ UNCHANGED <<list, duringCall, events, late>>

Swap ==
    /\ At("swap")
    /\ Becomes(Activation("next", list, NoCall))
    /\ list' = <<>>
    /\ UNCHANGED <<duringCall, events, late>>

CallNext ==
    /\ At("next")
    /\ LET batch == Last(gui).batch
       IN  IF batch = <<>>
           THEN Becomes(Activation("test", <<>>, NoCall))
           ELSE Becomes(Activation("call", Tail(batch), Head(batch)))
    /\ UNCHANGED <<list, duringCall, events, late>>

CallReturns ==
    /\ At("call")
    /\ Becomes(Activation("next", Last(gui).batch, NoCall))
    /\ UNCHANGED <<list, duringCall, events, late>>

\* Fault: `current' is cleared after the calls only, not after a throw.
CallThrowsKeeping ==
    /\ At("call")
    /\ Becomes(Activation("test", Last(gui).batch, NoCall))
    /\ UNCHANGED <<list, duringCall, events, late>>

\* The exception is swallowed, and with it the rest of the calls.
CallThrows ==
    /\ At("call")
    /\ Becomes(Activation("test", <<>>, NoCall))
    /\ UNCHANGED <<list, duringCall, events, late>>

\* Fault: calls posted meanwhile are left to the next post.
TestSkipped ==
    /\ At("test")
    /\ Becomes(Activation("clear", <<>>, NoCall))
    /\ UNCHANGED <<list, duringCall, events, late>>

Test ==
    /\ At("test")
    /\ events' = IF list # <<>> THEN events + 1 ELSE events
    /\ Becomes(Activation("clear", <<>>, NoCall))
    /\ UNCHANGED <<list, duringCall, late>>

Clear ==
    /\ At("clear")
    /\ duringCall' = FALSE
    /\ gui' = Front(gui)
    /\ UNCHANGED <<list, events, late>>

GuiNext ==
    OnCallExpired \/ Swap \/ CallNext \/ CallReturns \/ CallThrows \/ Test \/ Clear

Next ==
    \/ \E c \in Calls : PostDelayedCall(c)
    \/ CancelAllDelayedCalls
    \/ GuiNext

Spec == Init /\ [][Next]_vars

\* The steps of onCallExpired when it is the n-th activation.
Proceeds(n) == Len(gui) = n /\ (Swap \/ CallNext \/ CallReturns \/ Test \/ Clear)

\* The main event loop takes its events, onCallExpired proceeds, and every
\* function that is called returns, or throws; a dialog of it is closed in
\* the end although its own event loop is entered time and again.
FairSpec ==
    /\ Spec
    /\ WF_vars(gui = <<>> /\ OnCallExpired)
    /\ \A n \in 1 .. MaxNesting : SF_vars(Proceeds(n))
-----------------------------------------------------------------------------
\* Types, and which part of an activation is used where.
TypeOK ==
    /\ list \in Seq(Calls)
    /\ duringCall \in BOOLEAN
    /\ events \in Nat
    /\ late \subseteq Calls
    /\ gui \in Seq([at : Points, batch : Seq(Calls), call : Calls \cup {NoCall}])
    /\ \A i \in DOMAIN gui :
          /\ gui[i].call # NoCall <=> gui[i].at = "call"
          /\ gui[i].at \in {"swap", "test", "clear"} => gui[i].batch = <<>>

\* An activation below another one is inside a function it calls, and
\* m_duringCall is off when there is none at all.  (An inner activation
\* turns it off for the outer ones.)
ActivationsNest ==
    /\ \A i \in DOMAIN gui : i < Len(gui) => gui[i].at = "call"
    /\ gui = <<>> => ~duringCall

\* Every call in the list is seen to (an event is pending or the outermost
\* activation has its test of the list ahead, on which PostDelayedCall relies
\* when it adds no event during a call), except one that another thread posts
\* between that test and the clearing of m_duringCall.  What the user
\* interface's own code posts is never late.
NoCallStranded ==
    (\E c \in Range(list) : c \notin late) =>
        events > 0 \/ (gui # <<>> /\ gui[1].at # "clear")

\* Every call that was posted in time is called, dropped by an exception or
\* canceled, whatever dialogs the functions open and however they fail.
EveryCallEnds ==
    \A c \in Calls : (c \in Waiting /\ c \notin late) ~> c \notin Waiting

\* The delayed calls are a queue: nothing a thread does makes a call start
\* before an older one or twice.  A dialog's event loop calls newer functions
\* while the one that opened it holds up the rest of its batch; the queue, which
\* is that of the outermost activation, has these called off.
Queue == INSTANCE CallQueue WITH
    queue <- IF gui = <<>> THEN list ELSE gui[1].batch \o list,
    running <- IF gui = <<>> THEN NoCall ELSE gui[1].call

ImplementsCallQueue == Queue!CQSpec
=============================================================================
