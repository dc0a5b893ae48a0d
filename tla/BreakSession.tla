---------------------------- MODULE BreakSession ----------------------------
(***************************************************************************)
(* What the debugger backend promises about one debugged program: the     *)
(* program runs, breaks, is reported as stopped, is given exactly one     *)
(* order, and continues with that order and no other.  Everything else    *)
(* (threads, mutexes, sockets, reconnections) is below this level; module *)
(* DebugServer implements it.                                             *)
(***************************************************************************)
CONSTANTS
    Orders,     \* the orders that release a stopped program
    NoOrder     \* no order is pending

VARIABLES
    product,    \* where the program is
    order       \* the order it was released with

ProductStates == {"running", "breaking", "stopped", "released"}

BSTypeOK == product \in ProductStates /\ order \in Orders \cup {NoOrder}

BSInit == product = "running" /\ order = NoOrder

\* The program decides to break; nobody knows yet.
Break == product = "running" /\ product' = "breaking" /\ UNCHANGED order

\* The stop is made known to the server; from here on it may be released.
Report == product = "breaking" /\ product' = "stopped" /\ UNCHANGED order

\* One order is accepted; a second one finds the program already released.
Release(o) == product = "stopped" /\ product' = "released" /\ order' = o

\* The program leaves the break with the order it was given.
Leave == product = "released" /\ product' = "running" /\ order' = NoOrder

BSNext == Break \/ Report \/ (\E o \in Orders : Release(o)) \/ Leave

BSSpec == BSInit /\ [][BSNext]_<<product, order>>
=============================================================================
