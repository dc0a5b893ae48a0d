-------------------------- MODULE CollectorClaims ---------------------------
(***************************************************************************)
(* A statement of the sources about the collector that does not hold.      *)
(***************************************************************************)
EXTENDS Collector

\* "When a table is collected, all delegates and delegators are also under
\* collection (recursively)." (DeltaTable.cpp:2206-2207.)  What the program cannot
\* reach any more is freed when the instruction is over, the delegates of a
\* collected table like the rest.
DelegatesAreCollected ==
    work = <<>> => \A c \in Container : phase[c] = "free" \/ c \in ReachableFrom(Roots)
=============================================================================
