---------------------------- MODULE MCCollector -----------------------------
EXTENDS Collector, TLC
Symmetry == Permutations(Container) \cup Permutations(StackSlot)
=============================================================================
