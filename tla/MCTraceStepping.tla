--------------------------- MODULE MCTraceStepping ----------------------------
(* Two lines: a statement with a call after its first instruction, an      *)
(* instruction without a line, another statement.                          *)
EXTENDS TraceStepping, TLC

Instruction(line, leads, call) == [line |-> line, leads |-> leads, call |-> call]

MCCode == [v \in VMs |-> << Instruction(1, TRUE, FALSE), Instruction(1, FALSE, TRUE),
                            Instruction(0, FALSE, FALSE), Instruction(2, TRUE, FALSE) >>]

\* Bound: a command that was not posted whole is followed on few entries only,
\* until the break that resets it.
TornIsShort == torn => Len(stack) <= 1 /\ callNesting \in -1..1

Symmetry == Permutations(VMs)
=============================================================================
