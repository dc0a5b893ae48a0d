\* Three tables with a field each, two variables, a value of C++ code, one
\* external count and up to two delegations.
CONSTANTS
  Container = {a, b, c}
  StackSlot = {s, t}
  NativeSlot = {n}
  FieldName = {f}
  NoContainer = none
  MaxExternal = 1
  MaxDelegations = 2
SPECIFICATION Spec
SYMMETRY Symmetry
INVARIANTS TypeOK CountersAgree ReachableIsAlive NothingFreedIsUsed NoGarbageLeft
PROPERTY DiesInOrder
