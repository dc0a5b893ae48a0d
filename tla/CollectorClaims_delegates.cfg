\* Two tables, one of which delegates to the other.
CONSTANTS
  Container = {a, b}
  StackSlot = {s, t}
  NativeSlot = {n}
  FieldName = {f}
  NoContainer = none
  MaxExternal = 0
  MaxDelegations = 1
SPECIFICATION Spec
INVARIANT DelegatesAreCollected
