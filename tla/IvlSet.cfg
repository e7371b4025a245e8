\* Two interval sets over seven addresses.
SPECIFICATION Spec
CONSTANTS
  M = 7
  Sets = {a, b}
  Offs = {0, 1, 2, 3, 4, 5, 6}
  Sizes = {0, 1, 2, 3, 4, 5, 6}
INVARIANTS Canonical QueriesAgree
PROPERTY Refines
