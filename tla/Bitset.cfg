\* Register lists, or a pool, of up to three words, under every sequence of calls.
SPECIFICATION Spec
CONSTANTS
  W = 2
  Pools = {p}
  Lists = {a, b}
  Bits = {0, 1, 2, 3, 4}
  Widths = {0, 1, 2, 4, 5}
SYMMETRY Alike
CONSTRAINT Together
INVARIANTS InBounds Trimmed QueriesAgree
PROPERTY Refines
