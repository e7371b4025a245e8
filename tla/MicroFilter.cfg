\* Two functions to decompile and two they call, an mbl_array_t address reused.
SPECIFICATION FilterSpec
CONSTANTS
  Fns = {1, 2, 3, 4}
  Ptrs = {p}
  p = p
  None = None
  Rounds = 10
  Mains = {1, 2}
  Mbas = {"m", "n"}
  Worlds <- MCWorlds
INVARIANTS DoesTheSame DispatchedAtEnd
PROPERTY Ends
