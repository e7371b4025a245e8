\* Two functions of two instructions; at most two modifications each.
SPECIFICATION Spec
CONSTANTS
  Funcs = {"f", "g"}
  NInsns = 2
  MaxLeft = 2
CHECK_DEADLOCK FALSE
INVARIANTS RegistryFollowsToggle CaughtAtFixpoint
PROPERTY RequestEnds
