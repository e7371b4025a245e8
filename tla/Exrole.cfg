SPECIFICATION Spec
CONSTANTS
  Insns <- MCInsns
  StackSize = 4
  Field = 4
  Names <- MCNames
  Listings <- MCListings
  Namings <- MCNamings
  Functions <- MCFunctions
  Mask = 8
INVARIANT AsRecursion GivesUpOnDepth RolesRead
CHECK_DEADLOCK FALSE
