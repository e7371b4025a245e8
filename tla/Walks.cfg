\* Three blocks with every set of edges, two from a block; a pool left full by the walk before.
SPECIFICATION Spec
CONSTANTS
  Blocks = {0, 1, 2}
  NoSize = 99
  LeftOver <- Pools
  DefCodes <- MCDefCodes
  ClearCodes <- MCClearCodes
  SizeCodes <- MCSizeCodes
  UseCodes <- MCUseCodes
  Graphs <- Branching
  Sizes = {2, 4}
  UseSizes = {4}
CHECK_DEADLOCK FALSE
INVARIANTS
  DefsGathered AnswerRight SizeAgrees
  GathersPastRedefinitions
PROPERTY Ends
