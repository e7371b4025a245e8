\* Uses behind a block that leaves the value alone.
SPECIFICATION Spec
CONSTANTS
  Blocks = {0, 1}
  NoSize = 99
  LeftOver <- Pools
  DefCodes <- OtherOnly
  ClearCodes <- OtherOnly
  SizeCodes <- OtherOnly
  UseCodes <- MCUseCodes
  Graphs <- Branching
  Sizes = {4}
  UseSizes = {4}
CHECK_DEADLOCK FALSE
INVARIANT NothingMissed
