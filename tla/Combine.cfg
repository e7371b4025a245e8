SPECIFICATION Spec
CONSTANTS
  Byte = 2
  Wide = 2
  RegBits <- MCRegBits
  HighOf <- MCHighOf
  CcRegs <- MCCcRegs
  CellOf <- MCCellOf
  SimdRegs <- MCSimdRegs
  DivLimit = 15
  MaxCalls = 8
  Cases <- MCCases
INVARIANT MeaningKept MaskCovers SizesAgree Settles
CHECK_DEADLOCK FALSE
