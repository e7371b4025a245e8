SPECIFICATION Spec
CONSTANTS
  Byte = 2
  Wide = 2
  RegBits <- MCRegBits
  HighOf <- MCHighOf
  CcRegs <- MCCcRegs
  CellOf <- MCCellOf
  SimdRegs <- MCSimdRegs
  DivLimit = 15
  NBlocks = 5
  At <- MCAt
  TempBytes <- MCTempBytes
  TempEnd = 16
  FlagSlots = 3
  Smears = 2
  Functions <- MCFunctions
  Ignored <- MCIgnored
  MaxEvents = 1
  MaxRounds = 6
  Fuel = 12
INVARIANT ProgramKept EmittedDoes EdgesAgree OkMeansUnchanged Finishes
CHECK_DEADLOCK FALSE
