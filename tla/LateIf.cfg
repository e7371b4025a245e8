SPECIFICATION Spec
CONSTANTS
  Bodies <- MCBodies
  Fuel = 24
INVARIANT MeaningKept Settled
PROPERTY SwapsRunOut
CHECK_DEADLOCK FALSE
