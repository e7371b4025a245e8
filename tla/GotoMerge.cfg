\* Every function of three blocks.  A pass that never ends reaches MaxLen.
SPECIFICATION Spec
CONSTANTS
  N = 3
  Bodies <- MCBodies
  MaxLen = 7
CHECK_DEADLOCK FALSE
INVARIANTS MeaningKept Merged
PROPERTY Finishes
