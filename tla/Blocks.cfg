\* A function of two blocks, one more made, two instructions and their copies.
SPECIFICATION Spec
CONSTANTS
  Insns = {1, 2, 3, 4, 5, 6}
  Objs = {1, 2, 3, 4, 5, 6}
  Eas = {16}
  NoEa = 99
  MaxQty = 3
  MaxInsns = 3
  First <- MCFirst
  Tables <- MCTables
  News <- MCNews
CHECK_DEADLOCK FALSE
INVARIANT WellLinked
PROPERTIES Refines TablesKept DuplicateKept
