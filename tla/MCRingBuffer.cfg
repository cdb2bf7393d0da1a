SPECIFICATION Spec
CONSTANTS
  Cap = 3
  Byte = {0, 1, 2}
  NUL = 0
  Dat <- MCDat
  Prefix <- MCPrefix
  Size <- MCSize
INVARIANTS IndexInv
PROPERTIES RefinesFifo CallsWhole
