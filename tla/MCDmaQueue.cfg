\* Three blocks, and frames of one or two descriptors.
SPECIFICATION Spec
CONSTANTS
  FillQ = FillQ
  DrainQ = DrainQ
  b1 = b1
  b2 = b2
  b3 = b3
  t1 = t1
  t2 = t2
  t3 = t3
  Terminators <- MCTerminators
  Blocks <- MCBlocks
  Data <- MCData
  Reserved = Reserved
  NULL = NULL
  MaxLen = 2
SYMMETRY Symmetry
PROPERTIES CircuitKept
\* With every block filled and not read, the device stands still.
CHECK_DEADLOCK FALSE
