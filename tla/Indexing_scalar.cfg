SPECIFICATION Spec
CONSTANTS
  Shapes <- OneAxis
  Reads <- NoReads
  Writes <- ScalarWrites
INVARIANT ScalarFillsSlices
CHECK_DEADLOCK FALSE
