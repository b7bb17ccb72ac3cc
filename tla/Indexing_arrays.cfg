SPECIFICATION Spec
CONSTANTS
  Shapes <- MCShapes
  Reads <- MCReads
  Writes <- ArrayWrites
INVARIANT SelectionRight
INVARIANT WritesAddressed
CHECK_DEADLOCK FALSE
INVARIANT FittingAccepted
INVARIANT RangesAnswered
