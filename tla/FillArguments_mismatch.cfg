SPECIFICATION Spec
CONSTANTS
  CpuCount = 4
  MaxLen = 4
  MaxThreads = 3
  Requests <- UnequalArrays
INVARIANTS MismatchRaises
CHECK_DEADLOCK FALSE
