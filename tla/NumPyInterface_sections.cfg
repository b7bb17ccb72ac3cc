SPECIFICATION NumPySpec
CHECK_DEADLOCK FALSE
CONSTANTS
  CpuCount = 4
  MaxLen = 6
  MaxThreads = 5
  MaxData = 2
  MaxCalls = 2
  Requests <- MCRequests
  Calls <- MCCalls
  Arrays <- MCArrays
INVARIANTS ThreadsMakeNoDifference CountsAsNumPy EdgesAsGiven
