SPECIFICATION Spec
CONSTANTS
  a = a
  b = b
  Objects = {a, b}
  NativeFds = {3, 4}
  LindFds = {10, 11}
  MaxCalls = 4
  MaxFaults = 0
SYMMETRY Symmetry
INVARIANT
  MmapMapsFile
CHECK_DEADLOCK FALSE
