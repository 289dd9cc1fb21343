SPECIFICATION Spec
CONSTANTS
  a = a
  b = b
  c = c
  None = None
  Threads <- ThreeThreads
INVARIANTS
  LastOnesRoute
  OneInstanceUnlessRaced
CHECK_DEADLOCK FALSE
