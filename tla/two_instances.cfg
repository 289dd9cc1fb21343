SPECIFICATION Spec
CONSTANTS
  a = a
  b = b
  c = c
  d = d
  None = None
  Callers <- FourCallers
INVARIANTS
  OneInstance
CHECK_DEADLOCK FALSE
