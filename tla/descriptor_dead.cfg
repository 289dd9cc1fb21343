SPECIFICATION Spec
CONSTANTS
  None = None
  a = a
  b = b
  Pool <- TwoThreads
  MaxBlocks = 3
INVARIANTS
  DescriptorLive
CHECK_DEADLOCK FALSE
