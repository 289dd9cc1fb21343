SPECIFICATION Spec
CONSTANTS
  Calls <- TwoCalls
  Ports <- ThreePorts
  MaxEvents = 5
  AppOps <- PublicOps
  MaxBlocks = 1
  Offered <- ThreeStatuses
INVARIANTS
  ActiveMediaIsHeard
CHECK_DEADLOCK FALSE
