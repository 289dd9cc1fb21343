SPECIFICATION Spec
CONSTANTS
  Calls <- TwoCalls
  Ports <- ThreePorts
  MaxEvents = 5
  AppOps <- PublicOps
  MaxBlocks = 1
  Offered <- ThreeStatuses
INVARIANTS
  CallIdIsLive
CHECK_DEADLOCK FALSE
