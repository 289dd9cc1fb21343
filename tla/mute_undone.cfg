SPECIFICATION Spec
CONSTANTS
  Calls <- OneCall
  Ports <- TwoPorts
  MaxEvents = 3
  AppOps <- PublicOps
  MaxBlocks = 1
  Offered <- ThreeStatuses
INVARIANTS
  MutedIsSilent
CHECK_DEADLOCK FALSE
