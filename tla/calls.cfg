SPECIFICATION Spec
CONSTANTS
  Calls <- TwoCalls
  Ports <- TwoPorts
  MaxEvents = 3
  AppOps <- Ops
  MaxBlocks = 2
  Offered <- ThreeStatuses
INVARIANTS
  TypeOK
  HeardUnlessCrossed
  SilentUnlessCrossed
  CallIdServesOne
  MuteFindsCall
  EndToldBeforeReuse
  RingingIsAttended
PROPERTIES
  TeardownEnds
CHECK_DEADLOCK FALSE
