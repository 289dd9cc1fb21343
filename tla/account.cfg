SPECIFICATION Spec
CONSTANTS
  TransportIds <- MCTransportIds
  Types <- MCTypes
  Parts <- MCParts
  Numbers <- MCNumbers
  Hosts <- MCHosts
  MaxCalls = 1
  MaxBlocks = 5
INVARIANTS
  TypeOK
  BoundIsConfigured
  RegistrarReachable
  AorIsAsked
CHECK_DEADLOCK FALSE
