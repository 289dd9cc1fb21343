SPECIFICATION Spec
CONSTANTS
  TransportIds <- MCTransportIds
  Types <- MCTypes
  Parts <- MCParts
  Numbers <- MCNumbers
  Hosts <- MCHosts
  MaxCalls = 1
  MaxBlocks = 4
PROPERTIES
  CreatesWhenMissing
CHECK_DEADLOCK FALSE
