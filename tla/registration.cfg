SPECIFICATION Spec
CONSTANTS
  AccIds <- MCAccIds
  MaxCalls = 2
  MaxRequests = 4
INVARIANTS
  TypeOK
  IInv
  NoStaleAccount
  NoOrphanAccount
  CreateOnFreshLibrary
PROPERTIES
  ContractSpec
  SerialSpec
  QueueDrains
  RegisterAnswered
CHECK_DEADLOCK FALSE
