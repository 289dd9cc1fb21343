SPECIFICATION Spec
CONSTANTS
  AccIds <- MCAccIds
  MaxCalls = 2
  MaxRequests = 3
INVARIANTS
  DeletesItsAccount
CHECK_DEADLOCK FALSE
