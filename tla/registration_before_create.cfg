SPECIFICATION Spec
CONSTANTS
  AccIds <- MCAccIds
  MaxCalls = 2
  MaxRequests = 2
INVARIANTS
  CreateBeforeUse
CHECK_DEADLOCK FALSE
