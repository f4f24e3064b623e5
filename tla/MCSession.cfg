CONSTANTS
  MaxPages = 6
  MaxRequests = 3
  MaxCodes = 3
SPECIFICATION Spec
INVARIANTS
  CodesAreSpentOnce
  RequestIsFound
  KeyIsTheTokens
CHECK_DEADLOCK FALSE
