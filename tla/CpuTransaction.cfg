CONSTANTS
  Here = Here
  There = There
  P0 = P0
  P1 = P1
  Save = Save
  Fast = Fast
  Callers <- MCCallers
  Policies <- MCPolicies
  Offering <- MCOffering
  Tokens <- MCTokens
  HardwareMin = 1
  HardwareMax = 2
SYMMETRY MCSymmetry
SPECIFICATION Spec
INVARIANTS AllOrNothing RangesStayOrdered SuccessesAgree
