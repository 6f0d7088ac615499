SPECIFICATION Spec
CONSTANTS
  WordBits = 8
  Pow2 <- MCPow2
  Logic <- MCLogic
  Widths = {2, 4, 8}
  Seconds <- MCSeconds
INVARIANTS CarriesChain ConditionsOrder ShiftsAreArithmetic DivisionRebuilds
CHECK_DEADLOCK FALSE
