\* A push through memory is decoded with an operand size of four bytes.
SPECIFICATION Spec
CONSTANTS
  Radix = 4
  Forms <- MCForms
  Contexts <- MCContexts
INVARIANT PushesAreStackWide
CHECK_DEADLOCK FALSE
