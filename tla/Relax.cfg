\* Branches to labels and to addresses, and operands that hold a label's value.
SPECIFICATION Spec
CONSTANTS
  Programs <- MCPrograms
  Origins <- MCOrigins
  Labels <- MCLabels
  RoundLimit = 64
  MaxDisp32 = 1000
INVARIANTS
  BranchesLand
  ShortestForms
  RoundsArePaidFor
PROPERTIES
  Converges
CHECK_DEADLOCK FALSE
