\* A label in a displacement makes the layout oscillate until the loop panics.
SPECIFICATION Spec
CONSTANTS
  Programs <- MCBiasedPrograms
  Origins = {0}
  Labels <- MCLabels
  RoundLimit = 64
  MaxDisp32 = 1000
INVARIANT NeverPanics
CHECK_DEADLOCK FALSE
