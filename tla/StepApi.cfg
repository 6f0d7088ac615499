SPECIFICATION Spec
CONSTANTS
  WordMod = 16
  WordBits = 4
  Pow2 <- MCPow2
  Logic <- MCLogic
  InsnTable <- ControlTable
  MaxInsnLen = 2
  Images <- MCSteps
  Bases <- MCBases
  StackBase = 6
  StackSize = 2
  MaxRequests = 4
  MaxRegions = 2
  MaxRegionCells = 3
INVARIANT CapturesAreExact
PROPERTY SteppingIsTheRun
