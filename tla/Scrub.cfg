SPECIFICATION ScrubSpec
CONSTANTS
  WordMod = 32
  WordBits = 5
  Pow2 <- MCPow2
  Logic <- MCLogic
  InsnTable <- BothTables
  MaxInsnLen = 2
  Images <- MCPrograms
  Bases <- MCBases
  StackBase = 6
  StackSize = 2
  MaxSteps = 4
  TraceLimit = 3
  Margin = 2
  Align = 2
  MaxWindow = 8
INVARIANTS TypeOK ScrubberIsFaithful WindowShowsTheStack FaultsSpoilOnlyTheStackPointer TraceIsThePrefixOfTheRun StopIsExplained TheStackGivesBack
PROPERTIES Terminates EffectsAreExact WritesAreProtected
