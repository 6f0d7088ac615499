SPECIFICATION InspectSpec
CONSTANTS
  None = None
  WordMod = 2048
  HalfMod = 512
  QuarterMod = 64
  MaxSections = 4
  MaxDescriptors = 3
  MaxThunks = 4
  MaxExports = 5
  MaxDamages = 1
  Kinds = {"pie", "plain", "stripped", "library", "plain32", "few"}
  Files <- MCFiles
  Cuts <- MCCuts
  Values <- MCValues
INVARIANTS LinkedIsFound ImportsAreNeeded
PROPERTIES NothingIsInvented BadNamesSinkNothing
CHECK_DEADLOCK FALSE
