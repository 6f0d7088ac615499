SPECIFICATION Spec
CONSTANTS
  None = None
  Panicked = Panicked
  Undecodable <- MCUndecodable
  Registers = {"rax", "rip"}
  Disks <- MCDisks
  Answers <- MCAnswers
  Ids = {"one", "two"}
  MaxGestures = 3
  MaxBoots = 2
INVARIANTS ServedExercisesAreSolvable PraiseIsEarned QuietCardSpeaksOfTheLastAnswer ThePageIsTheOneAskedFor
PROPERTY SettlesDown
CHECK_DEADLOCK FALSE
