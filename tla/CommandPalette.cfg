SPECIFICATION PaletteSpec
CONSTANTS
  Queries = {"", "mov", "stack", "rax"}
  Empty = ""
  Entities <- MCEntities
  LessonHits <- MCLessons
  MaxTokens = 4
INVARIANT HitsMatchTheQuery
PROPERTIES LateHitsKeepTheSelection ClosedIsQuiet SearchingEnds
CHECK_DEADLOCK FALSE
