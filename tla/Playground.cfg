SPECIFICATION PlaygroundSpec
CONSTANTS
  loop = loop
  sum = sum
  typo = typo
  blank = blank
  Nothing = Nothing
  Unavailable = Unavailable
  Texts = {loop, sum, typo, blank}
  Bad = {typo}
  Rowless = {blank}
  FirstText = loop
  Rows = 2
  MaxActs = 3
INVARIANTS DiagnosticsAreLive TheSelectionIsExplained TheLastRunIsTraced TheDisassemblyIsCurrent
CHECK_DEADLOCK FALSE
