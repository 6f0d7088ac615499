SPECIFICATION PlaygroundSpec
CONSTANTS
  loop = loop
  sum = sum
  typo = typo
  blank = blank
  Nothing = Nothing
  Unavailable = Unavailable
  Texts = {loop, sum, typo, blank}
  Bad = {typo}
  Rowless = {blank}
  FirstText = loop
  Rows = 2
  MaxActs = 2
INVARIANT MarkersAreOfTheText
CHECK_DEADLOCK FALSE
