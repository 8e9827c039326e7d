\* A tag is renamed, a note with it is saved, and the rename is undone before
\* anything is flushed.
SPECIFICATION TagSpec
CONSTANTS
  n1 = n1  n2 = n2
  Note = {n1, n2}  InitText <- Tagged
  TagMoves <- OneMove  BlockMoves = {}
  Hasty = FALSE  LateUndo = TRUE
  RowLimit = 1  MaxRenames = 1  MaxWrites = 1  MaxTicks = 0  MaxFalls = 0
PROPERTY UndoneIsUndone
CHECK_DEADLOCK FALSE
