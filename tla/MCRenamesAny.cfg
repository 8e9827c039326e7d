\* Everything that can happen, at any time, with names used again.
SPECIFICATION Spec
CONSTANTS
  A = A  B = B  C = C  D = D  X = X  Y = Y  R = R  S = S  a = a  x = x
  Absent = Absent  Null = Null
  Path = {A, B, R}
  Token = {A, B, R}
  Title <- Same
  Stem <- Same
  Body <- Same
  HasInode = TRUE
  InitText <- OneLeaf
  Moves <- ThereAndBack
  FolderMoves <- OneNoteFolder
  ExternalMoves <- ThereAndBack
  When = {"closed", "scan", "open"}
  Hasty = TRUE
  Splits = TRUE
  Outside = {"crash", "close", "wipe", "unreadable"}
  Fuse = 0
  MaxSecond = 1
  MaxMoves = 2
  MaxCrashes = 1
INVARIANTS TypeOK OneRowPerToken
CHECK_DEADLOCK FALSE
