\* Copies of a note are deleted and renamed.
SPECIFICATION Spec
CONSTANTS
  A = A  B = B  C = C  D = D  X = X  Y = Y  R = R  S = S  a = a  x = x
  Absent = Absent  Null = Null
  Path = {A, B, C, X, R}
  Token = {A, B, C, X, R}
  Title <- Same
  Stem <- Same
  Body <- Twins
  HasInode = FALSE
  InitText <- OneLeafAndTwin
  Moves <- AToC
  FolderMoves <- Nobody
  ExternalMoves <- DeleteAndCopy
  When = {"closed", "open"}
  Hasty = TRUE
  Splits = TRUE
  Outside = {"close"}
  Fuse = 1
  MaxSecond = 0
  MaxMoves = 4
  MaxCrashes = 2
INVARIANT NeverMisled
CHECK_DEADLOCK FALSE
