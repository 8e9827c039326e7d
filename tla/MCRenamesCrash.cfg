\* A note that others refer to is renamed by everyone, and its folder too.
SPECIFICATION Spec
CONSTANTS
  A = A  B = B  C = C  D = D  X = X  Y = Y  R = R  S = S  a = a  x = x
  Absent = Absent  Null = Null
  Path = {A, B, C, D, X, Y, R, S}
  Token = {A, B, C, D, X, Y, R, S, a, x}
  Title <- Titles
  Stem <- Same
  Body <- Same
  HasInode = TRUE
  InitText <- InFolder
  Moves <- Onward
  FolderMoves <- TheFolder
  ExternalMoves <- ToD
  When = {"closed", "open"}
  Hasty = FALSE
  Splits = TRUE
  Outside = {"crash"}
  Fuse = 1
  MaxSecond = 1
  MaxMoves = 3
  MaxCrashes = 1
INVARIANTS LinksFollow IndexAgrees
CHECK_DEADLOCK FALSE
