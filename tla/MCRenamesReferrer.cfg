\* A note and its referrer are renamed before the queue is flushed.
SPECIFICATION Spec
CONSTANTS
  A = A  B = B  C = C  D = D  X = X  Y = Y  R = R  S = S  a = a  x = x
  Absent = Absent  Null = Null
  Path = {A, B, C, X, Y}
  Token = {A, B, C, X, Y}
  Title <- Same
  Stem <- Same
  Body <- Same
  HasInode = TRUE
  InitText <- OneReferrer
  Moves <- ReferrerToo
  FolderMoves <- Nobody
  ExternalMoves <- Nobody
  When = {"open"}
  Hasty = FALSE
  Splits = FALSE
  Outside = {}
  Fuse = 1
  MaxSecond = 0
  MaxMoves = 3
  MaxCrashes = 0
INVARIANT LinksFollow
CHECK_DEADLOCK FALSE
