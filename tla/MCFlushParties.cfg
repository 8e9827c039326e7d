\* Everyone at once while the clock ticks, with two tasks that enqueue and flush.
SPECIFICATION Spec
CONSTANTS
  a = a  b = b  c = c  d = d  t1 = t1  t2 = t2
  Free = Free  Absent = Absent
  File = {1}
  Token = {a, b}
  Task = {t1, t2}
  Rewrite <- BothWays
  InitText <- Link
  Outside = {"undo", "editor", "watcher", "external"}
  Fuse = 1
  MaxOps = 2
  MaxSecond = 1
  MaxEdits = 1
  MaxCrashes = 0
INVARIANTS TypeOK NothingDeletedUnapplied OneRowPerToken
SYMMETRY TaskSymmetry
