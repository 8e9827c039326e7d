\* The user saves while a flush writes the same note.
SPECIFICATION Spec
CONSTANTS
  a = a  b = b  c = c  d = d  t1 = t1  t2 = t2
  Free = Free  Absent = Absent
  File = {1}
  Token = {a, b, c}
  Task = {t1}
  Rewrite <- Single
  InitText <- Link
  Outside = {"editor"}
  Fuse = 2
  MaxOps = 1
  MaxSecond = 0
  MaxEdits = 1
  MaxCrashes = 0
PROPERTY FlushWritesTheView
