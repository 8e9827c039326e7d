\* Only flushes write files; the watcher and a crash come in between.
SPECIFICATION FairSpec
CONSTANTS
  a = a  b = b  c = c  d = d  t1 = t1  t2 = t2
  Free = Free  Absent = Absent
  File = {1, 2}
  Token = {a, b, c, d}
  Task = {t1}
  Rewrite <- Independent
  InitText <- TwoNotes
  Outside = {"watcher", "crash"}
  Fuse = 1
  MaxOps = 2
  MaxSecond = 0
  MaxEdits = 0
  MaxCrashes = 1
INVARIANT HashTracksDisk
PROPERTIES ReadersSeeOnlyRenames QueueDrains
