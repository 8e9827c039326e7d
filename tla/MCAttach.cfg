\* The app and two command lines; a terminal and two layouts of the app.
SPECIFICATION Spec
CONSTANTS
  app = app  p1 = p1  p2 = p2  v1 = v1  v2 = v2  c1 = c1  c2 = c2
  Proc = {app, p1, p2}
  Session = {v1, c1, c2}
  Of <- AppAndCli
  App = app
  Free = Free  Absent = Absent  Silent = Silent  Nobody = Nobody
  w1 = w1  t1 = t1
  Vault = {w1}  Tab = {t1}  OfTab <- TabVault
  Layout = {g1, g2}  OfLayout <- LayoutVault  NoLayout = NoLayout
INVARIANTS OneSession OwnerNamesHolder OkMeansDone RefusedMeansNotDone OneLayout
PROPERTIES RequestsTaken ShellsEnd
CHECK_DEADLOCK FALSE
