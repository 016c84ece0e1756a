\* The volume of the output folders can run out of space while the list is
\* written: the exit status does not tell.
CONSTANTS
  f1 = f1  f2 = f2  f3 = f3
  old = old  new = new
  p1 = p1  p2 = p2  p3 = p3
  Absent = Absent  NoFile = NoFile  Mixed = Mixed
  Files <- MCFiles
  Contents <- MCContents
  SizeOf <- MCSizeOf
  CommandLines <- MCCommandLines
  OutputLists <- MCOutputLists
  ListPaths <- MCListPaths
  HashChoice = {"md5"}
  Unwritable = {p3}
  BadFiles = {}
  MaxEdits = 0
SPECIFICATION MCSpec
INVARIANTS
  ExitStatusTellsSuccess
