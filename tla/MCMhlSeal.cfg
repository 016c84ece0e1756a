\* Two hash types, one change to the files at any point of the run.
CONSTANTS
  f1 = f1  f2 = f2  f3 = f3
  old = old  new = new
  p1 = p1  p2 = p2  p3 = p3
  Absent = Absent  NoFile = NoFile  Mixed = Mixed
  Files <- MCFiles
  Contents <- MCContents
  SizeOf <- MCSizeOf
  CommandLines <- MCCommandLines
  OutputLists <- MCOutputLists
  ListPaths <- MCListPaths
  HashChoice = {"md5", "sha1"}
  Unwritable = {p3}
  BadFiles = {f2}
  MaxEdits = 1
SPECIFICATION MCSpec
INVARIANTS
  TypeOK CompleteLists BadInputPreventsLists TruthfulRecords
  NoHalfWrittenLists ErrorsAreRemembered
PROPERTIES
  NeverOverwrites CreatesLists Termination
