\* All combinations of -e and -c, one change to the files at any point.
CONSTANTS
  f1 = f1  f2 = f2  f3 = f3
  good = good  flipped = flipped  longer = longer
  Absent = Absent  NoFile = NoFile  Mixed = Mixed  NoSum = NoSum
  Files <- MCFiles
  Contents <- MCContents
  SizeOf <- MCSizeOf
  CommandLines <- MCCommandLines
  Lists <- MCLists
  BadFiles = {f3}
  MaxTime = 2
  MaxEdits = 1
SPECIFICATION MCSpec
INVARIANTS
  TypeOK ZeroMeansIntact IntactMeansZero MissingFileStopsEarly
  EveryRecordIsChecked ErrorsAreRemembered
PROPERTIES
  Termination
