\* Option -e also compares sizes: a file that exists with another size fails.
CONSTANTS
  f1 = f1  f2 = f2  f3 = f3
  good = good  flipped = flipped  longer = longer
  Absent = Absent  NoFile = NoFile  Mixed = Mixed  NoSum = NoSum
  Files <- MCFiles
  Contents <- MCContents
  SizeOf <- MCSizeOf
  CommandLines <- MCCommandLines
  Lists <- MCLists
  BadFiles = {f3}
  MaxTime = 2
  MaxEdits = 0
SPECIFICATION MCSpec
INVARIANTS
  ExistenceOptionAsksForExistence
