\* The same files, none of which changes.
CONSTANTS
  f1 = f1
  f2 = f2
  f3 = f3
  old = old
  new = new
  Absent = Absent
  NoFile = NoFile
  Mixed = Mixed
  Unread = Unread
  NoList = NoList
  Files <- MCFiles
  Contents <- MCContents
  SizeOf <- MCSizeOf
  CommandLines <- MCCommandLines
  Orders <- MCOrders
  BadFiles = {f3}
  Covered = {f1, f2}
  BufferSize = 1
  PipeSize = 1
  MaxEdits = 0
SPECIFICATION MCSpec
INVARIANT HashOutputIsInput
