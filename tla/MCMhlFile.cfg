\* A pipe of one line, one change of a file, file f3 outside of the folder and
\* on a medium that cannot be read to its end.
CONSTANTS
  f1 = f1
  f2 = f2
  f3 = f3
  old = old
  new = new
  Absent = Absent
  NoFile = NoFile
  Mixed = Mixed
  Unread = Unread
  NoList = NoList
  Files <- MCFiles
  Contents <- MCContents
  SizeOf <- MCSizeOf
  CommandLines <- MCCommandLines
  Orders <- MCOrders
  BadFiles = {f3}
  Covered = {f1, f2}
  BufferSize = 1
  PipeSize = 1
  MaxEdits = 1
SPECIFICATION MCSpec
INVARIANTS TypeOK ProgressFits CheckIsRight PipelineSealsAll ListIsWhatWasPrinted
PROPERTY PipelineEnds
