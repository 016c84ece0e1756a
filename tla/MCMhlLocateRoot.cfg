\* One list, nothing changes meanwhile, every folder can be read.
CONSTANTS
  none = none
  NoList = none
  Names <- MCNames
  MhlName = "list.mhl"
  Folders <- MCFolders
  FilesAtStart <- MCFiles
  Unreadable <- MCUnreadable
  Workdirs <- MCWorkdirs
  ArgPaths <- MCArgPaths
  OutPaths <- MCOutPaths
  CopyFrom <- MCCopyFrom
  CopyTo <- MCCopyTo
  MaxSeals = 1
  MaxEdits = 0
SPECIFICATION FairSpec
INVARIANT EveryLocationIsDiscovered
