\* Up to two lists, one change by another program at any point; the folder of
\* the copied reel cannot be opened.
CONSTANTS
  none = none
  NoList = none
  Names <- MCNames
  MhlName = "list.mhl"
  Folders <- MCFolders
  FilesAtStart <- MCFiles
  Unreadable <- MCUnreadableReel
  Workdirs <- MCWorkdirs
  ArgPaths <- MCArgPaths
  OutPaths <- MCOutPaths
  CopyFrom <- MCCopyFrom
  CopyTo <- MCCopyTo
  MaxSeals = 2
  MaxEdits = 1
SPECIFICATION FairSpec
INVARIANTS
  TypeOK NearestList SearchFailsForAReason LookupIsRight NamesLeadToFiles RecordsBelongToTheFolder
PROPERTY Termination
