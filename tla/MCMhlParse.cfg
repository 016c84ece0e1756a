\* Two sealed records, of one file or two, and one change of a file; or a list
\* of other origin.
CONSTANTS
  f1 = f1
  f2 = f2
  c1 = c1
  c2 = c2
  Bad = Bad
  Fine = Fine
  NoFile = NoFile
  NoSum = NoSum
  Files <- MCFiles
  Contents = {c1, c2}
  Selections <- MCSelections
  GivenLists <- MCGivenLists
  MaxRecords = 2
  MaxEdits = 1
SPECIFICATION Spec
INVARIANTS TypeOK ParsedAsWritten SealedListsAreVerifiable
PROPERTY FirstRecordWins
