---------------------------- MODULE MCMhlVerify ----------------------------
(***************************************************************************)
(* Small instances of MhlVerify: two listed files and one that is not,     *)
(* checked by the list or by the paths of the command line.  The medium of *)
(* f3 is bad: reading it may fail.                                         *)
(***************************************************************************)
EXTENDS MhlVerify

CONSTANTS f1, f2, f3, good, flipped, longer

MCFiles    == {f1, f2, f3}
MCContents == {good, flipped, longer}
\* "flipped" has the size of "good" but is another content.
MCSizeOf   == [c \in MCContents |-> IF c = longer THEN 2 ELSE 1]

MCCommandLines ==
  { << >>,
    << FolderPath({f1, f2}, TRUE) >>,
    << FolderPath({f1, f2}, FALSE), FilePath(f1) >>,
    << FilePath(f1), FilePath(f3) >>,
    << SequencePath(<<f1, f2>>, TRUE), OtherPath >>,
    << SequencePath(<<f1, f2>>, FALSE), FilePath(f1) >> }

GoodRecord(f) == [file |-> f, size |-> 1, sum |-> good]
NullRecord(f) == [file |-> f, size |-> 1, sum |-> NoSum]

MCLists == { << GoodRecord(f1), GoodRecord(f2) >>,
             << GoodRecord(f1), NullRecord(f2) >>,
             << GoodRecord(f3), GoodRecord(f1) >> }

\* The first file is good, damaged or missing, the second good or missing.
MCInit ==
  /\ Init
  /\ disk[f2] \in {good, Absent}
  /\ disk[f3] = good
  /\ mtime[f3] = 1

MCSpec == MCInit /\ [][Next]_vars /\ WF_vars(Program)
=============================================================================
