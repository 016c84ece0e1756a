----------------------------- MODULE MCMhlSeal -----------------------------
(***************************************************************************)
(* Small instances of MhlSeal: up to two paths over three files, up to two *)
(* output folders, one of the paths not writable.                          *)
(***************************************************************************)
EXTENDS MhlSeal

CONSTANTS f1, f2, f3, old, new, p1, p2, p3

MCFiles     == {f1, f2, f3}
MCContents  == {old, new}
MCSizeOf    == [c \in MCContents |-> IF c = old THEN 1 ELSE 2]
MCListPaths == {p1, p2, p3}

MCCommandLines ==
  { << FolderPath({f1, f2}, TRUE), FilePath(f3) >>,
    << FolderPath({f1, f2}, FALSE), FilePath(f3) >>,
    << SequencePath(<<f1, f2>>, TRUE), OtherPath >>,
    << SequencePath(<<f1, f2>>, FALSE), FilePath(f2) >>,
    << FilePath(f3), FilePath(f3) >> }

MCOutputLists ==
  { << [covers |-> {f1, f2, f3}, path |-> p1] >>,
    << [covers |-> {f1, f2}, path |-> p1], [covers |-> {f2, f3}, path |-> p2] >>,
    << [covers |-> {f1, f2, f3}, path |-> p1], [covers |-> {f1, f2, f3}, path |-> p1] >>,
    << [covers |-> {f1, f2}, path |-> p1], [covers |-> {f1}, path |-> p3] >> }

\* At most one file is missing at the start, the others have the old content;
\* an MHL of an earlier run can be in the way of the second list.
MCInit ==
  /\ Init
  /\ \E missing \in Files \cup {NoFile} :
       disk = [f \in Files |-> IF f = missing THEN Absent ELSE old]
  /\ owner[p1] = 0 /\ owner[p3] = 0

MCSpec == MCInit /\ [][Next]_vars /\ WF_vars(Program)
=============================================================================
