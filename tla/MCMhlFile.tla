----------------------------- MODULE MCMhlFile -----------------------------
(***************************************************************************)
(* Sums and messages that go through a buffer and a pipe with room for     *)
(* one line each, and checks of one file against a sum given in every      *)
(* possible way.                                                           *)
(***************************************************************************)
EXTENDS MhlFile

CONSTANTS f1, f2, f3, old, new

MCFiles    == {f1, f2, f3}
MCContents == {old, new}
MCSizeOf   == [c \in MCContents |-> IF c = old THEN 1 ELSE 2]

MCCommandLines ==
  { << FolderPath({f1, f2}, TRUE) >>,
    << FolderPath({f1, f2}, FALSE), FilePath(f2) >>,
    << FilePath(f3), FilePath(f2) >>,
    << SequencePath(<<f1, f2>>, TRUE), OtherPath >>,
    << SequencePath(<<f1, f2>>, FALSE), FilePath(f2) >> }

MCOrders ==
  { Calculate({"md5"}, 0), Calculate({"md5", "sha1"}, 0), Calculate({"md5"}, Verbose),
    Calculate({"xxhash64be"}, 0), Calculate({"sha1", "xxhash64be"}, 0),
    Calculate({"md5", "sha1"}, VeryVerbose) }
  \cup { Check(f1, t, p, Sum(s, old), v) :
           t \in Types \cup {"none"}, p \in Types \cup {"none"}, s \in Types,
           v \in {0, VeryVerbose} }

MCInit ==
  /\ PipeInit
  /\ \E missing \in {f2, NoFile} :
       disk = [f \in Files |-> IF f = missing THEN Absent ELSE old]
  /\ order.mode = "check" => args = << FilePath(f3), FilePath(f2) >>

MCSpec == MCInit /\ [][Next]_vars /\ Fairness
=============================================================================
