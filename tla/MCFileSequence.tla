--------------------------- MODULE MCFileSequence ---------------------------
(***************************************************************************)
(* Combinations of up to three marks, texts before and after the range     *)
(* mark, and postfixes; four marks, with room for every int and its sign;  *)
(* and more marks than number_len can count.                               *)
(***************************************************************************)
EXTENDS FileSequence

MCLowRanges ==
  { <<>>, <<0>>, <<1>>, <<8>>, <<0, 8>>, <<0, 0, 9>>, <<Letter>>, <<1, Mark>> }
    \X { <<>>, <<2>>, <<9>>, <<1, 0>>, <<0, 9>>, <<0, 1, 1>>, <<Letter>> }
MCHighRanges ==
  { <<9, 8>>, <<1, 2, 6>> } \X { <<1, 0, 1>>, <<1, 2, 9>>, <<Dash, 5>> }
MCPostfixes == { <<>>, <<Letter, 1>>, <<Dash, 3>> }
MCPatterns ==
  { [start |-> <<Letter, 5>>, marks |-> m, tail |-> r[1] \o <<Dash>> \o r[2] \o e] :
      m \in 1..3, r \in MCLowRanges \cup MCHighRanges, e \in MCPostfixes }
  \cup { [start |-> <<Letter>>, marks |-> m, tail |-> t] :
           m \in 1..2, t \in { <<>>, <<0>>, <<1>>, <<0, 1, Letter>> } }
  \cup { [start |-> <<>>, marks |-> 4, tail |-> t] :
           t \in { <<1, 2, Dash, 3, 0, 0>>, <<Dash, 0, 2, 5, 8>> } }
  \cup { [start |-> <<>>, marks |-> m, tail |-> <<1, Dash, 3, 4>>] : m \in 7..10 }
=============================================================================
