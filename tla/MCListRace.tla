----------------------------- MODULE MCListRace -----------------------------
(***************************************************************************)
(* Three programs and two lists, in the same or in different order; one of *)
(* them can exist already, a third one cannot be written.                  *)
(***************************************************************************)
EXTENDS ListRace, TLC

CONSTANTS a, b, c, l1, l2, l3

MCPrograms  == {a, b, c}
MCListPaths == {l1, l2, l3}
MCCommands  == { <<l1, l2>>, <<l2, l1>>, <<l3, l1>>, <<l1>> }

MCInit ==
  /\ Init
  /\ \/ wants = [p \in Programs |-> <<l1, l2>>] /\ taken[l2] = {}
     \/ wants[a] = <<l1, l2>> /\ wants[b] \in Commands /\ wants[c] = <<l1>>
  /\ taken[l1] = {} /\ taken[l3] = {}
  /\ taken[l2] # {} => wants[b] = <<l2, l1>>

MCSpec == MCInit /\ [][Next]_vars
=============================================================================
