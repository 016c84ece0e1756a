------------------------------ MODULE ListRace ------------------------------
(***************************************************************************)
(* The creation of media hash lists, by several programs at the same time. *)
(* The name of a list holds the folder's name and the second the program   *)
(* was started, so that two programs can come to the same names; each      *)
(* searches for the file first and opens it with mode "w" then.  How a     *)
(* program finds out what goes into its lists is left open: for one        *)
(* program this is what MhlSeal implements.                                *)
(***************************************************************************)
EXTENDS Integers, Sequences

CONSTANTS
  Programs,
  ListPaths,  \* the paths of lists
  Unwritable, \* those of them that cannot be opened for writing
  Commands,   \* the sequences of lists a program can be asked for
  Earlier     \* stands for programs that ended before these started

ASSUME RaceAssumption ==
  /\ Programs # {} /\ Earlier \notin Programs
  /\ Commands \subseteq Seq(ListPaths)

VARIABLES
  wants,  \* wants[p]: the lists program p is to create, in this order
  phase,  \* phase[p]: "decide", "create", "close", "exited" or "killed"
  at,     \* at[p]: the list p has come to
  lists,  \* lists[p]: how far each of them has come
  taken,  \* taken[l]: the programs that have opened l
  failure \* failure[p]: what the exit status of p tells of

vars == <<wants, phase, at, lists, taken, failure>>

Stages   == {"none", "checked", "open", "whole", "cut"}
Failures == {"none", "input", "taken", "output"}

Init ==
  /\ wants \in [Programs -> Commands]
  /\ phase = [p \in Programs |-> "decide"]
  /\ at = [p \in Programs |-> 1]
  /\ lists = [p \in Programs |-> [i \in DOMAIN wants[p] |-> "none"]]
  /\ taken \in [ListPaths -> {{}, {Earlier}}]
  /\ failure = [p \in Programs |-> "none"]

GoTo(p, ph) == phase' = [phase EXCEPT ![p] = ph]
GiveUp(p, why) == GoTo(p, "close") /\ failure' = [failure EXCEPT ![p] = why]
Stage(p, i, s) == lists' = [lists EXCEPT ![p] = [@ EXCEPT ![i] = s]]

\* The input has been processed; an error in it prevents all lists.
Decide(p) ==
  /\ phase[p] = "decide"
  /\ \/ GoTo(p, "create") /\ UNCHANGED failure
     \/ GiveUp(p, "input")
  /\ UNCHANGED <<wants, at, lists, taken>>

Creating(p, stages) ==
  phase[p] = "create" /\ at[p] \in DOMAIN wants[p] /\ lists[p][at[p]] \in stages

ThePath(p) == wants[p][at[p]]

NoCheck(p) == \* mutated form: fopen without the search for an existing file
  /\ Creating(p, {"none"})
  /\ Stage(p, at[p], "checked")
  /\ UNCHANGED <<wants, phase, at, taken, failure>>

CheckEveryList(p) == \* mutated form: all names are searched for each time
  /\ Creating(p, {"none"})
  /\ IF \E i \in DOMAIN wants[p] : taken[wants[p][i]] # {}
       THEN GiveUp(p, "taken") /\ UNCHANGED lists
       ELSE Stage(p, at[p], "checked") /\ UNCHANGED <<phase, failure>>
  /\ UNCHANGED <<wants, at, taken>>

Check(p) ==
  /\ Creating(p, {"none"})
  /\ IF taken[ThePath(p)] # {}
       THEN GiveUp(p, "taken") /\ UNCHANGED lists
       ELSE Stage(p, at[p], "checked") /\ UNCHANGED <<phase, failure>>
  /\ UNCHANGED <<wants, at, taken>>

Open(p) ==
  /\ Creating(p, {"checked"})
  /\ IF ThePath(p) \in Unwritable
       THEN GiveUp(p, "output") /\ UNCHANGED <<lists, taken>>
       ELSE /\ Stage(p, at[p], "open")
            /\ taken' = [taken EXCEPT ![ThePath(p)] = @ \cup {p}]
            /\ UNCHANGED <<phase, failure>>
  /\ UNCHANGED <<wants, at>>

\* The user is unknown, or the volume was found full.
PrintFails(p) ==
  /\ Creating(p, {"open", "cut"})
  /\ GiveUp(p, "output")
  /\ UNCHANGED lists \/ Stage(p, at[p], "cut")
  /\ UNCHANGED <<wants, at, taken>>

TwoSteps(p) == \* mutated form: the index is advanced twice
  /\ Creating(p, {"open", "whole", "cut"})
  /\ at' = [at EXCEPT ![p] = @ + 2]
  /\ UNCHANGED <<wants, phase, lists, taken, failure>>

\* The list has been printed, and is on disk some time later.
EndList(p) ==
  /\ Creating(p, {"open", "whole", "cut"})
  /\ at' = [at EXCEPT ![p] = @ + 1]
  /\ UNCHANGED <<wants, phase, lists, taken, failure>>

\* The last piece of a list reaches the disk, or any piece is lost because the
\* volume is full, which nobody notices.
Settle(p, i) ==
  /\ phase[p] \in {"create", "close"}
  /\ i \in DOMAIN wants[p] /\ lists[p][i] = "open"
  /\ \E s \in {"whole", "cut"} : Stage(p, i, s)
  /\ UNCHANGED <<wants, phase, at, taken, failure>>

EndCreate(p) ==
  /\ phase[p] = "create" /\ at[p] \notin DOMAIN wants[p]
  /\ GoTo(p, "close")
  /\ UNCHANGED <<wants, at, lists, taken, failure>>

\* Every list has been closed; only one that was given up is not complete.
Exit(p) ==
  /\ phase[p] = "close"
  /\ \A i \in DOMAIN wants[p] :
       lists[p][i] = "open" => i = at[p] /\ failure[p] = "output"
  /\ GoTo(p, "exited")
  /\ UNCHANGED <<wants, at, lists, taken, failure>>

Kill(p) ==
  /\ phase[p] \notin {"exited", "killed"}
  /\ GoTo(p, "killed")
  /\ UNCHANGED <<wants, at, lists, taken, failure>>

Stopped ==
  /\ \A p \in Programs : phase[p] \in {"exited", "killed"}
  /\ UNCHANGED vars

Program(p) ==
  \/ Decide(p) \/ Check(p) \/ Open(p) \/ PrintFails(p) \/ EndList(p)
  \/ \E i \in DOMAIN wants[p] : Settle(p, i)
  \/ EndCreate(p) \/ Exit(p)

Next == (\E p \in Programs : Program(p) \/ Kill(p)) \/ Stopped

Spec == Init /\ [][Next]_vars

(***************************************************************************)
(* Properties.                                                             *)
(***************************************************************************)
TypeOK ==
  /\ wants \in [Programs -> Commands]
  /\ phase \in [Programs -> {"decide", "create", "close", "exited", "killed"}]
  /\ at \in [Programs -> Nat]
  /\ DOMAIN lists = Programs
  /\ \A p \in Programs :
       /\ at[p] \in 1..(Len(wants[p]) + 1)
       /\ lists[p] \in [DOMAIN wants[p] -> Stages]
  /\ taken \in [ListPaths -> SUBSET (Programs \cup {Earlier})]
  /\ failure \in [Programs -> Failures]

\* The programs that can have written to a list in the end: those that have
\* opened it and those between the search for it and fopen.
Writers(l) ==
  taken[l] \cup {p \in Programs : Creating(p, {"checked"}) /\ ThePath(p) = l}

\* Once a list is open no further program joins its writers (does_wpath_exist
\* in create_mhl_files): a list is only destroyed by a program that had
\* searched for it before anybody opened it.
WritersAreFixed ==
  [][\A l \in ListPaths : taken[l] # {} => Writers(l)' \subseteq Writers(l)]_vars

\* Programs that are asked for the same lists in the same order do not get
\* in each other's way so that all of them fail: if there was no other
\* error and the lists did not exist before, one of them succeeds.
SameCommand ==
  /\ \A p, q \in Programs : wants[p] = wants[q]
  /\ \A p \in Programs : \A i, j \in DOMAIN wants[p] :
       wants[p][i] = wants[p][j] => i = j
  /\ \A p \in Programs : \A i \in DOMAIN wants[p] : Earlier \notin taken[wants[p][i]]

AllExited == \A p \in Programs : phase[p] = "exited" /\ failure[p] \in {"none", "taken"}

OneSucceeds == SameCommand /\ AllExited => \E p \in Programs : failure[p] = "none"
=============================================================================
