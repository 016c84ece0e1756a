-------------------------- MODULE ListRace_proofs --------------------------
(***************************************************************************)
(* The properties of ListRace hold for any set of programs, finite or not, *)
(* and any lists they are asked for.                                       *)
(***************************************************************************)
EXTENDS ListRace, TLAPS

LEMMA WantsType ==
  ASSUME TypeOK, NEW p \in Programs
  PROVE  /\ wants[p] \in Seq(ListPaths) /\ Len(wants[p]) \in Nat
         /\ DOMAIN wants[p] = 1..Len(wants[p])
         /\ \A i \in DOMAIN wants[p] : wants[p][i] \in ListPaths
<1>1. wants[p] \in Seq(ListPaths)
  BY RaceAssumption DEF RaceAssumption, TypeOK
<1> QED BY <1>1

\* What a step that changes the stage of one list leaves behind.
LEMMA StageType ==
  ASSUME TypeOK, NEW p \in Programs, NEW i \in DOMAIN wants[p], NEW s \in Stages, Stage(p, i, s),
         UNCHANGED wants
  PROVE  /\ DOMAIN lists' = Programs
         /\ \A q \in Programs : lists'[q] \in [DOMAIN wants'[q] -> Stages]
         /\ \A q \in Programs \ {p} : lists'[q] = lists[q]
         /\ lists'[p][i] = s
         /\ \A j \in DOMAIN wants[p] \ {i} : lists'[p][j] = lists[p][j]
<1>1. DOMAIN lists = Programs /\ \A q \in Programs : lists[q] \in [DOMAIN wants[q] -> Stages]
  BY DEF TypeOK
<1>2. lists' = [lists EXCEPT ![p] = [@ EXCEPT ![i] = s]]
  BY DEF Stage
<1>3. lists'[p] = [lists[p] EXCEPT ![i] = s] /\ DOMAIN lists' = Programs
  BY <1>1, <1>2
<1>4. \A q \in Programs \ {p} : lists'[q] = lists[q]
  BY <1>1, <1>2
<1>5. lists'[p] \in [DOMAIN wants[p] -> Stages]
  BY <1>1, <1>3
<1>6. lists'[p][i] = s /\ \A j \in DOMAIN wants[p] \ {i} : lists'[p][j] = lists[p][j]
  BY <1>1, <1>3
<1> QED BY <1>1, <1>3, <1>4, <1>5, <1>6

(***************************************************************************)
(* Types.                                                                  *)
(***************************************************************************)
LEMMA TypeInit == ASSUME Init PROVE TypeOK
<1>1. \A p \in Programs : wants[p] \in Seq(ListPaths)
  BY RaceAssumption DEF RaceAssumption, Init
<1>2. ASSUME NEW p \in Programs PROVE Len(wants[p]) \in Nat
  <2>1. wants[p] \in Seq(ListPaths)
    BY <1>1
  <2> QED BY <2>1
<1>3. ASSUME NEW p \in Programs PROVE 1 \in 1..(Len(wants[p]) + 1)
  BY <1>2
<1>4. \A p \in Programs : lists[p] \in [DOMAIN wants[p] -> Stages]
  BY DEF Init, Stages
<1> QED BY <1>3, <1>4 DEF Init, TypeOK, Failures

LEMMA TypeStep == ASSUME TypeOK, [Next]_vars PROVE TypeOK'
<1>1. CASE UNCHANGED vars
  BY <1>1 DEF vars, TypeOK
<1>2. ASSUME NEW p \in Programs, Decide(p) PROVE TypeOK'
  BY <1>2 DEF Decide, GoTo, GiveUp, TypeOK, Failures
<1>3. ASSUME NEW p \in Programs, Check(p) PROVE TypeOK'
  <2>1. p \in Programs /\ at[p] \in DOMAIN wants[p] /\ UNCHANGED <<wants, at, taken>>
    BY <1>3 DEF Check, Creating
  <2>2. CASE GiveUp(p, "taken") /\ UNCHANGED lists
    BY <2>1, <2>2 DEF GoTo, GiveUp, TypeOK, Failures
  <2>3. CASE Stage(p, at[p], "checked") /\ UNCHANGED <<phase, failure>>
    BY <2>1, <2>3, StageType DEF TypeOK, Stages
  <2> QED BY <1>3, <2>2, <2>3 DEF Check
<1>4. ASSUME NEW p \in Programs, Open(p) PROVE TypeOK'
  <2>1. at[p] \in DOMAIN wants[p] /\ UNCHANGED <<wants, at>>
    BY <1>4 DEF Open, Creating
  <2>2. CASE GiveUp(p, "output") /\ UNCHANGED <<lists, taken>>
    BY <2>1, <2>2 DEF GoTo, GiveUp, TypeOK, Failures
  <2>3. CASE /\ Stage(p, at[p], "open") /\ UNCHANGED <<phase, failure>>
             /\ taken' = [taken EXCEPT ![ThePath(p)] = @ \cup {p}]
    <3>1. taken' \in [ListPaths -> SUBSET (Programs \cup {Earlier})]
      BY <2>3 DEF TypeOK
    <3> QED BY <2>1, <2>3, <3>1, StageType DEF TypeOK, Stages
  <2> QED BY <1>4, <2>2, <2>3 DEF Open
<1>5. ASSUME NEW p \in Programs, PrintFails(p) PROVE TypeOK'
  <2>1. at[p] \in DOMAIN wants[p] /\ UNCHANGED <<wants, at, taken>> /\ GiveUp(p, "output")
    BY <1>5 DEF PrintFails, Creating
  <2>2. CASE UNCHANGED lists
    BY <2>1, <2>2 DEF GoTo, GiveUp, TypeOK, Failures
  <2>3. CASE Stage(p, at[p], "cut")
    BY <2>1, <2>3, StageType DEF GoTo, GiveUp, TypeOK, Stages, Failures
  <2> QED BY <1>5, <2>2, <2>3 DEF PrintFails
<1>6. ASSUME NEW p \in Programs, EndList(p) PROVE TypeOK'
  <2>1. at[p] \in 1..Len(wants[p]) /\ Len(wants[p]) \in Nat
    BY <1>6, WantsType DEF EndList, Creating
  <2>2. at[p] + 1 \in 1..(Len(wants[p]) + 1)
    BY <2>1
  <2> QED BY <1>6, <2>2 DEF EndList, TypeOK
<1>7. ASSUME NEW p \in Programs, NEW i \in DOMAIN wants[p], Settle(p, i) PROVE TypeOK'
  BY <1>7, StageType DEF Settle, TypeOK, Stages
<1>8. ASSUME NEW p \in Programs, EndCreate(p) \/ Exit(p) \/ Kill(p) PROVE TypeOK'
  BY <1>8 DEF EndCreate, Exit, Kill, GoTo, TypeOK
<1> QED BY <1>1, <1>2, <1>3, <1>4, <1>5, <1>6, <1>7, <1>8 DEF Next, Program, Stopped

\* The variables keep their types; no program goes beyond its last list.
THEOREM RaceTypeCorrect == Spec => []TypeOK
BY TypeInit, TypeStep, PTL DEF Spec

(***************************************************************************)
(* The writers of a list.  A program has not looked for the lists after    *)
(* the one it has come to, and for none before it creates any.             *)
(***************************************************************************)
NotLookedFor ==
  \A p \in Programs : \A i \in DOMAIN wants[p] :
    phase[p] = "decide" \/ i > at[p] => lists[p][i] = "none"

LEMMA NotLookedForInit == ASSUME Init PROVE NotLookedFor
BY DEF Init, NotLookedFor

LEMMA NotLookedForStep ==
  ASSUME TypeOK, NotLookedFor, [Next]_vars PROVE NotLookedFor'
<1>1. CASE UNCHANGED vars
  BY <1>1 DEF vars, NotLookedFor
<1>2. ASSUME NEW p \in Programs, UNCHANGED <<wants, lists, at>>,
             NEW ph \in {"create", "close", "exited", "killed"}, GoTo(p, ph)
      PROVE  NotLookedFor'
  BY <1>2 DEF GoTo, TypeOK, NotLookedFor
<1>3. ASSUME NEW p \in Programs, NEW i \in DOMAIN wants[p], NEW s \in Stages, Stage(p, i, s),
             phase[p] # "decide", i <= at[p], UNCHANGED <<wants, at>>,
             UNCHANGED phase \/ GoTo(p, "close")
      PROVE  NotLookedFor'
  <2> SUFFICES ASSUME NEW q \in Programs, NEW j \in DOMAIN wants[q],
                      phase'[q] = "decide" \/ j > at[q]
               PROVE  lists'[q][j] = "none"
    BY <1>3 DEF NotLookedFor
  <2>1. phase'[q] = "decide" => phase[q] = "decide"
    BY <1>3 DEF GoTo, TypeOK
  <2>2. lists[q][j] = "none"
    BY <2>1 DEF NotLookedFor
  <2>3. CASE q # p
    BY <1>3, <2>2, <2>3, StageType
  <2>4. CASE q = p
    <3>1. j # i
      <4>1. i \in Nat /\ j \in Nat /\ at[p] \in Nat
        BY <2>4, WantsType DEF TypeOK
      <4> QED BY <1>3, <2>1, <2>4, <4>1
    <3> QED BY <1>3, <2>2, <2>4, <3>1, StageType
  <2> QED BY <2>3, <2>4
<1>4. ASSUME NEW p \in Programs, Decide(p) \/ EndCreate(p) \/ Exit(p) \/ Kill(p)
      PROVE  NotLookedFor'
  BY <1>2, <1>4 DEF Decide, GiveUp, EndCreate, Exit, Kill
<1>5. ASSUME NEW p \in Programs, Check(p) \/ Open(p) \/ PrintFails(p) PROVE NotLookedFor'
  <2>1. /\ at[p] \in DOMAIN wants[p] /\ at[p] \in Nat /\ phase[p] # "decide"
        /\ UNCHANGED <<wants, at>>
    BY <1>5 DEF Check, Open, PrintFails, Creating, TypeOK
  <2>2. \/ UNCHANGED lists /\ GoTo(p, "close")
        \/ \E s \in Stages : Stage(p, at[p], s) /\ (UNCHANGED phase \/ GoTo(p, "close"))
    BY <1>5 DEF Check, Open, PrintFails, GiveUp, Stages
  <2> QED BY <1>2, <1>3, <2>1, <2>2
<1>6. ASSUME NEW p \in Programs, EndList(p) PROVE NotLookedFor'
  <2> SUFFICES ASSUME NEW q \in Programs, NEW j \in DOMAIN wants[q],
                      phase[q] = "decide" \/ j > at'[q]
               PROVE  lists[q][j] = "none"
    BY <1>6 DEF EndList, NotLookedFor
  <2>1. j \in Nat /\ at[q] \in Nat /\ at'[q] \in {at[q], at[q] + 1}
    BY <1>6, WantsType DEF EndList, TypeOK
  <2> QED BY <2>1 DEF NotLookedFor
<1>7. ASSUME NEW p \in Programs, NEW i \in DOMAIN wants[p], Settle(p, i) PROVE NotLookedFor'
  <2>1. phase[p] # "decide" /\ i <= at[p]
    <3>1. i \in Nat /\ at[p] \in Nat /\ ~(i > at[p])
      BY <1>7, WantsType DEF Settle, NotLookedFor, TypeOK
    <3> QED BY <1>7, <3>1 DEF Settle
  <2> QED BY <1>3, <1>7, <2>1 DEF Settle, Stages
<1> QED BY <1>1, <1>4, <1>5, <1>6, <1>7 DEF Next, Program, Stopped

\* Whoever has searched for a list that is open now had done so before; only
\* a search that found nothing makes a new writer.
THEOREM RaceWritersAreFixed == Spec => WritersAreFixed
<1>1. TypeOK /\ NotLookedFor /\ [Next]_vars
        => [\A l \in ListPaths : taken[l] # {} => Writers(l)' \subseteq Writers(l)]_vars
  <2> SUFFICES ASSUME TypeOK, NotLookedFor, Next, NEW l \in ListPaths, taken[l] # {},
                      NEW q \in Writers(l)', q \notin Writers(l)
               PROVE  FALSE
    OBVIOUS
  <2>1. CASE UNCHANGED vars
    BY <2>1 DEF vars, Writers, Creating, ThePath
  <2>2. ASSUME NEW p \in Programs, UNCHANGED <<wants, at, lists, taken>>,
               NEW ph \in {"close", "exited", "killed"}, GoTo(p, ph)
        PROVE  FALSE
    BY <2>2 DEF GoTo, TypeOK, Writers, Creating, ThePath
  <2>3. ASSUME NEW p \in Programs, Decide(p) PROVE FALSE
    <3>1. CASE GoTo(p, "create")
      <4>1. p = q /\ Creating(p, {"checked"})'
        BY <2>3, <3>1 DEF Decide, GoTo, TypeOK, Writers, Creating, ThePath
      <4> QED BY <2>3, <4>1 DEF Decide, Creating, NotLookedFor
    <3> QED BY <2>2, <2>3, <3>1 DEF Decide, GiveUp
  <2>4. ASSUME NEW p \in Programs, NEW i \in DOMAIN wants[p], NEW s \in {"open", "whole", "cut"},
               Stage(p, i, s), UNCHANGED <<wants, at, taken>>,
               UNCHANGED phase \/ GoTo(p, "close")
        PROVE  FALSE
    <3>1. q \in Programs /\ Creating(q, {"checked"})' /\ ThePath(q)' = l
      BY <2>4 DEF Writers
    <3>2. phase[q] = "create" /\ at[q] \in DOMAIN wants[q] /\ ThePath(q) = l
      BY <2>4, <3>1 DEF Creating, ThePath, GoTo, TypeOK
    <3>3. lists[q][at[q]] = "checked"
      BY <2>4, <3>1, <3>2, StageType DEF Creating, Stages
    <3> QED BY <3>1, <3>2, <3>3 DEF Writers, Creating
  <2>5. ASSUME NEW p \in Programs, Check(p) PROVE FALSE
    <3>1. CASE GiveUp(p, "taken") /\ UNCHANGED lists
      BY <2>2, <2>5, <3>1 DEF Check, GiveUp
    <3>2. CASE taken[ThePath(p)] = {} /\ Stage(p, at[p], "checked") /\ UNCHANGED phase
      <4>1. at[p] \in DOMAIN wants[p] /\ UNCHANGED <<wants, at, taken>>
        BY <2>5 DEF Check, Creating
      <4>2. q \in Programs /\ Creating(q, {"checked"})' /\ ThePath(q)' = l
        BY <4>1 DEF Writers
      <4>3. q # p
        BY <3>2, <4>1, <4>2 DEF ThePath
      <4>4. lists'[q] = lists[q]
        BY <3>2, <4>1, <4>2, <4>3, StageType DEF Stages
      <4> QED BY <3>2, <4>1, <4>2, <4>4 DEF Writers, Creating, ThePath
    <3> QED BY <2>5, <3>1, <3>2 DEF Check
  <2>6. ASSUME NEW p \in Programs, Open(p) PROVE FALSE
    <3>1. CASE GiveUp(p, "output") /\ UNCHANGED <<lists, taken>>
      BY <2>2, <2>6, <3>1 DEF Open, GiveUp
    <3>2. CASE /\ Stage(p, at[p], "open") /\ UNCHANGED phase
               /\ taken' = [taken EXCEPT ![ThePath(p)] = @ \cup {p}]
      <4>1. at[p] \in DOMAIN wants[p] /\ UNCHANGED <<wants, at>> /\ Creating(p, {"checked"})
        BY <2>6 DEF Open, Creating
      <4>2. CASE q \in taken'[l]
        <5>1. q = p /\ ThePath(p) = l
          BY <3>2, <4>2 DEF TypeOK, Writers
        <5> QED BY <4>1, <5>1 DEF Writers
      <4>3. CASE q \in Programs /\ Creating(q, {"checked"})' /\ ThePath(q)' = l
        <5>1. q # p
          BY <3>2, <4>1, <4>3, StageType DEF Creating, Stages
        <5>2. lists'[q] = lists[q]
          BY <3>2, <4>1, <4>3, <5>1, StageType DEF Stages
        <5> QED BY <3>2, <4>1, <4>3, <5>2 DEF Writers, Creating, ThePath
      <4> QED BY <4>2, <4>3 DEF Writers
    <3> QED BY <2>6, <3>1, <3>2 DEF Open
  <2>7. ASSUME NEW p \in Programs, PrintFails(p) PROVE FALSE
    <3>1. /\ at[p] \in DOMAIN wants[p] /\ UNCHANGED <<wants, at, taken>> /\ GoTo(p, "close")
          /\ UNCHANGED lists \/ Stage(p, at[p], "cut")
      BY <2>7 DEF PrintFails, Creating, GiveUp
    <3> QED BY <2>2, <2>4, <3>1
  <2>8. ASSUME NEW p \in Programs, EndList(p) PROVE FALSE
    <3>1. q \in Programs /\ Creating(q, {"checked"})' /\ ThePath(q)' = l
      BY <2>8 DEF EndList, Writers
    <3>2. q = p
      BY <2>8, <3>1 DEF EndList, TypeOK, Writers, Creating, ThePath
    <3>3. at'[p] > at[p] /\ at'[p] \in DOMAIN wants[p] /\ lists[p][at'[p]] = "checked"
      BY <2>8, <3>1, <3>2 DEF EndList, TypeOK, Creating
    <3> QED BY <3>3 DEF NotLookedFor
  <2>9. ASSUME NEW p \in Programs, NEW i \in DOMAIN wants[p], Settle(p, i) PROVE FALSE
    BY <2>4, <2>9 DEF Settle
  <2>10. ASSUME NEW p \in Programs, EndCreate(p) \/ Exit(p) \/ Kill(p) PROVE FALSE
    BY <2>2, <2>10 DEF EndCreate, Exit, Kill
  <2> QED BY <2>1, <2>3, <2>5, <2>6, <2>7, <2>8, <2>9, <2>10 DEF Next, Program, Stopped
<1>2. Spec => []TypeOK
  BY RaceTypeCorrect
<1> QED BY <1>1, <1>2, NotLookedForInit, NotLookedForStep, PTL DEF Spec, WritersAreFixed

(***************************************************************************)
(* One program succeeds.  As long as nothing but lists that were taken     *)
(* has made a program fail, one of those that have come farthest has not   *)
(* failed: whoever finds its list taken is behind the one that took it.    *)
(***************************************************************************)
Opened(p) == at[p] \in DOMAIN wants[p] /\ lists[p][at[p]] \in {"open", "whole", "cut"}

\* How far a program has come.
Score(p) == IF Opened(p) THEN 2 * at[p] + 1 ELSE 2 * at[p]

OnlyTaken == \A p \in Programs : failure[p] \in {"none", "taken"}

Leader(p) == failure[p] = "none" /\ \A q \in Programs : Score(q) <= Score(p)

SomeoneLeads == SameCommand /\ OnlyTaken => \E p \in Programs : Leader(p)

\* Who has taken a list is at it or has passed it.
TakenByThoseAhead ==
  \A l \in ListPaths : \A p \in taken[l] \ {Earlier} :
    \E i \in DOMAIN wants[p] : wants[p][i] = l /\ (i < at[p] \/ (i = at[p] /\ Opened(p)))

NotFailedYet == \A p \in Programs : phase[p] \in {"decide", "create"} => failure[p] = "none"

LeadInv == TakenByThoseAhead /\ NotFailedYet /\ SomeoneLeads

LEMMA ScoreType == ASSUME TypeOK, NEW p \in Programs PROVE Score(p) \in Nat /\ at[p] \in Nat
BY DEF TypeOK, Score

LEMMA LeadInit == ASSUME Init PROVE LeadInv
<1>1. ASSUME NEW p \in Programs PROVE Score(p) = 2 /\ failure[p] = "none"
  <2>1. at[p] = 1 /\ failure[p] = "none" /\ (at[p] \in DOMAIN wants[p] => lists[p][at[p]] = "none")
    BY DEF Init
  <2>2. ~Opened(p)
    BY <2>1 DEF Opened
  <2> QED BY <2>1, <2>2 DEF Score
<1>2. PICK p \in Programs : TRUE
  BY RaceAssumption DEF RaceAssumption
<1>3. Leader(p)
  BY <1>1 DEF Leader
<1> QED BY <1>3 DEF Init, LeadInv, TakenByThoseAhead, NotFailedYet, SomeoneLeads

\* Steps after which every program is where it was.
LEMMA NobodyMoves ==
  ASSUME TypeOK, LeadInv, UNCHANGED <<wants, at, taken>>,
         \A q \in Programs : Opened(q)' <=> Opened(q),
         NEW p \in Programs, phase[p] # "exited",
         NEW ph \in {"create", "close", "exited", "killed"}, UNCHANGED phase \/ GoTo(p, ph),
         NEW why \in {"none", "input", "output"},
         \/ UNCHANGED failure
         \/ why # "none" /\ failure' = [failure EXCEPT ![p] = why] /\ ph = "close" /\ GoTo(p, ph),
         ph = "create" /\ GoTo(p, ph) => phase[p] = "decide"
  PROVE  LeadInv'
<1>1. \A q \in Programs : Score(q)' = Score(q)
  BY DEF Score
<1>2. TakenByThoseAhead'
  <2>1. \A l \in ListPaths : taken[l] \ {Earlier} \subseteq Programs
    BY DEF TypeOK
  <2> QED BY <2>1 DEF LeadInv, TakenByThoseAhead
<1>3. NotFailedYet'
  BY DEF LeadInv, NotFailedYet, GoTo, TypeOK
<1>4. SomeoneLeads'
  <2> SUFFICES ASSUME SameCommand', OnlyTaken' PROVE \E q \in Programs : Leader(q)'
    BY DEF SomeoneLeads
  <2>1. UNCHANGED failure
    BY DEF OnlyTaken, TypeOK
  <2>2. SameCommand /\ OnlyTaken
    BY <2>1 DEF SameCommand, OnlyTaken
  <2> QED BY <1>1, <2>1, <2>2 DEF LeadInv, SomeoneLeads, Leader
<1> QED BY <1>2, <1>3, <1>4 DEF LeadInv

\* Steps by which a program that has not failed comes farther.
LEMMA OneMoves ==
  ASSUME TypeOK, TypeOK', LeadInv, NEW p \in Programs, failure[p] = "none",
         UNCHANGED <<wants, phase, failure>>, Score(p)' >= Score(p),
         \A q \in Programs \ {p} : Score(q)' = Score(q),
         \A l \in ListPaths : Earlier \in taken[l] => Earlier \in taken'[l]
  PROVE  NotFailedYet' /\ SomeoneLeads'
<1>1. NotFailedYet'
  BY DEF LeadInv, NotFailedYet
<1> SUFFICES ASSUME SameCommand', OnlyTaken' PROVE \E q \in Programs : Leader(q)'
  BY <1>1 DEF SomeoneLeads
<1>2. SameCommand /\ OnlyTaken
  BY WantsType DEF SameCommand, OnlyTaken
<1>3. PICK m \in Programs : Leader(m)
  BY <1>2 DEF LeadInv, SomeoneLeads
<1>4. ASSUME NEW q \in Programs PROVE Score(q) \in Nat /\ Score(q)' \in Nat
  <2>1. at[q] \in Nat /\ at'[q] \in Nat
    BY DEF TypeOK
  <2> QED BY <2>1 DEF Score
<1>5. CASE Score(p)' >= Score(m)
  <2>1. \A q \in Programs : Score(q)' <= Score(p)'
    BY <1>3, <1>4, <1>5 DEF Leader
  <2> QED BY <2>1 DEF Leader
<1>6. CASE ~(Score(p)' >= Score(m))
  <2>1. m # p
    BY <1>6
  <2>2. \A q \in Programs : Score(q)' <= Score(m)'
    BY <1>3, <1>4, <1>6, <2>1 DEF Leader
  <2> QED BY <1>3, <2>2 DEF Leader
<1> QED BY <1>5, <1>6

LEMMA LeadStep ==
  ASSUME TypeOK, TypeOK', LeadInv, [Next]_vars PROVE LeadInv'
<1>1. CASE UNCHANGED vars
  BY <1>1 DEF vars, LeadInv, TakenByThoseAhead, NotFailedYet, SomeoneLeads, SameCommand, OnlyTaken,
              Leader, Score, Opened
<1>2. ASSUME NEW p \in Programs, Decide(p) \/ EndCreate(p) \/ Exit(p) \/ Kill(p) PROVE LeadInv'
  <2>1. \A q \in Programs : Opened(q)' <=> Opened(q)
    BY <1>2 DEF Decide, EndCreate, Exit, Kill, Opened
  <2>2. PICK ph \in {"create", "close", "exited", "killed"} :
          /\ GoTo(p, ph) /\ phase[p] # "exited"
          /\ ph = "create" => phase[p] = "decide"
          /\ UNCHANGED <<wants, at, taken>>
          /\ \/ UNCHANGED failure
             \/ ph = "close" /\ failure' = [failure EXCEPT ![p] = "input"]
    BY <1>2 DEF Decide, EndCreate, Exit, Kill, GiveUp
  <2> QED BY <2>1, <2>2, NobodyMoves
<1>3. ASSUME NEW p \in Programs, NEW i \in DOMAIN wants[p], NEW s \in {"whole", "cut"},
             Stage(p, i, s), lists[p][i] \in {"open", "cut"}, UNCHANGED <<wants, at>>
      PROVE  \A q \in Programs : Opened(q)' <=> Opened(q)
  BY <1>3, StageType DEF Opened, Stages
<1>4. ASSUME NEW p \in Programs, Check(p) PROVE LeadInv'
  <2>1. /\ at[p] \in DOMAIN wants[p] /\ lists[p][at[p]] = "none" /\ phase[p] = "create"
        /\ UNCHANGED <<wants, at, taken>>
    BY <1>4 DEF Check, Creating
  <2>2. CASE Stage(p, at[p], "checked") /\ UNCHANGED <<phase, failure>>
    <3>1. \A q \in Programs : Opened(q)' <=> Opened(q)
      BY <2>1, <2>2, StageType DEF Opened, Stages
    <3> QED BY <2>1, <2>2, <3>1, NobodyMoves
  <2>3. CASE taken[ThePath(p)] # {} /\ GiveUp(p, "taken") /\ UNCHANGED lists
    <3>1. TakenByThoseAhead' /\ NotFailedYet'
      BY <2>1, <2>3 DEF LeadInv, TakenByThoseAhead, NotFailedYet, Opened, GiveUp, GoTo, TypeOK
    <3> SUFFICES ASSUME SameCommand', OnlyTaken' PROVE \E q \in Programs : Leader(q)'
      BY <3>1 DEF SomeoneLeads, LeadInv
    <3>2. failure[p] = "none"
      BY <2>1 DEF LeadInv, NotFailedYet
    <3>3. SameCommand /\ OnlyTaken
      BY <2>1, <2>3, <3>2 DEF SameCommand, OnlyTaken, GiveUp, TypeOK
    <3>4. PICK m \in Programs : Leader(m)
      BY <3>3 DEF LeadInv, SomeoneLeads
    <3>5. PICK q \in taken[ThePath(p)] : TRUE
      BY <2>3
    <3>6. ThePath(p) \in ListPaths /\ q \in Programs /\ q # Earlier
      BY <2>1, <3>3, <3>5, WantsType DEF ThePath, TypeOK, SameCommand
    <3>7. PICK i \in DOMAIN wants[q] : wants[q][i] = ThePath(p) /\ (i < at[q] \/ (i = at[q] /\ Opened(q)))
      BY <3>5, <3>6 DEF LeadInv, TakenByThoseAhead
    <3>8. i = at[p]
      BY <2>1, <3>3, <3>6, <3>7 DEF SameCommand, ThePath
    <3>9. Score(p) < Score(q)
      <4>1. at[p] \in Nat /\ at[q] \in Nat /\ Score(p) = 2 * at[p]
        BY <2>1, <3>6 DEF TypeOK, Score, Opened
      <4> QED BY <3>7, <3>8, <4>1 DEF Score
    <3>10. m # p
      BY <3>4, <3>6, <3>9, ScoreType DEF Leader
    <3>11. \A x \in Programs : Score(x)' = Score(x)
      BY <2>1, <2>3 DEF Score, Opened
    <3> QED BY <2>3, <3>4, <3>10, <3>11 DEF Leader, GiveUp, TypeOK
  <2> QED BY <1>4, <2>2, <2>3 DEF Check
<1>5. ASSUME NEW p \in Programs, Open(p) PROVE LeadInv'
  <2>1. /\ at[p] \in DOMAIN wants[p] /\ lists[p][at[p]] = "checked" /\ phase[p] = "create"
        /\ UNCHANGED <<wants, at>>
    BY <1>5 DEF Open, Creating
  <2>2. CASE GiveUp(p, "output") /\ UNCHANGED <<lists, taken>>
    <3>1. \A q \in Programs : Opened(q)' <=> Opened(q)
      BY <2>1, <2>2 DEF Opened
    <3> QED BY <2>1, <2>2, <3>1, NobodyMoves DEF GiveUp
  <2>3. CASE /\ Stage(p, at[p], "open") /\ UNCHANGED <<phase, failure>>
             /\ taken' = [taken EXCEPT ![ThePath(p)] = @ \cup {p}]
    <3>1. /\ lists'[p][at[p]] = "open"
          /\ \A q \in Programs \ {p} : lists'[q] = lists[q]
      BY <2>1, <2>3, StageType DEF Stages
    <3>2. Opened(p)' /\ ~Opened(p) /\ \A q \in Programs \ {p} : Opened(q)' <=> Opened(q)
      BY <2>1, <3>1 DEF Opened
    <3>3. Score(p)' >= Score(p) /\ \A q \in Programs \ {p} : Score(q)' = Score(q)
      <4>1. at[p] \in Nat /\ Score(p) = 2 * at[p] /\ Score(p)' = 2 * at[p] + 1
        BY <2>1, <3>2 DEF Score, TypeOK
      <4> QED BY <2>1, <3>2, <4>1 DEF Score
    <3>4. failure[p] = "none"
      BY <2>1 DEF LeadInv, NotFailedYet
    <3>5. \A l \in ListPaths : taken[l] \subseteq taken'[l] /\ taken'[l] \subseteq taken[l] \cup {p}
                               /\ (p \in taken'[l] => p \in taken[l] \/ l = ThePath(p))
      BY <2>3 DEF TypeOK
    <3>6. TakenByThoseAhead'
      <4> SUFFICES ASSUME NEW l \in ListPaths, NEW q \in taken'[l] \ {Earlier}
                   PROVE  \E i \in DOMAIN wants[q] :
                            wants[q][i] = l /\ (i < at[q] \/ (i = at[q] /\ Opened(q)'))
        BY <2>1 DEF TakenByThoseAhead
      <4>1. q \in Programs
        BY DEF TypeOK
      <4>2. CASE q \in taken[l]
        <5>1. Opened(q) => Opened(q)'
          BY <3>2, <4>1
        <5> QED BY <4>2, <5>1 DEF LeadInv, TakenByThoseAhead
      <4>3. CASE q = p /\ l = ThePath(p)
        BY <2>1, <3>2, <4>3 DEF ThePath
      <4> QED BY <3>5, <4>2, <4>3
    <3> QED BY <2>1, <2>3, <3>3, <3>4, <3>5, <3>6, OneMoves DEF LeadInv
  <2> QED BY <1>5, <2>2, <2>3 DEF Open
<1>6. ASSUME NEW p \in Programs, PrintFails(p) PROVE LeadInv'
  <2>1. /\ at[p] \in DOMAIN wants[p] /\ lists[p][at[p]] \in {"open", "cut"} /\ phase[p] = "create"
        /\ UNCHANGED <<wants, at, taken>> /\ GiveUp(p, "output")
        /\ UNCHANGED lists \/ Stage(p, at[p], "cut")
    BY <1>6 DEF PrintFails, Creating
  <2>2. \A q \in Programs : Opened(q)' <=> Opened(q)
    BY <1>3, <2>1 DEF Opened
  <2> QED BY <2>1, <2>2, NobodyMoves DEF GiveUp
<1>7. ASSUME NEW p \in Programs, EndList(p) PROVE LeadInv'
  <2>1. /\ at' = [at EXCEPT ![p] = @ + 1] /\ at[p] \in DOMAIN wants[p] /\ phase[p] = "create"
        /\ UNCHANGED <<wants, phase, lists, taken, failure>>
    BY <1>7 DEF EndList, Creating
  <2>2. \A q \in Programs \ {p} : at'[q] = at[q] /\ (Opened(q)' <=> Opened(q))
    BY <2>1 DEF TypeOK, Opened
  <2>3. at[p] \in Nat /\ at'[p] = at[p] + 1
    BY <2>1 DEF TypeOK
  <2>4. Score(p)' >= Score(p) /\ \A q \in Programs \ {p} : Score(q)' = Score(q)
    BY <2>2, <2>3 DEF Score
  <2>5. TakenByThoseAhead'
    <3> SUFFICES ASSUME NEW l \in ListPaths, NEW q \in taken[l] \ {Earlier}
                 PROVE  \E i \in DOMAIN wants[q] :
                          wants[q][i] = l /\ (i < at'[q] \/ (i = at'[q] /\ Opened(q)'))
      BY <2>1 DEF TakenByThoseAhead
    <3>1. PICK i \in DOMAIN wants[q] : wants[q][i] = l /\ (i < at[q] \/ (i = at[q] /\ Opened(q)))
      BY DEF LeadInv, TakenByThoseAhead
    <3>2. q \in Programs /\ i \in Nat
      BY <3>1, WantsType DEF TypeOK
    <3>3. CASE q = p
      BY <2>3, <3>1, <3>2, <3>3
    <3>4. CASE q # p
      BY <2>2, <3>1, <3>2, <3>4
    <3> QED BY <3>3, <3>4
  <2>6. failure[p] = "none"
    BY <2>1 DEF LeadInv, NotFailedYet
  <2> QED BY <2>1, <2>4, <2>5, <2>6, OneMoves DEF LeadInv
<1>8. ASSUME NEW p \in Programs, NEW i \in DOMAIN wants[p], Settle(p, i) PROVE LeadInv'
  <2>1. \A q \in Programs : Opened(q)' <=> Opened(q)
    BY <1>3, <1>8 DEF Settle
  <2> QED BY <1>8, <2>1, NobodyMoves DEF Settle
<1> QED BY <1>1, <1>2, <1>4, <1>5, <1>6, <1>7, <1>8 DEF Next, Program, Stopped

\* Of programs that are asked for the same new lists in the same order, and
\* that nothing else disturbs, one succeeds.
THEOREM RaceHasAWinner == Spec => []OneSucceeds
<1>1. LeadInv => OneSucceeds
  BY DEF LeadInv, SomeoneLeads, Leader, OneSucceeds, AllExited, OnlyTaken
<1> QED BY <1>1, LeadInit, LeadStep, TypeInit, TypeStep, PTL DEF Spec
=============================================================================
