--------------------------- MODULE ArgWalk_proofs ---------------------------
(***************************************************************************)
(* What every command may rely on while it walks over its paths: the type  *)
(* of the walk's variables, and how the place in the walk, the path at     *)
(* hand and the file in the callback belong together.                      *)
(***************************************************************************)
EXTENDS ArgWalk, TLAPS

(***************************************************************************)
(* The shape of the walk.  It is what makes WalkTypeOK inductive: the next *)
(* path is begun only while there is one.                                  *)
(***************************************************************************)
WalkShape ==
  /\ walk.at = "path" => walk = Idle
  /\ walk.at # "path" => arg <= Len(args)
  /\ walk.at = "folder" => ThePath.kind = "folder"
  /\ walk.at \in {"probe", "number"} => ThePath.kind = "sequence" /\ ThePath.readable
  /\ walk.at = "probe" => cur = NoFile
  /\ walk.at = "path" /\ cur # NoFile =>
       arg <= Len(args) /\ ThePath.kind = "file" /\ cur = ThePath.files[1]
  /\ walk.at \in {"probe", "number"} => walk.pos \in 1..(Len(ThePath.files) + 1)
  /\ walk.at = "number" /\ cur # NoFile =>
       walk.pos > 1 /\ cur = ThePath.files[walk.pos - 1]

WalkOK == WalkTypeOK /\ WalkShape

\* The path at hand is well-formed.
LEMMA ThePathType ==
  ASSUME WalkTypeOK, arg <= Len(args)
  PROVE  /\ ThePath \in PathSpec
         /\ ThePath.kind = "file" => Len(ThePath.files) = 1 /\ ThePath.files[1] \in Files
         /\ ThePath.kind \in {"folder", "other"} => ThePath.files = <<>>
         /\ ThePath.kind # "folder" => ThePath.below = {}
         /\ ThePath.kind \in {"file", "other"} => ThePath.readable
<1>1. args \in Seq(PathSpec) /\ arg \in DOMAIN args
  BY ArgWalkAssumption DEF ArgWalkAssumption, WalkTypeOK
<1>2. ThePath \in PathSpec
  BY <1>1 DEF ThePath
<1>3. /\ ThePath.kind = "file" => Len(ThePath.files) = 1
      /\ ThePath.kind \in {"folder", "other"} => ThePath.files = <<>>
      /\ ThePath.kind # "folder" => ThePath.below = {}
      /\ ThePath.kind \in {"file", "other"} => ThePath.readable
  BY <1>1, ArgWalkAssumption DEF ArgWalkAssumption, WalkTypeOK, ThePath
<1>4. ThePath.files \in Seq(Files)
  BY <1>2 DEF PathSpec
<1> QED BY <1>2, <1>3, <1>4

\* Ending a path leads to the next one, or past the last one.
LEMMA NextPathOK ==
  ASSUME WalkOK, arg <= Len(args), NEW res \in Codes, NextPath(res),
         args' = args, cur' = NoFile, UNCHANGED diskVars,
         count' \in Counters
  PROVE  WalkOK'
<1>1. args \in Seq(PathSpec)
  BY ArgWalkAssumption DEF ArgWalkAssumption, WalkOK, WalkTypeOK
<1>2. arg' \in 1..(Len(args') + 1)
  BY <1>1 DEF WalkOK, WalkTypeOK, NextPath
<1>3. overall' \in Codes
  BY DEF WalkOK, WalkTypeOK, NextPath
<1>4. walk' = Idle /\ Idle.at = "path"
  BY DEF NextPath, Idle
<1>5. walk' \in Places
  BY <1>4 DEF Idle, Places
<1>6. WalkTypeOK'
  BY <1>2, <1>3, <1>5 DEF WalkOK, WalkTypeOK, diskVars
<1>7. WalkShape'
  BY <1>4 DEF WalkShape
<1> QED BY <1>6, <1>7 DEF WalkOK

\* Updates of a place in the walk, and of the counters, are well-typed.
LEMMA PlaceUpdates ==
  ASSUME NEW w \in Places, NEW F \in SUBSET Files, NEW G \in SUBSET Files,
         NEW b \in BOOLEAN, NEW p \in Nat
  PROVE  /\ [w EXCEPT !.must = F, !.may = G] \in Places
         /\ [w EXCEPT !.pos = p, !.gap = b] \in Places
         /\ [w EXCEPT !.pos = p] \in Places
<1>1. [w EXCEPT !.must = F, !.may = G] \in Places
  BY DEF Places
<1>2. [w EXCEPT !.pos = p, !.gap = b] \in Places
  BY DEF Places
<1>3. [w EXCEPT !.pos = p] \in Places
  BY DEF Places
<1> QED BY <1>1, <1>2, <1>3

LEMMA CounterUpdates ==
  ASSUME NEW w \in Counters, NEW a \in Nat, NEW b \in Nat, NEW c \in Nat
  PROVE  /\ [w EXCEPT !.processed = a, !.failed = b, !.ok = c] \in Counters
         /\ [w EXCEPT !.seqs = a, !.seqsFailed = b] \in Counters
<1>1. [w EXCEPT !.processed = a, !.failed = b, !.ok = c] \in Counters
  BY DEF Counters
<1>2. [w EXCEPT !.seqs = a, !.seqsFailed = b] \in Counters
  BY DEF Counters
<1> QED BY <1>1, <1>2

\* So are the two ways to count a result.
LEMMA CountersType ==
  ASSUME WalkTypeOK, NEW res \in Codes
  PROVE  Counted(res) \in Counters /\ CountedSequence(res) \in Counters
<1> DEFINE failed     == IF res = "OK" THEN count.failed ELSE count.failed + 1
           ok         == IF res = "OK" THEN count.ok + 1 ELSE count.ok
           seqsFailed == IF res = "OK" THEN count.seqsFailed ELSE count.seqsFailed + 1
<1>1. count \in Counters
  BY DEF WalkTypeOK
<1>2. /\ failed \in Nat /\ ok \in Nat /\ seqsFailed \in Nat
      /\ count.processed + 1 \in Nat /\ count.seqs + 1 \in Nat
  BY <1>1 DEF Counters
<1>3. Counted(res) = [count EXCEPT !.processed = count.processed + 1,
                                   !.failed = failed, !.ok = ok]
  BY DEF Counted
<1>4. CountedSequence(res) = [count EXCEPT !.seqs = count.seqs + 1,
                                           !.seqsFailed = seqsFailed]
  BY DEF CountedSequence
<1> HIDE DEF failed, ok, seqsFailed
<1>5. [count EXCEPT !.processed = count.processed + 1,
                    !.failed = failed, !.ok = ok] \in Counters
  BY <1>1, <1>2, CounterUpdates
<1>6. [count EXCEPT !.seqs = count.seqs + 1,
                    !.seqsFailed = seqsFailed] \in Counters
  BY <1>1, <1>2, CounterUpdates
<1> QED BY <1>3, <1>4, <1>5, <1>6

\* The walk starts well.
LEMMA WalkInitOK == ASSUME WalkInit PROVE WalkOK
<1>1. args \in Seq(PathSpec) /\ Len(args) \in Nat
  BY ArgWalkAssumption DEF ArgWalkAssumption, WalkInit
<1>2. WalkTypeOK
  BY <1>1, ArgWalkAssumption
     DEF ArgWalkAssumption, WalkInit, WalkTypeOK, Idle, NoCount, Codes, Places, Counters
<1>3. WalkShape
  BY DEF WalkInit, WalkShape, Idle
<1> QED BY <1>2, <1>3 DEF WalkOK

LEMMA RestartWalkOK ==
  ASSUME WalkOK, RestartWalk, cur = NoFile, UNCHANGED diskVars PROVE WalkOK'
<1>1. args \in Seq(PathSpec) /\ Len(args) \in Nat
  BY ArgWalkAssumption DEF ArgWalkAssumption, WalkOK, WalkTypeOK
<1>2. WalkTypeOK'
  BY <1>1 DEF WalkOK, RestartWalk, WalkTypeOK, Idle, NoCount, Codes, diskVars, Places, Counters
<1>3. WalkShape'
  BY DEF RestartWalk, WalkShape, Idle
<1> QED BY <1>2, <1>3 DEF WalkOK

\* Whatever the callback returns, the walk keeps its shape.
LEMMA CallbackReturnsOK ==
  ASSUME WalkOK, cur # NoFile, NEW res \in Codes, CallbackReturns(res),
         UNCHANGED diskVars
  PROVE  WalkOK'
<1>1. arg <= Len(args)
  BY DEF WalkOK, WalkShape
<1>2. cur' = NoFile /\ args' = args
  BY DEF CallbackReturns
<1>3. count' \in Counters
  <2>1. count \in Counters
    BY DEF WalkOK, WalkTypeOK
  <2> QED BY <2>1, CountersType DEF WalkOK, CallbackReturns
<1>4. CASE NextPath(res)
  BY <1>1, <1>2, <1>3, <1>4, NextPathOK
<1>5. CASE UNCHANGED <<arg, walk, overall>> /\ walk.at # "path"
  <2>1. WalkTypeOK'
    BY <1>2, <1>3, <1>5 DEF WalkOK, WalkTypeOK, diskVars
  <2>2. WalkShape'
    BY <1>2, <1>5 DEF WalkOK, WalkShape, ThePath
  <2> QED BY <2>1, <2>2 DEF WalkOK
<1> QED BY <1>4, <1>5 DEF CallbackReturns

\* Changes made by other programs do not disturb the walk's shape.
LEMMA EditOK ==
  ASSUME WalkOK, NEW f \in Files, NEW c \in Contents \cup {Absent}, Edit(f, c)
  PROVE  WalkOK'
<1>1. \/ walk' = walk
      \/ walk.at = "folder"
         /\ walk' = [walk EXCEPT !.must = @ \ {f}, !.may = @ \cup {f}]
  BY DEF Edit
<1>2. walk' \in Places
  <2>1. walk \in Places
    BY DEF WalkOK, WalkTypeOK
  <2>2. walk.must \ {f} \in SUBSET Files /\ walk.may \cup {f} \in SUBSET Files
    BY <2>1 DEF Places
  <2>3. [walk EXCEPT !.must = walk.must \ {f}, !.may = walk.may \cup {f}] \in Places
    BY <2>1, <2>2, PlaceUpdates
  <2> QED BY <1>1, <2>1, <2>3
<1>3. walk'.at = walk.at /\ walk'.pos = walk.pos /\ (walk.at = "path" => walk' = walk)
  BY <1>1 DEF WalkOK, WalkTypeOK, Places
<1>4. WalkTypeOK'
  BY <1>2, ArgWalkAssumption DEF ArgWalkAssumption, WalkOK, WalkTypeOK, Edit
<1>5. WalkShape'
  BY <1>3 DEF WalkOK, WalkShape, ThePath, Edit
<1> QED BY <1>4, <1>5 DEF WalkOK

\* The steps of the walk itself.
LEMMA WalkStepOK == ASSUME WalkOK, Walk PROVE WalkOK'
<1> USE DEF WalkOK
<1>1. UNCHANGED <<diskVars, args>>
  BY DEF Walk, MissingPath, IgnorePath, BeginFile, BeginFolder, VisitEntry,
         EndFolder, FolderFails, RefuseSequence, BeginSequence, ProbeNumber, ProbesDone,
         VisitNumber, EndSequence
<1>2. count \in Counters
  BY DEF WalkTypeOK
<1>3. {"OK", "NO_SUCH_FILE", "IO_ERROR", "INVALID_SEQUENCE", "GAP_IN_SEQUENCE"} \subseteq Codes
  BY DEF Codes
<1>4. CASE \E res \in Codes : NextPath(res) /\ arg <= Len(args) /\ cur' = NoFile
                              /\ count' \in Counters
  BY <1>1, <1>4, NextPathOK
<1>5. CASE MissingPath
  BY <1>3, <1>4, <1>5, CountersType DEF MissingPath
<1>6. CASE IgnorePath
  BY <1>2, <1>3, <1>4, <1>6 DEF IgnorePath
<1>7. CASE EndFolder
  BY <1>2, <1>3, <1>4, <1>7 DEF EndFolder, WalkShape
<1>8. CASE FolderFails
  BY <1>2, <1>3, <1>4, <1>8 DEF FolderFails, WalkShape
<1>9. CASE EndSequence
  BY <1>3, <1>4, <1>9, CountersType DEF EndSequence, WalkShape
<1>10. CASE BeginFile
  <2>1. cur' \in Files
    BY <1>10, ThePathType DEF BeginFile
  <2>2. WalkTypeOK'
    BY <1>1, <1>10, <2>1 DEF BeginFile, WalkTypeOK, diskVars
  <2>3. WalkShape'
    BY <1>1, <1>10 DEF BeginFile, WalkShape, ThePath
  <2> QED BY <2>2, <2>3
<1>11. CASE BeginFolder
  <2>1. walk' = [at |-> "folder", must |-> {f \in ThePath.below : Exists(f)},
                 may |-> {}, pos |-> 0, gap |-> FALSE]
    BY <1>11 DEF BeginFolder, InFolder, Idle
  <2>2. ThePath.below \subseteq Files
    BY <1>11, ThePathType DEF BeginFolder, PathSpec
  <2>3. WalkTypeOK'
    <3>1. {f \in ThePath.below : Exists(f)} \in SUBSET Files
      BY <2>2
    <3>2. walk' \in Places
      BY <2>1, <3>1 DEF Places
    <3> QED BY <1>1, <1>11, <3>2 DEF BeginFolder, WalkTypeOK, diskVars
  <2>4. WalkShape'
    BY <1>1, <1>11, <2>1 DEF BeginFolder, WalkShape, ThePath
  <2> QED BY <2>3, <2>4
<1>12. CASE VisitEntry
  <2>1. PICK f \in walk.must \cup walk.may :
          cur' = f /\ walk' = [walk EXCEPT !.must = @ \ {f}, !.may = @ \ {f}]
    BY <1>12 DEF VisitEntry
  <2>2. f \in Files /\ walk.must \ {f} \in SUBSET Files /\ walk.may \ {f} \in SUBSET Files
    BY <2>1 DEF WalkTypeOK, Places
  <2>3. [walk EXCEPT !.must = walk.must \ {f}, !.may = walk.may \ {f}] \in Places
    BY <2>2, PlaceUpdates DEF WalkTypeOK
  <2>4. WalkTypeOK'
    BY <1>1, <1>12, <2>1, <2>2, <2>3 DEF VisitEntry, WalkTypeOK, diskVars
  <2>5. walk'.at = "folder"
    BY <1>12, <2>1 DEF VisitEntry, WalkTypeOK, Places
  <2>6. WalkShape'
    BY <1>1, <1>12, <2>5 DEF VisitEntry, WalkShape, ThePath
  <2> QED BY <2>4, <2>6
<1>13. CASE BeginSequence
  <2>1. walk' = [at |-> "probe", must |-> {}, may |-> {}, pos |-> 1, gap |-> FALSE]
    BY <1>13 DEF BeginSequence, Probing, Idle
  <2>2. Len(ThePath.files) \in Nat
    BY <1>13, ThePathType DEF BeginSequence, PathSpec
  <2>3. WalkTypeOK'
    BY <1>1, <1>13, <2>1 DEF BeginSequence, WalkTypeOK, diskVars, Places
  <2>4. WalkShape'
    BY <1>1, <1>13, <2>1, <2>2 DEF BeginSequence, WalkShape, ThePath
  <2> QED BY <2>3, <2>4
<1>14. CASE ProbeNumber
  <2>1. walk'.at = walk.at /\ walk'.pos = walk.pos + 1
    BY <1>14 DEF ProbeNumber, WalkTypeOK, Places
  <2>2. (walk.gap \/ ~Exists(ThePath.files[walk.pos])) \in BOOLEAN
    OBVIOUS
  <2>3. walk' \in Places
    <3> DEFINE gap == walk.gap \/ ~Exists(ThePath.files[walk.pos])
    <3>1. walk \in Places /\ walk.pos + 1 \in Nat
      BY DEF WalkTypeOK, Places
    <3>2. walk' = [walk EXCEPT !.pos = walk.pos + 1, !.gap = gap]
      BY <1>14 DEF ProbeNumber
    <3>3. gap \in BOOLEAN
      BY <2>2
    <3> HIDE DEF gap
    <3>4. [walk EXCEPT !.pos = walk.pos + 1, !.gap = gap] \in Places
      BY <3>1, <3>3, PlaceUpdates
    <3> QED BY <3>2, <3>4
  <2>4. WalkTypeOK'
    BY <1>1, <1>14, <2>3 DEF ProbeNumber, WalkTypeOK, diskVars
  <2>5. Len(ThePath.files) \in Nat
    BY <1>14, ThePathType DEF ProbeNumber, WalkShape, PathSpec
  <2>6. WalkShape'
    BY <1>1, <1>14, <2>1, <2>5 DEF ProbeNumber, WalkShape, ThePath
  <2> QED BY <2>4, <2>6
<1>15. CASE ProbesDone
  <2>1. CASE walk.gap
    BY <1>3, <1>4, <1>15, <2>1, CountersType DEF ProbesDone, WalkShape
  <2>2. CASE ~walk.gap
    <3>1. walk' = [at |-> "number", must |-> {}, may |-> {}, pos |-> 1, gap |-> FALSE]
      BY <1>15, <2>2 DEF ProbesDone, Numbering, Idle
    <3>2. Len(ThePath.files) \in Nat
      BY <1>15, ThePathType DEF ProbesDone, WalkShape, PathSpec
    <3>3. UNCHANGED <<arg, overall, count, cur>>
      BY <1>15, <2>2 DEF ProbesDone
    <3>4. WalkTypeOK'
      BY <1>1, <3>1, <3>3 DEF WalkTypeOK, diskVars, Places
    <3>5. WalkShape'
      BY <1>1, <1>15, <3>1, <3>2, <3>3 DEF ProbesDone, WalkShape, ThePath
    <3> QED BY <3>4, <3>5
  <2> QED BY <2>1, <2>2
<1>16. CASE VisitNumber
  <2>1. walk' = [walk EXCEPT !.pos = @ + 1] /\ walk.pos \in Nat
    BY <1>16 DEF VisitNumber, WalkTypeOK, Places
  <2>2. walk'.at = "number" /\ walk'.pos = walk.pos + 1
    BY <1>16, <2>1 DEF VisitNumber, WalkTypeOK, Places
  <2>3. arg <= Len(args) /\ walk.pos \in 1..Len(ThePath.files)
        /\ ThePath.files \in Seq(Files)
    BY <1>16, ThePathType DEF VisitNumber, WalkShape, PathSpec
  <2>4. cur' = ThePath.files[walk.pos] /\ cur' \in Files
    BY <1>16, <2>3 DEF VisitNumber
  <2>5. [walk EXCEPT !.pos = walk.pos + 1] \in Places
    <3>1. walk \in Places /\ walk.pos + 1 \in Nat
      BY <2>1 DEF WalkTypeOK
    <3> QED BY <3>1, PlaceUpdates
  <2>6. WalkTypeOK'
    BY <1>1, <1>16, <2>1, <2>4, <2>5 DEF VisitNumber, WalkTypeOK, diskVars
  <2>7. WalkShape'
    BY <1>1, <1>16, <2>2, <2>3, <2>4 DEF VisitNumber, WalkShape, ThePath
  <2> QED BY <2>6, <2>7
<1>17. CASE RefuseSequence
  BY <1>3, <1>4, <1>17, CountersType DEF RefuseSequence
<1> QED BY <1>5, <1>6, <1>7, <1>8, <1>9, <1>10, <1>11, <1>12, <1>13, <1>14,
           <1>15, <1>16, <1>17 DEF Walk

\* An error is remembered: the invariant and its preservation.
LEMMA CountedRemembers ==
  ASSUME WalkTypeOK, ErrorsAreRemembered, NEW res \in Codes,
         overall' = IF res = "OK" THEN overall ELSE res,
         count' \in {count, Counted(res), CountedSequence(res)},
         args' = args,
         arg' = arg \/ (arg' = arg + 1 /\ (res = "OK" => ThePath.readable))
  PROVE  ErrorsAreRemembered'
<1>1. SUFFICES ASSUME res = "OK", overall = "OK"
               PROVE  /\ count'.failed = 0 /\ count'.seqsFailed = 0
                      /\ \A i \in 1..(arg' - 1) : args[i].readable
  BY DEF ErrorsAreRemembered
<1>2. count \in Counters /\ count.failed = 0 /\ count.seqsFailed = 0
  BY <1>1 DEF WalkTypeOK, ErrorsAreRemembered
<1>3. Counted(res).failed = 0 /\ Counted(res).seqsFailed = 0
  BY <1>1, <1>2 DEF Counted, Counters
<1>4. CountedSequence(res).failed = 0 /\ CountedSequence(res).seqsFailed = 0
  BY <1>1, <1>2 DEF CountedSequence, Counters
<1>5. arg \in Int /\ \A i \in 1..(arg - 1) : args[i].readable
  BY <1>1 DEF WalkTypeOK, ErrorsAreRemembered
<1>6. \A i \in 1..(arg' - 1) : args[i].readable
  BY <1>1, <1>5 DEF ThePath
<1> QED BY <1>2, <1>3, <1>4, <1>6

LEMMA CallbackRemembers ==
  ASSUME WalkOK, ErrorsAreRemembered, cur # NoFile,
         NEW res \in Codes, CallbackReturns(res)
  PROVE  ErrorsAreRemembered'
<1>1. WalkTypeOK /\ args' = args
  BY DEF WalkOK, CallbackReturns
<1>2. CASE UNCHANGED <<arg, walk, overall>> /\ res = "OK" /\ count' \in {count, Counted(res)}
  <2>1. overall' = IF res = "OK" THEN overall ELSE res
    BY <1>2
  <2> QED BY <1>1, <1>2, <2>1, CountedRemembers
<1>3. CASE /\ NextPath(res) /\ count' \in {Counted(res), CountedSequence(res)}
           /\ walk.at = "path" \/ res # "OK"
  <2>1. res = "OK" => ThePath.readable
    BY <1>3, ThePathType DEF WalkOK, WalkShape
  <2> QED BY <1>1, <1>3, <2>1, CountedRemembers DEF NextPath
<1> QED BY <1>2, <1>3 DEF CallbackReturns

LEMMA WalkRemembers ==
  ASSUME WalkOK, ErrorsAreRemembered, Walk PROVE ErrorsAreRemembered'
<1>1. {"OK", "NO_SUCH_FILE", "IO_ERROR", "INVALID_SEQUENCE", "GAP_IN_SEQUENCE"} \subseteq Codes
  BY DEF Codes
<1>2. WalkTypeOK
  BY DEF WalkOK
<1>3. CASE UNCHANGED <<args, arg, overall, count>>
  BY <1>3 DEF ErrorsAreRemembered
<1>4. CASE \E res \in Codes :
             /\ NextPath(res) /\ count' \in {count, Counted(res), CountedSequence(res)}
             /\ args' = args /\ (res = "OK" => ThePath.readable)
  BY <1>2, <1>4, CountedRemembers DEF NextPath
<1>5. CASE IgnorePath
  BY <1>1, <1>2, <1>4, <1>5, ThePathType DEF IgnorePath
<1>6. CASE EndFolder
  BY <1>1, <1>4, <1>6 DEF EndFolder
<1>7. CASE EndSequence
  BY <1>1, <1>4, <1>7 DEF EndSequence, WalkOK, WalkShape
<1>8. CASE MissingPath \/ FolderFails \/ RefuseSequence
  BY <1>1, <1>4, <1>8 DEF MissingPath, FolderFails, RefuseSequence
<1>9. CASE ProbesDone
  BY <1>1, <1>3, <1>4, <1>9 DEF ProbesDone
<1> QED BY <1>3, <1>5, <1>6, <1>7, <1>8, <1>9
        DEF Walk, BeginFile, BeginFolder, VisitEntry, BeginSequence, ProbeNumber,
            VisitNumber
=============================================================================
