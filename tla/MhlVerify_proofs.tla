-------------------------- MODULE MhlVerify_proofs --------------------------
(***************************************************************************)
(* Theorems about 'mhl verify', for any list, any paths on the command     *)
(* line, both options, and any number of changes by other programs.        *)
(***************************************************************************)
EXTENDS MhlVerify, ArgWalk_proofs, FiniteSetTheorems

LEMMA VerifyCodes ==
  {"OK", "NO_SUCH_FILE", "IO_ERROR", "HASH_FAILED", "FILE_SIZE_FAILED", "NO_MHL_ENTRY"}
    \subseteq Codes
BY DEF Codes

LEMMA SizeVerdictType == ASSUME NEW f PROVE SizeVerdict(f) \in Codes
BY VerifyCodes DEF SizeVerdict

\* Steps that leave the files and the walk alone.
LEMMA WalkUnchanged ==
  ASSUME WalkTypeOK, UNCHANGED <<diskVars, walkVars>>
  PROVE  WalkTypeOK' /\ (WalkShape => WalkShape')
BY DEF WalkTypeOK, WalkShape, ThePath, diskVars, walkVars

(***************************************************************************)
(* Type correctness.  The two ways to work use different parts of the      *)
(* state: with paths on the command line the walk has its shape and the    *)
(* list stays as it was parsed; without, the walk rests and the file in    *)
(* the callback is that of the record at hand.                             *)
(***************************************************************************)
ArgsShape ==
  ByArgs => WalkShape /\ pass \in {"size", "check", "exited"}

ListShape ==
  ~ByArgs =>
    /\ walk = Idle /\ arg = 1
    /\ pass \in {"look", "sort", "check", "exited"}
    /\ cur # NoFile => at <= Len(list) /\ cur = list[at].file

UniqueFiles ==
  \A i, j \in DOMAIN list : list[i].file = list[j].file => i = j

NoCallback == pass \in {"look", "sort", "exited"} => cur = NoFile

TypeInv == TypeOK /\ ArgsShape /\ ListShape /\ UniqueFiles /\ NoCallback

LEMMA TypeInvInit == ASSUME Init PROVE TypeInv
<1>1. WalkTypeOK /\ WalkShape
  BY WalkInitOK DEF Init, WalkOK
<1>2. list \in Seq(Record) /\ Len(list) \in Nat /\ UniqueFiles
  BY VerifyAssumption DEF VerifyAssumption, Init, UniqueFiles
<1>3. mtime \in [Files -> Nat] /\ StreamTypeOK
  BY VerifyAssumption DEF VerifyAssumption, Init, StreamInit, StreamTypeOK
<1>4. TypeOK
  BY <1>1, <1>2, <1>3, VerifyCodes DEF Init, TypeOK
<1>5. walk = Idle /\ arg = 1 /\ cur = NoFile
  BY DEF Init, WalkInit
<1>6. ArgsShape /\ ListShape /\ NoCallback
  BY <1>1, <1>5 DEF Init, ArgsShape, ListShape, NoCallback
<1> QED BY <1>2, <1>4, <1>6 DEF TypeInv

\* The record at hand.
LEMMA TheRecord ==
  ASSUME TypeOK, at <= Len(list)
  PROVE  at \in DOMAIN list /\ list[at] \in Record /\ TheFile \in Files
<1>1. at \in DOMAIN list /\ list[at] \in Record
  BY DEF TypeOK
<1> QED BY <1>1 DEF TheFile, Record

\* The sorting permutes the list.
LEMMA SortPermutes ==
  ASSUME TypeInv, SortRecords
  PROVE  /\ list' \in Seq(Record) /\ Len(list') = Len(list) /\ DOMAIN list' = DOMAIN list
         /\ {list'[i] : i \in DOMAIN list'} = {list[i] : i \in DOMAIN list}
         /\ UniqueFiles'
<1>1. PICK p \in Bijection(DOMAIN list, DOMAIN list) :
        list' = [i \in DOMAIN list |-> list[p[i]]]
  BY DEF SortRecords
<1>2. /\ p \in [DOMAIN list -> DOMAIN list]
      /\ \A i, j \in DOMAIN list : p[i] = p[j] => i = j
      /\ \A t \in DOMAIN list : \E s \in DOMAIN list : p[s] = t
  BY <1>1 DEF Bijection, Injection, Surjection, IsInjective
<1>3. list \in Seq(Record) /\ DOMAIN list = 1..Len(list) /\ Len(list) \in Nat
  BY DEF TypeInv, TypeOK
<1>4. DOMAIN list' = DOMAIN list /\ \A i \in DOMAIN list : list'[i] = list[p[i]]
  BY <1>1
<1>5. \A i \in DOMAIN list : list[p[i]] \in Record
  BY <1>2, <1>3
<1>6. list' \in Seq(Record) /\ Len(list') = Len(list)
  BY <1>1, <1>3, <1>5
<1>7. {list'[i] : i \in DOMAIN list'} = {list[i] : i \in DOMAIN list}
  BY <1>2, <1>4
<1>8. UniqueFiles'
  BY <1>2, <1>4 DEF TypeInv, UniqueFiles
<1> QED BY <1>4, <1>6, <1>7, <1>8

\* The end of a check, for the types.
LEMMA CheckReturnsType ==
  ASSUME TypeInv, Checking, NEW res \in Codes, CheckReturns(res)
  PROVE  TypeInv'
<1>0. TypeOK /\ WalkTypeOK /\ cur \in Files /\ cur # NoFile /\ pass = "check"
  BY DEF TypeInv, TypeOK, Checking, WalkTypeOK
<1>1. /\ verdicts' \in [Files -> SUBSET Codes] /\ StreamTypeOK'
      /\ UNCHANGED <<diskVars, options, pass, list, lastMod, mtime, result, args>>
      /\ step' = "begin" /\ cur' = NoFile
  BY <1>0 DEF CheckReturns, CallbackReturns, RecordReturns, TypeOK, StreamTypeOK
<1>2. CASE ByArgs
  <2>1. CallbackReturns(res) /\ at' = at
    BY <1>2 DEF CheckReturns
  <2>2. WalkOK
    BY <1>0, <1>2 DEF TypeInv, ArgsShape, WalkOK
  <2>3. WalkOK'
    BY <1>0, <1>1, <2>1, <2>2, CallbackReturnsOK
  <2>4. TypeOK'
    BY <1>0, <1>1, <2>1, <2>3 DEF TypeOK, WalkOK, options
  <2> QED BY <1>0, <1>1, <1>2, <2>3, <2>4
          DEF TypeInv, ArgsShape, ListShape, UniqueFiles, NoCallback, ByArgs, WalkOK
<1>3. CASE ~ByArgs
  <2>1. RecordReturns(res)
    BY <1>3 DEF CheckReturns
  <2>2. at \in DOMAIN list /\ at + 1 \in 1..(Len(list) + 1)
    BY <1>0, <1>3, TheRecord DEF TypeInv, ListShape, TypeOK
  <2>3. count' \in Counters /\ overall' \in Codes
    BY <1>0, <2>1, CountersType DEF RecordReturns, Remember, WalkTypeOK
  <2>4. WalkTypeOK'
    BY <1>0, <1>1, <2>1, <2>3 DEF RecordReturns, WalkTypeOK, diskVars
  <2>5. TypeOK'
    BY <1>0, <1>1, <2>1, <2>2, <2>4 DEF TypeOK, RecordReturns, options
  <2> QED BY <1>0, <1>1, <1>3, <2>1, <2>5
          DEF TypeInv, ArgsShape, ListShape, UniqueFiles, NoCallback, ByArgs, RecordReturns
<1> QED BY <1>2, <1>3

LEMMA TypeInvStep == ASSUME TypeInv, [Next]_vars PROVE TypeInv'
<1>0. TypeOK /\ WalkTypeOK /\ StreamTypeOK /\ (ByArgs => WalkOK)
  BY DEF TypeInv, TypeOK, ArgsShape, WalkOK
<1> USE DEF options, verifyVars
<1>1. CASE SizePass
  <2>1. ByArgs /\ WalkOK /\ (Walk \/ SizeFile)
    BY <1>0, <1>1 DEF SizePass, TypeInv, ListShape
  <2>2. WalkOK'
    BY <2>1, WalkStepOK, CallbackReturnsOK, VerifyCodes DEF SizeFile
  <2>3. args' = args
    BY <2>1 DEF SizeFile, CallbackReturns, Walk, MissingPath, IgnorePath, BeginFile,
       BeginFolder, VisitEntry, EndFolder, FolderFails, RefuseSequence, BeginSequence, ProbeNumber,
       ProbesDone, VisitNumber, EndSequence
  <2>4. TypeOK'
    BY <1>1, <1>0, <2>2 DEF SizePass, TypeOK, WalkOK, StreamTypeOK
  <2> QED BY <1>1, <2>1, <2>2, <2>3, <2>4 DEF SizePass, TypeInv, ArgsShape, ListShape,
          UniqueFiles, NoCallback, ByArgs, WalkOK
<1>2. CASE EndSizePass
  <2>1. ByArgs /\ WalkOK /\ cur = NoFile
    BY <1>0, <1>2 DEF EndSizePass, TypeInv, ListShape, WalkDone
  <2>2. WalkOK' /\ args' = args /\ cur' = cur
    BY <1>2, <2>1, RestartWalkOK, WalkUnchanged
       DEF EndSizePass, WalkOK, RestartWalk, walkVars
  <2>3. pass' \in {"check", "exited"} /\ result' \in Codes
    BY <1>0, <1>2 DEF EndSizePass, Finish, TypeOK, WalkTypeOK
  <2>4. TypeOK'
    BY <1>2, <1>0, <2>2, <2>3 DEF EndSizePass, TypeOK, WalkOK, StreamTypeOK
  <2> QED BY <1>2, <2>1, <2>2, <2>3, <2>4 DEF EndSizePass, TypeInv, ArgsShape, ListShape,
          UniqueFiles, NoCallback, ByArgs, WalkOK
<1>3. CASE CheckWalk
  <2>1. ByArgs /\ WalkOK /\ Walk
    BY <1>0, <1>3 DEF CheckWalk
  <2>2. WalkOK'
    BY <2>1, WalkStepOK
  <2>3. args' = args
    BY <2>1 DEF Walk, MissingPath, IgnorePath, BeginFile,
       BeginFolder, VisitEntry, EndFolder, FolderFails, RefuseSequence, BeginSequence, ProbeNumber,
       ProbesDone, VisitNumber, EndSequence
  <2>4. TypeOK'
    BY <1>3, <1>0, <2>2 DEF CheckWalk, TypeOK, WalkOK, StreamTypeOK
  <2> QED BY <1>3, <2>1, <2>2, <2>3, <2>4 DEF CheckWalk, TypeInv, ArgsShape, ListShape,
          UniqueFiles, NoCallback, ByArgs, WalkOK
<1>4. CASE EndCheckWalk \/ EndLooking \/ EndRecords
  <2>1. UNCHANGED <<diskVars, walkVars, stream, options, verifyVars, mtime>>
        /\ cur = NoFile
        /\ pass' \in {"sort", "exited"} /\ (pass' = "sort" => ~ByArgs)
        /\ result' \in {result, overall}
    BY <1>4 DEF EndCheckWalk, EndLooking, EndRecords, Finish, WalkDone, TypeInv,
                ArgsShape, NoCallback
  <2>2. WalkTypeOK' /\ (WalkShape => WalkShape')
    BY <1>0, <2>1, WalkUnchanged
  <2>3. TypeOK'
    BY <1>0, <2>1, <2>2 DEF TypeOK, WalkTypeOK, StreamTypeOK
  <2> QED BY <2>1, <2>2, <2>3 DEF TypeInv, ArgsShape, ListShape,
          UniqueFiles, NoCallback, ByArgs, walkVars
<1>5. CASE LookAtTime
  <2>1. /\ UNCHANGED <<diskVars, args, arg, walk, cur, count, stream, options, pass,
                       list, at, verdicts, mtime, result>>
        /\ pass = "look" /\ step' = "size"
    BY <1>5 DEF LookAtTime
  <2>2. overall' \in Codes /\ lastMod' \in [Files -> Nat]
    BY <1>0, <1>5, TheRecord, VerifyCodes DEF LookAtTime, Remember, TypeOK, WalkTypeOK
  <2>3. WalkTypeOK'
    BY <1>0, <2>1, <2>2 DEF WalkTypeOK, diskVars
  <2>4. TypeOK'
    BY <1>0, <2>1, <2>2, <2>3 DEF TypeOK, StreamTypeOK
  <2> QED BY <2>1, <2>4 DEF TypeInv, ArgsShape, ListShape, UniqueFiles, NoCallback, ByArgs
<1>6. CASE LookAtSize
  <2>1. /\ UNCHANGED <<diskVars, args, arg, walk, cur, stream, options, pass,
                       list, lastMod, verdicts, mtime, result>>
        /\ pass = "look" /\ step' = "begin" /\ at' = at + 1 /\ at <= Len(list)
        /\ count' = [count EXCEPT !.processed = @ + 1]
    BY <1>6 DEF LookAtSize
  <2>2. overall' \in Codes
    BY <1>0, <1>6, VerifyCodes DEF LookAtSize, Remember, WalkTypeOK
  <2>3. count' \in Counters
    BY <1>0, <2>1 DEF WalkTypeOK, Counters
  <2>4. WalkTypeOK'
    BY <1>0, <2>1, <2>2, <2>3 DEF WalkTypeOK, diskVars
  <2>5. TypeOK'
    BY <1>0, <2>1, <2>4 DEF TypeOK, StreamTypeOK
  <2> QED BY <2>1, <2>5 DEF TypeInv, ArgsShape, ListShape, UniqueFiles, NoCallback, ByArgs
<1>7. CASE SortRecords
  <2>1. /\ UNCHANGED <<diskVars, args, arg, walk, cur, overall, stream, options,
                       lastMod, step, verdicts, mtime, result>>
        /\ pass = "sort" /\ pass' = "check" /\ at' = 1 /\ count' = NoCount /\ cur = NoFile
    BY <1>7 DEF SortRecords, TypeInv, NoCallback
  <2>2. list' \in Seq(Record) /\ Len(list') = Len(list) /\ UniqueFiles' /\ Len(list) \in Nat
    BY <1>0, <1>7, SortPermutes DEF TypeOK
  <2>3. WalkTypeOK'
    BY <1>0, <2>1 DEF WalkTypeOK, diskVars, NoCount, Counters
  <2>4. TypeOK'
    BY <1>0, <2>1, <2>2, <2>3 DEF TypeOK, StreamTypeOK
  <2> QED BY <2>1, <2>2, <2>4 DEF TypeInv, ArgsShape, ListShape, NoCallback, ByArgs
<1>8. CASE BeginRecord
  <2>1. /\ UNCHANGED <<diskVars, args, arg, walk, overall, count, stream, options,
                       pass, verifyVars, mtime, result>>
        /\ pass = "check" /\ ~ByArgs /\ at <= Len(list) /\ cur' = TheFile
    BY <1>8 DEF BeginRecord
  <2>2. TheFile \in Files
    BY <1>0, <2>1, TheRecord
  <2>3. WalkTypeOK'
    BY <1>0, <2>1, <2>2 DEF WalkTypeOK, diskVars
  <2>4. TypeOK'
    BY <1>0, <2>1, <2>3 DEF TypeOK, StreamTypeOK
  <2> QED BY <2>1, <2>4 DEF TypeInv, ArgsShape, ListShape, UniqueFiles, NoCallback,
          ByArgs, TheFile
<1>9. ASSUME Checking, UNCHANGED <<diskVars, walkVars, options, pass, list, lastMod, at,
                                   verdicts, mtime, result>>,
             step' \in {"begin", "hash"}, stream' \in SUBSET Contents
      PROVE  TypeInv'
  <2>1. WalkTypeOK' /\ (WalkShape => WalkShape')
    BY <1>0, <1>9, WalkUnchanged
  <2>2. TypeOK'
    BY <1>0, <1>9, <2>1 DEF TypeOK, StreamTypeOK
  <2> QED BY <1>9, <2>1, <2>2 DEF TypeInv, ArgsShape, ListShape, UniqueFiles, NoCallback,
          ByArgs, walkVars
<1>10. CASE CheckSize
  BY <1>0, <1>9, <1>10, CheckReturnsType, SizeVerdictType DEF CheckSize, StreamTypeOK
<1>11. CASE OpenForHash
  <2>1. CASE Exists(cur)
    <3>1. stream' \in SUBSET Contents /\ Checking
      BY <1>0, <1>11, <2>1 DEF OpenForHash, OpenStream, Exists, WalkTypeOK, Checking
    <3> QED BY <1>9, <1>11, <2>1, <3>1 DEF OpenForHash
  <2>2. CASE ~Exists(cur)
    BY <1>11, <2>2, CheckReturnsType, VerifyCodes DEF OpenForHash
  <2> QED BY <2>1, <2>2
<1>12. CASE CompareHash \/ ReadFails
  BY <1>12, CheckReturnsType, VerifyCodes DEF CompareHash, ReadFails
<1>13. CASE FileChanges
  <2>1. PICK f \in Files, c \in Contents \cup {Absent} :
          EditSeenByStream(f, c) /\ mtime' = [mtime EXCEPT ![f] = MaxTime + edits']
    BY <1>13 DEF FileChanges
  <2>2. Edit(f, c) /\ UNCHANGED <<args, arg, cur, overall, count, options, pass, verifyVars,
                                  result>>
    BY <1>13, <2>1 DEF FileChanges, EditSeenByStream, Edit
  <2>3. /\ disk' \in [Files -> Contents \cup {Absent}] /\ touched' \in SUBSET Files
        /\ edits' \in 0..MaxEdits
    BY <1>0, <2>2, ArgWalkAssumption DEF ArgWalkAssumption, Edit, WalkTypeOK
  <2>4. ByArgs => WalkOK'
    BY <1>0, <2>2, EditOK
  <2>5. ~ByArgs => walk' = walk
    <3>1. Idle.at = "path"
      BY DEF Idle
    <3> QED BY <2>2, <3>1 DEF Edit, TypeInv, ListShape
  <2>6. WalkTypeOK'
    BY <1>0, <2>2, <2>3, <2>4, <2>5 DEF WalkTypeOK, WalkOK
  <2>7. stream' \in SUBSET Contents
    BY <1>0, <2>1 DEF EditSeenByStream, StreamTypeOK
  <2>8. mtime' \in [Files -> Nat]
    <3>1. MaxTime \in Nat /\ edits' \in Nat
      BY <2>3, VerifyAssumption, ArgWalkAssumption DEF VerifyAssumption, ArgWalkAssumption
    <3>2. PICK t \in Nat : t = edits'
      BY <3>1
    <3>3. MaxTime + t \in Nat
      BY <3>1
    <3> QED BY <1>0, <2>1, <3>2, <3>3 DEF TypeOK
  <2>9. TypeOK'
    BY <1>0, <2>2, <2>6, <2>7, <2>8 DEF TypeOK, StreamTypeOK
  <2> QED BY <2>2, <2>4, <2>5, <2>9 DEF TypeInv, ArgsShape, ListShape, UniqueFiles,
          NoCallback, ByArgs, WalkOK
<1>14. CASE UNCHANGED vars
  <2>1. WalkTypeOK' /\ (WalkShape => WalkShape')
    BY <1>0, <1>14, WalkUnchanged DEF vars
  <2> QED BY <1>0, <1>14, <2>1 DEF vars, TypeInv, TypeOK, StreamTypeOK, ArgsShape, ListShape,
          UniqueFiles, NoCallback, ByArgs, walkVars
<1> QED BY <1>1, <1>2, <1>3, <1>4, <1>5, <1>6, <1>7, <1>8, <1>10, <1>11, <1>12, <1>13, <1>14
        DEF Next, Program, Stopped

\* The types of all variables; in particular the iterator stays in the list
\* while the records are looked at, sorted and checked.
THEOREM VerifyTypeCorrect == Spec => []TypeOK
<1>1. Init => TypeInv
  BY TypeInvInit
<1>2. TypeInv /\ [Next]_vars => TypeInv'
  BY TypeInvStep
<1>3. TypeInv => TypeOK
  BY DEF TypeInv
<1> QED BY <1>1, <1>2, <1>3, PTL DEF Spec

(***************************************************************************)
(* What no step changes: the paths, the options, the records as a set, and *)
(* the files that nobody touches.                                          *)
(***************************************************************************)
Records == {list[i] : i \in DOMAIN list}

Stays ==
  /\ UNCHANGED <<args, options>>
  /\ Records' = Records /\ Len(list') = Len(list)
  /\ touched \subseteq touched'
  /\ \A f \in Files \ touched' : disk'[f] = disk[f]

LEMMA StepStays == ASSUME TypeInv, [Next]_vars PROVE Stays
<1> USE DEF options
<1>1. CASE FileChanges
  <2>1. PICK f \in Files, c \in Contents \cup {Absent} : Edit(f, c)
    BY <1>1 DEF FileChanges, EditSeenByStream
  <2>2. /\ touched' = touched \cup {f} /\ disk' = [disk EXCEPT ![f] = c]
        /\ UNCHANGED <<args, options, list>>
    BY <1>1, <2>1 DEF Edit, FileChanges, verifyVars
  <2>3. disk \in [Files -> Contents \cup {Absent}]
    BY DEF TypeInv, TypeOK, WalkTypeOK
  <2> QED BY <2>2, <2>3 DEF Stays, Records
<1>2. CASE SortRecords
  <2>1. UNCHANGED <<disk, touched, args, options>>
    BY <1>2 DEF SortRecords, diskVars
  <2> QED BY <1>2, <2>1, SortPermutes DEF Stays, Records
<1>3. CASE UNCHANGED <<disk, touched, args, options, list>>
  BY <1>3 DEF Stays, Records
<1>4. CASE ~FileChanges /\ ~SortRecords
  <2>1. UNCHANGED <<disk, touched, args, options, list>>
    BY <1>4 DEF Next, Program, Stopped, vars, diskVars, walkVars, verifyVars, SizePass,
       SizeFile, CallbackReturns, Walk, MissingPath, IgnorePath, BeginFile, BeginFolder,
       VisitEntry, EndFolder, FolderFails, RefuseSequence, BeginSequence, ProbeNumber, ProbesDone,
       VisitNumber, EndSequence, EndSizePass, RestartWalk, CheckWalk, EndCheckWalk,
       LookAtTime, LookAtSize, EndLooking, BeginRecord, EndRecords, CheckSize,
       OpenForHash, CompareHash, ReadFails, CheckReturns, RecordReturns
  <2> QED BY <1>3, <2>1
<1> QED BY <1>1, <1>2, <1>4

\* Listed, RecordOf and Intact look at no more than that.
LEMMA ListedIsRecords == Listed = {r.file : r \in Records}
BY DEF Listed, Records

LEMMA RecordStays == ASSUME Stays, NEW f PROVE RecordOf(f)' = RecordOf(f)
<1>1. RecordOf(f) = CHOOSE r \in Records : r.file = f
  BY DEF RecordOf, Records
<1>2. RecordOf(f)' = CHOOSE r \in Records' : r.file = f
  BY DEF RecordOf, Records
<1> QED BY <1>1, <1>2 DEF Stays

LEMMA ListedStays == ASSUME Stays PROVE Listed' = Listed
<1>1. Listed' = {r.file : r \in Records'}
  BY DEF Listed, Records
<1> QED BY <1>1, ListedIsRecords DEF Stays

LEMMA ExistsStays ==
  ASSUME Stays, NEW f \in Files, f \notin touched' PROVE Exists(f)' = Exists(f)
BY DEF Stays, Exists

LEMMA IntactStays ==
  ASSUME Stays, NEW f \in Files, f \notin touched' PROVE Intact(f)' = Intact(f)
<1>1. disk'[f] = disk[f] /\ existence' = existence
  BY DEF Stays, options
<1> QED BY <1>1, RecordStays, ListedStays DEF Intact, Exists

\* The records name files.
LEMMA ListedAreFiles == ASSUME TypeInv PROVE Listed \subseteq Files
<1>1. \A i \in DOMAIN list : list[i] \in Record
  BY DEF TypeInv, TypeOK
<1> QED BY <1>1 DEF Listed, Record

\* What it takes to pass the test of the size.
LEMMA SizeVerdictOK ==
  ASSUME NEW f
  PROVE  SizeVerdict(f) = "OK" <=>
           f \in Listed /\ Exists(f) /\ SizeOf[disk[f]] = RecordOf(f).size
<1>1. CASE f \notin Listed
  <2>1. SizeVerdict(f) = "NO_MHL_ENTRY"
    BY <1>1 DEF SizeVerdict
  <2> QED BY <1>1, <2>1
<1>2. CASE f \in Listed /\ ~Exists(f)
  <2>1. SizeVerdict(f) = "NO_SUCH_FILE"
    BY <1>2 DEF SizeVerdict
  <2> QED BY <1>2, <2>1
<1>3. CASE f \in Listed /\ Exists(f)
  <2>1. SizeVerdict(f) = IF SizeOf[disk[f]] = RecordOf(f).size
                           THEN "OK" ELSE "FILE_SIZE_FAILED"
    BY <1>3 DEF SizeVerdict
  <2> QED BY <1>3, <2>1
<1> QED BY <1>1, <1>2, <1>3

(***************************************************************************)
(* Errors are remembered.                                                  *)
(***************************************************************************)
LEMMA RememberStep == ASSUME TypeInv, ErrorsAreRemembered, [Next]_vars
                      PROVE  ErrorsAreRemembered'
<1>0. WalkTypeOK /\ (ByArgs => WalkOK) /\ (pass = "size" => ByArgs)
  BY DEF TypeInv, TypeOK, ArgsShape, ListShape, WalkOK
<1>1. ASSUME NEW res \in Codes, CheckReturns(res), Checking PROVE ErrorsAreRemembered'
  <2>1. CASE ByArgs
    BY <1>0, <1>1, <2>1, CallbackRemembers DEF CheckReturns, Checking
  <2>2. CASE RecordReturns(res)
    BY <1>0, <1>1, <2>2, CountedRemembers DEF RecordReturns, Remember
  <2> QED BY <1>1, <2>1, <2>2 DEF CheckReturns
<1>2. CASE SizePass
  <2>1. CASE Walk
    BY <1>0, <1>2, <2>1, WalkRemembers DEF SizePass
  <2>2. CASE SizeFile
    BY <1>0, <1>2, <2>2, CallbackRemembers, VerifyCodes DEF SizePass, SizeFile
  <2> QED BY <1>2, <2>1, <2>2 DEF SizePass
<1>3. CASE EndSizePass
  BY <1>3 DEF EndSizePass, RestartWalk, NoCount, ErrorsAreRemembered, walkVars
<1>4. CASE CheckWalk
  BY <1>0, <1>4, WalkRemembers DEF CheckWalk
<1>5. CASE LookAtTime
  BY <1>5 DEF LookAtTime, Remember, ErrorsAreRemembered
<1>6. CASE LookAtSize
  <2>1. count'.failed = count.failed /\ count'.seqsFailed = count.seqsFailed
    BY <1>0, <1>6 DEF LookAtSize, WalkTypeOK, Counters
  <2> QED BY <1>6, <2>1 DEF LookAtSize, Remember, ErrorsAreRemembered
<1>7. CASE SortRecords
  BY <1>7 DEF SortRecords, NoCount, ErrorsAreRemembered
<1>8. CASE CheckSize
  <2>1. CASE \E res \in Codes : CheckReturns(res)
    BY <1>1, <1>8, <2>1 DEF CheckSize
  <2>2. CASE UNCHANGED <<args, arg, overall, count>>
    BY <2>2 DEF ErrorsAreRemembered
  <2> QED BY <1>8, <2>1, <2>2, SizeVerdictType DEF CheckSize, walkVars
<1>9. CASE OpenForHash
  <2>1. CASE \E res \in Codes : CheckReturns(res)
    BY <1>1, <1>9, <2>1 DEF OpenForHash
  <2>2. CASE UNCHANGED <<args, arg, overall, count>>
    BY <2>2 DEF ErrorsAreRemembered
  <2> QED BY <1>9, <2>1, <2>2, VerifyCodes DEF OpenForHash, walkVars
<1>10. CASE CompareHash \/ ReadFails
  BY <1>1, <1>10, VerifyCodes DEF CompareHash, ReadFails
<1>11. CASE UNCHANGED <<args, arg, overall, count>>
  BY <1>11 DEF ErrorsAreRemembered
<1>12. EndCheckWalk \/ EndLooking \/ BeginRecord \/ EndRecords \/ FileChanges
         \/ UNCHANGED vars => UNCHANGED <<args, arg, overall, count>>
  BY DEF EndCheckWalk, EndLooking, BeginRecord, EndRecords, FileChanges, EditSeenByStream,
         Edit, vars, walkVars
<1> QED BY <1>2, <1>3, <1>4, <1>5, <1>6, <1>7, <1>8, <1>9, <1>10, <1>11, <1>12
        DEF Next, Program, Stopped

\* run_func_on_args and check_files_from_mhl forget no failed check: the result
\* of a pass is 0 only if its counters are.
THEOREM VerifyRemembersErrors == Spec => []ErrorsAreRemembered
<1>1. Init => TypeInv /\ ErrorsAreRemembered
  BY TypeInvInit DEF Init, WalkInit, NoCount, ErrorsAreRemembered
<1>2. TypeInv /\ ErrorsAreRemembered /\ [Next]_vars => (TypeInv /\ ErrorsAreRemembered)'
  BY TypeInvStep, RememberStep
<1> QED BY <1>1, <1>2, PTL DEF Spec

(***************************************************************************)
(* Missing files.  Without -c the first loop ends the program if a record  *)
(* before the end of the list had no file; what comes after the loop may   *)
(* rely on it.                                                             *)
(***************************************************************************)
NothingJudged == stream = {} /\ \A f \in Files : verdicts[f] = {}

NoneMissing == \A f \in Listed \ touched : Exists(f)

StopInv ==
  ~ByArgs /\ ~continue =>
    /\ pass = "look" /\ overall = "OK" =>
         \A i \in 1..(at - 1) : list[i].file \notin touched => Exists(list[i].file)
    /\ pass \in {"look", "sort"} => NothingJudged
    /\ pass \in {"sort", "check"} => NoneMissing
    /\ pass = "exited" => NoneMissing \/ NothingJudged

LEMMA StopInvStep == ASSUME TypeInv, StopInv, [Next]_vars PROVE StopInv'
<1> SUFFICES ASSUME ~ByArgs, ~continue PROVE StopInv'
  BY StepStays DEF Stays, options, StopInv, ByArgs
<1>0. Stays /\ TypeOK /\ (NoneMissing => NoneMissing')
  <2>1. Stays /\ TypeOK
    BY StepStays DEF TypeInv
  <2>2. ASSUME NoneMissing, NEW f \in Listed' \ touched' PROVE Exists(f)'
    BY <2>1, <2>2, ListedStays, ListedAreFiles, ExistsStays DEF NoneMissing, Stays
  <2> QED BY <2>1, <2>2 DEF NoneMissing
<1> USE DEF options, verifyVars
<1>1. CASE LookAtTime
  <2>1. /\ UNCHANGED <<disk, touched, stream, list, at, verdicts, pass>> /\ pass = "look"
        /\ overall' = "OK" => overall = "OK"
    BY <1>1 DEF LookAtTime, Remember, diskVars
  <2> QED BY <2>1 DEF StopInv, NothingJudged, Exists
<1>2. CASE LookAtSize
  <2>1. /\ UNCHANGED <<disk, touched, stream, list, verdicts, pass>> /\ pass = "look"
        /\ overall' = "OK" => overall = "OK" /\ Exists(list[at].file)
        /\ at' = at + 1 /\ at \in Nat
    BY <1>0, <1>2 DEF LookAtSize, Remember, diskVars, TheFile, TypeOK
  <2>2. ASSUME overall' = "OK", NEW i \in 1..at, list[i].file \notin touched
        PROVE  Exists(list[i].file)
    <3>1. i = at \/ i \in 1..(at - 1)
      BY <2>1
    <3> QED BY <2>1, <2>2, <3>1 DEF StopInv
  <2> QED BY <2>1, <2>2 DEF StopInv, NothingJudged, Exists
<1>3. CASE EndLooking
  <2>1. /\ pass = "look" /\ at > Len(list) /\ pass' \in {"sort", "exited"}
        /\ pass' = "sort" => overall = "OK"
        /\ UNCHANGED <<disk, touched, stream, list, verdicts>>
    BY <1>3 DEF EndLooking, Finish, diskVars
  <2>2. NothingJudged'
    BY <2>1 DEF StopInv, NothingJudged
  <2>3. overall = "OK" => NoneMissing
    <3> SUFFICES ASSUME overall = "OK", NEW i \in DOMAIN list, list[i].file \notin touched
                 PROVE  Exists(list[i].file)
      BY DEF NoneMissing, Listed
    <3>1. i \in 1..(at - 1)
      BY <1>0, <2>1 DEF TypeOK
    <3> QED BY <2>1, <3>1 DEF StopInv
  <2> QED BY <1>0, <2>1, <2>2, <2>3 DEF StopInv
<1>4. CASE SortRecords
  BY <1>0, <1>4 DEF SortRecords, StopInv
<1>5. CASE FileChanges
  <2>1. PICK f \in Files, c \in Contents \cup {Absent} :
          EditSeenByStream(f, c) /\ Edit(f, c)
    BY <1>5 DEF FileChanges, EditSeenByStream
  <2>2. UNCHANGED <<cur, overall, pass, list, at, verdicts>> /\ pass # "exited"
    BY <1>5, <2>1 DEF FileChanges, Edit
  <2>3. NothingJudged => NothingJudged'
    BY <2>1, <2>2 DEF EditSeenByStream, NothingJudged
  <2>4. ASSUME pass = "look", overall = "OK", NEW i \in 1..(at - 1),
               list[i].file \notin touched'
        PROVE  Exists(list[i].file)'
    <3>1. list[i] \in Record
      BY <1>0, <2>4 DEF TypeOK
    <3>2. PICK g \in Files : g = list[i].file
      BY <3>1 DEF Record
    <3>3. g \notin touched /\ Exists(g)
      BY <1>0, <2>4, <3>2 DEF Stays, StopInv
    <3>4. Exists(g)'
      BY <1>0, <2>4, <3>2, <3>3, ExistsStays
    <3> QED BY <2>2, <3>2, <3>4
  <2> QED BY <1>0, <2>2, <2>3, <2>4 DEF StopInv
<1>6. CASE pass = "check" /\ pass' \in {"check", "exited"}
  BY <1>0, <1>6 DEF StopInv
<1>7. CASE UNCHANGED vars
  BY <1>7 DEF vars, diskVars, walkVars, StopInv, NoneMissing, NothingJudged, Exists, Listed
<1>8. CASE ~LookAtTime /\ ~LookAtSize /\ ~EndLooking /\ ~SortRecords /\ ~FileChanges
           /\ ~UNCHANGED vars
  <2>1. pass = "check" /\ pass' \in {"check", "exited"}
    BY <1>8 DEF TypeInv, ListShape, Next, Program, Stopped, SizePass, EndSizePass,
       CheckWalk, EndCheckWalk, BeginRecord, EndRecords, Finish, CheckSize, OpenForHash,
       CompareHash, ReadFails, Checking, CheckReturns
  <2> QED BY <1>6, <2>1
<1> QED BY <1>1, <1>2, <1>3, <1>4, <1>5, <1>7, <1>8

\* Without -c a listed file that is missing from the start, and stays so, ends
\* the program before it reads or judges any file.
THEOREM VerifyStopsForMissingFiles == Spec => []MissingFileStopsEarly
<1>1. Init => TypeInv /\ StopInv
  BY TypeInvInit DEF Init, StreamInit, StopInv, NothingJudged
<1>2. TypeInv /\ StopInv /\ [Next]_vars => (TypeInv /\ StopInv)'
  BY TypeInvStep, StopInvStep
<1>3. TypeInv /\ StopInv => MissingFileStopsEarly
  BY DEF TypeInv, ListShape, StopInv, NoneMissing, NothingJudged, MissingFileStopsEarly
<1> QED BY <1>1, <1>2, <1>3, PTL DEF Spec

(***************************************************************************)
(* What exit status 0 is worth.  While a hash is calculated the program    *)
(* relies on what it has seen of the file before, and a callback that      *)
(* returns "OK" vouches for its file.                                      *)
(***************************************************************************)
Reading ==
  \/ /\ Checking /\ step = "hash"
     /\ ~existence /\ RecordOf(cur).sum # NoSum
     /\ cur \notin touched =>
          /\ cur \in Listed /\ Exists(cur) /\ SizeOf[disk[cur]] = RecordOf(cur).size
          /\ stream \subseteq {disk[cur]}
  \/ step # "hash" /\ stream = {}

LEMMA ReadingStep == ASSUME TypeInv, Reading, [Next]_vars PROVE Reading'
<1>0. Stays /\ TypeOK /\ WalkTypeOK
  BY StepStays DEF TypeInv, TypeOK
<1> USE DEF options, verifyVars
<1>1. CASE step' # "hash" /\ stream' = {}
  BY <1>1 DEF Reading
<1>2. CASE UNCHANGED <<stream, step>> /\ ~(Checking /\ step = "hash")
  BY <1>2 DEF Reading
<1>3. CASE CheckSize
  <2>1. CASE SizeVerdict(cur) = "OK" /\ ~existence /\ RecordOf(cur).sum # NoSum
    <3>1. /\ step' = "hash" /\ Checking /\ step = "begin"
          /\ UNCHANGED <<disk, touched, cur, stream, list, existence, pass>>
      BY <1>3, <2>1 DEF CheckSize, walkVars, diskVars
    <3>2. cur \in Listed /\ Exists(cur) /\ SizeOf[disk[cur]] = RecordOf(cur).size
      BY <2>1, SizeVerdictOK
    <3>3. stream = {}
      BY <3>1 DEF Reading
    <3> QED BY <1>0, <2>1, <3>1, <3>2, <3>3, RecordStays, ListedStays
            DEF Reading, Checking, Exists
  <2>2. CASE ~(SizeVerdict(cur) = "OK" /\ ~existence /\ RecordOf(cur).sum # NoSum)
    BY <1>1, <1>3, <2>2 DEF CheckSize, CheckReturns
  <2> QED BY <2>1, <2>2
<1>4. CASE OpenForHash
  <2>1. CASE Exists(cur)
    <3>1. /\ Checking /\ step = "hash" /\ stream' = {disk[cur]}
          /\ UNCHANGED <<disk, touched, cur, step, list, existence, pass>>
      BY <1>4, <2>1 DEF OpenForHash, OpenStream, walkVars, diskVars
    <3> QED BY <1>0, <3>1, RecordStays, ListedStays DEF Reading, Checking, Exists
  <2>2. CASE ~Exists(cur)
    BY <1>1, <1>4, <2>2 DEF OpenForHash, CheckReturns
  <2> QED BY <2>1, <2>2
<1>5. CASE CompareHash \/ ReadFails
  BY <1>1, <1>5 DEF CompareHash, ReadFails, CheckReturns
<1>6. CASE FileChanges
  <2>1. PICK f \in Files, c \in Contents \cup {Absent} :
          EditSeenByStream(f, c) /\ Edit(f, c)
    BY <1>6 DEF FileChanges, EditSeenByStream
  <2>2. /\ UNCHANGED <<cur, pass, step, list, existence>>
        /\ touched' = touched \cup {f}
    BY <1>6, <2>1 DEF FileChanges, Edit
  <2>3. CASE Checking /\ step = "hash"
    <3>1. cur \in Files
      BY <1>0, <2>3 DEF Checking, WalkTypeOK
    <3>2. ASSUME cur \notin touched'
          PROVE  disk'[cur] = disk[cur] /\ stream' = stream /\ cur \notin touched
      BY <1>0, <2>1, <2>2, <3>1, <3>2 DEF Stays, EditSeenByStream
    <3> QED BY <1>0, <2>2, <2>3, <3>2, RecordStays, ListedStays
            DEF Reading, Checking, Exists
  <2>4. CASE step # "hash" /\ stream = {}
    BY <2>1, <2>2, <2>4 DEF Reading, EditSeenByStream
  <2> QED BY <2>3, <2>4 DEF Reading
<1>7. CASE LookAtTime \/ LookAtSize
  BY <1>1, <1>7 DEF LookAtTime, LookAtSize, Reading, Checking
<1>8. CASE UNCHANGED vars
  <2>1. UNCHANGED <<disk, touched, cur, step, stream, list, existence, pass>>
    BY <1>8 DEF vars, diskVars, walkVars
  <2> QED BY <1>0, <2>1, RecordStays, ListedStays DEF Reading, Checking, Exists
<1>9. CASE ~(CheckSize \/ OpenForHash \/ CompareHash \/ ReadFails \/ FileChanges
             \/ LookAtTime \/ LookAtSize \/ UNCHANGED vars)
  <2>1. UNCHANGED <<stream, step>> /\ ~Checking
    BY <1>9 DEF Next, Program, Stopped, SizePass, EndSizePass, CheckWalk, EndCheckWalk,
       EndLooking, SortRecords, BeginRecord, EndRecords, Checking, WalkDone, Walk,
       MissingPath, IgnorePath, BeginFile, BeginFolder, VisitEntry, EndFolder, FolderFails,
       RefuseSequence, BeginSequence, ProbeNumber, ProbesDone, VisitNumber, EndSequence,
       TypeInv, ArgsShape, WalkShape
  <2> QED BY <1>2, <2>1
<1> QED BY <1>3, <1>4, <1>5, <1>6, <1>7, <1>8, <1>9

\* The steps of a check: it goes on, or it returns, and an "OK" vouches for the
\* file unless it was touched.
CheckStep == CheckSize \/ OpenForHash \/ CompareHash \/ ReadFails

StillChecking ==
  /\ Checking
  /\ UNCHANGED <<diskVars, walkVars, options, pass, list, at, verdicts, result>>

LEMMA CheckOutcome ==
  ASSUME TypeInv, Reading, CheckStep
  PROVE  \/ StillChecking
         \/ /\ Checking
            /\ \E res \in Codes :
                 /\ CheckReturns(res)
                 /\ res = "OK" /\ cur \notin touched => Intact(cur)
<1>1. CASE CheckSize
  <2> DEFINE res == SizeVerdict(cur)
  <2>1. res \in Codes /\ Checking
    BY <1>1, SizeVerdictType DEF CheckSize
  <2>2. CASE res # "OK" \/ existence \/ RecordOf(cur).sum = NoSum
    <3>1. CheckReturns(res)
      BY <1>1, <2>2 DEF CheckSize
    <3>2. res = "OK" => Intact(cur)
      BY <2>2, SizeVerdictOK DEF Intact
    <3> HIDE DEF res
    <3> QED BY <2>1, <3>1, <3>2
  <2>3. CASE ~(res # "OK" \/ existence \/ RecordOf(cur).sum = NoSum)
    BY <1>1, <2>1, <2>3 DEF CheckSize, StillChecking
  <2> QED BY <2>2, <2>3
<1>2. CASE OpenForHash
  BY <1>2, VerifyCodes DEF OpenForHash, StillChecking, verifyVars
<1>3. CASE CompareHash
  <2>1. PICK d \in DigestsOfStream :
          CheckReturns(IF d = RecordOf(cur).sum THEN "OK" ELSE "HASH_FAILED")
    BY <1>3 DEF CompareHash
  <2>2. Checking /\ step = "hash" /\ stream # {}
    BY <1>3 DEF CompareHash
  <2>3. ASSUME d = RecordOf(cur).sum, cur \notin touched PROVE Intact(cur)
    <3>1. /\ cur \in Listed /\ Exists(cur) /\ SizeOf[disk[cur]] = RecordOf(cur).size
          /\ stream \subseteq {disk[cur]}
      BY <2>2, <2>3 DEF Reading
    <3>2. stream = {disk[cur]}
      BY <2>2, <3>1
    <3>3. Cardinality(stream) = 1
      BY <3>2, FS_Singleton
    <3>4. d = disk[cur]
      BY <3>2, <3>3 DEF DigestsOfStream
    <3> QED BY <2>3, <3>1, <3>4 DEF Intact
  <2>4. CASE d = RecordOf(cur).sum
    BY <2>1, <2>2, <2>3, <2>4, VerifyCodes
  <2>5. CASE d # RecordOf(cur).sum
    BY <2>1, <2>2, <2>5, VerifyCodes
  <2> QED BY <2>4, <2>5
<1>4. CASE ReadFails
  BY <1>4, VerifyCodes DEF ReadFails
<1> QED BY <1>1, <1>2, <1>3, <1>4 DEF CheckStep

(***************************************************************************)
(* The loop invariants of the pass that checks: as long as no error has    *)
(* been remembered, the untouched files behind it are intact.              *)
(***************************************************************************)
PathIntact(p) ==
  \A f \in FilesOf(p) \ touched :
    (p.kind = "folder" => Exists(f)) => Intact(f)

PathsSoFar ==
  pass = "check" /\ overall = "OK" => \A i \in 1..(arg - 1) : PathIntact(args[i])

FolderSoFar ==
  pass = "check" /\ walk.at = "folder" =>
    \A f \in ThePath.below \ touched :
      Exists(f) => Intact(f) \/ f \in walk.must \/ f = cur

NumbersSoFar ==
  pass = "check" /\ walk.at = "number" =>
    \A j \in 1..(walk.pos - 1) :
      LET f == ThePath.files[j] IN f \notin touched => Intact(f) \/ f = cur

RecordsSoFar ==
  ~ByArgs /\ pass = "check" /\ overall = "OK" =>
    \A i \in 1..(at - 1) : list[i].file \notin touched => Intact(list[i].file)

AllIntact == \A f \in Requested \ touched : Intact(f)

IntactAfterwards == pass = "exited" /\ result = "OK" => AllIntact

WalkSoFar == PathsSoFar /\ FolderSoFar /\ NumbersSoFar

IntactInv == WalkSoFar /\ RecordsSoFar /\ IntactAfterwards

LEMMA IntactInvInit == ASSUME Init PROVE IntactInv
BY DEF Init, IntactInv, WalkSoFar, PathsSoFar, FolderSoFar, NumbersSoFar, RecordsSoFar,
       IntactAfterwards

LEMMA FilesOfPath == ASSUME NEW p \in PathSpec PROVE FilesOf(p) \subseteq Files
<1>1. p.below \subseteq Files /\ p.files \in Seq(Files)
  BY DEF PathSpec
<1> QED BY <1>1 DEF FilesOf

LEMMA PathIntactStays ==
  ASSUME Stays, NEW p \in PathSpec, PathIntact(p) PROVE PathIntact(p)'
<1>1. SUFFICES ASSUME NEW f \in FilesOf(p) \ touched', p.kind = "folder" => Exists(f)'
               PROVE  Intact(f)'
  BY DEF PathIntact
<1>2. f \in Files /\ f \in FilesOf(p) \ touched
  BY <1>1, FilesOfPath DEF Stays
<1>3. Exists(f)' = Exists(f) /\ Intact(f)' = Intact(f)
  BY <1>1, <1>2, ExistsStays, IntactStays
<1> QED BY <1>1, <1>2, <1>3 DEF PathIntact

LEMMA PathsAreSpecs ==
  ASSUME TypeOK PROVE /\ args \in Seq(PathSpec) /\ Len(args) \in Nat
                      /\ arg \in 1..(Len(args) + 1)
                      /\ \A i \in DOMAIN args : args[i] \in PathSpec
                      /\ DOMAIN args = 1..Len(args)
BY ArgWalkAssumption DEF ArgWalkAssumption, TypeOK, WalkTypeOK

LEMMA PathsStayIntact ==
  ASSUME TypeOK, Stays, NEW n \in 1..(Len(args) + 1),
         \A i \in 1..(n - 1) : PathIntact(args[i])
  PROVE  \A i \in 1..(n - 1) : PathIntact(args[i])'
<1>1. SUFFICES ASSUME NEW i \in 1..(n - 1) PROVE PathIntact(args[i])'
  OBVIOUS
<1>2. args[i] \in PathSpec /\ PathIntact(args[i]) /\ args' = args
  BY <1>1, PathsAreSpecs DEF Stays
<1> DEFINE p == args[i]
<1>3. PathIntact(p)'
  BY <1>2, PathIntactStays
<1> QED BY <1>2, <1>3

\* The walk's own steps judge nothing and forget nothing.
LEMMA WalkKeepsIntact ==
  ASSUME TypeInv, WalkSoFar, Walk, ByArgs, pass = "check", pass' = "check",
         UNCHANGED <<list, existence, disk, touched>>
  PROVE  WalkSoFar'
<1>0. /\ args' = args /\ args \in Seq(PathSpec) /\ Len(args) \in Nat
      /\ arg \in 1..(Len(args) + 1)
      /\ TypeOK /\ WalkTypeOK /\ WalkShape
  BY PathsAreSpecs
     DEF TypeInv, TypeOK, ArgsShape, Walk, MissingPath, IgnorePath, BeginFile, BeginFolder,
         VisitEntry, EndFolder, FolderFails, RefuseSequence, BeginSequence, ProbeNumber, ProbesDone,
         VisitNumber, EndSequence
<1>1. ASSUME NEW f PROVE Intact(f)' = Intact(f) /\ Exists(f)' = Exists(f)
  BY DEF Intact, Exists, Listed, RecordOf
<1>2. ASSUME NEW p PROVE PathIntact(p)' = PathIntact(p)
  BY <1>1 DEF PathIntact
<1>3. ASSUME UNCHANGED <<arg, overall>> PROVE PathsSoFar'
  BY <1>0, <1>2, <1>3 DEF WalkSoFar, PathsSoFar
\* The end of a path: it has failed, or its files are intact.
<1>4. ASSUME NEW res, NextPath(res), arg <= Len(args),
             res = "OK" => PathIntact(ThePath)
      PROVE  WalkSoFar'
  <2>1. walk'.at = "path" /\ arg' = arg + 1
    BY <1>4 DEF NextPath, Idle
  <2>2. PathsSoFar'
    <3> SUFFICES ASSUME overall' = "OK", NEW i \in 1..arg PROVE PathIntact(args[i])
      BY <1>0, <1>2, <2>1 DEF PathsSoFar
    <3>1. res = "OK" /\ overall = "OK"
      BY <1>4 DEF NextPath
    <3>2. CASE i = arg
      BY <1>4, <3>1, <3>2 DEF ThePath
    <3>3. CASE i \in 1..(arg - 1)
      BY <3>1, <3>3 DEF WalkSoFar, PathsSoFar
    <3> QED BY <1>0, <3>2, <3>3
  <2>3. FolderSoFar' /\ NumbersSoFar'
    BY <2>1 DEF FolderSoFar, NumbersSoFar
  <2> QED BY <2>2, <2>3 DEF WalkSoFar
<1> USE DEF WalkSoFar
<1>5. CASE MissingPath
  <2>1. NextPath("NO_SUCH_FILE") /\ arg <= Len(args)
    BY <1>5 DEF MissingPath
  <2> QED BY <1>4, <2>1
<1>6. CASE IgnorePath
  <2>1. NextPath("OK") /\ arg <= Len(args) /\ ThePath.kind = "other"
    BY <1>6 DEF IgnorePath
  <2>2. PathIntact(ThePath)
    <3>1. FilesOf(ThePath) = {}
      BY <1>0, <2>1, ThePathType DEF FilesOf
    <3> QED BY <3>1 DEF PathIntact
  <2> QED BY <1>4, <2>1, <2>2
<1>7. CASE BeginFile
  <2>1. UNCHANGED <<arg, overall, walk>> /\ walk.at = "path"
    BY <1>7 DEF BeginFile
  <2> QED BY <1>3, <2>1 DEF FolderSoFar, NumbersSoFar
<1>8. CASE BeginFolder
  <2>1. /\ UNCHANGED <<arg, overall>>
        /\ walk'.at = "folder" /\ walk'.must = {f \in ThePath.below : Exists(f)}
    BY <1>8 DEF BeginFolder, InFolder, Idle
  <2>2. ThePath' = ThePath
    BY <1>0, <2>1 DEF ThePath
  <2>3. FolderSoFar'
    BY <1>1, <2>1, <2>2 DEF FolderSoFar
  <2> QED BY <1>3, <2>1, <2>3 DEF NumbersSoFar
<1>9. CASE VisitEntry
  <2>1. PICK f \in walk.must \cup walk.may :
          cur' = f /\ walk' = [walk EXCEPT !.must = @ \ {f}, !.may = @ \ {f}]
    BY <1>9 DEF VisitEntry
  <2>2. /\ UNCHANGED <<arg, overall>> /\ walk.at = "folder" /\ cur = NoFile
        /\ walk'.at = "folder" /\ walk'.must = walk.must \ {f} /\ ThePath' = ThePath
    BY <1>0, <1>9, <2>1 DEF VisitEntry, WalkTypeOK, Places, ThePath
  <2>3. ThePath.below \subseteq Files
    BY <1>0, <2>2, ThePathType DEF WalkShape, PathSpec
  <2>4. FolderSoFar'
    <3> SUFFICES ASSUME NEW g \in ThePath.below \ touched, Exists(g)
                 PROVE  Intact(g) \/ g \in walk.must \ {f} \/ g = f
      BY <1>1, <2>1, <2>2 DEF FolderSoFar
    <3>1. g # cur
      BY <2>2, <2>3, ArgWalkAssumption DEF ArgWalkAssumption
    <3> QED BY <2>2, <3>1 DEF FolderSoFar
  <2> QED BY <1>3, <2>2, <2>4 DEF NumbersSoFar
<1>10. CASE EndFolder
  <2>1. /\ NextPath("OK") /\ arg <= Len(args) /\ ThePath.kind = "folder"
        /\ walk.at = "folder" /\ walk.must = {} /\ cur = NoFile
    BY <1>0, <1>10 DEF EndFolder, WalkShape
  <2>2. FilesOf(ThePath) = ThePath.below /\ ThePath.below \subseteq Files
    BY <1>0, <2>1, ThePathType DEF FilesOf, PathSpec
  <2>3. PathIntact(ThePath)
    BY <2>1, <2>2, ArgWalkAssumption DEF ArgWalkAssumption, PathIntact, FolderSoFar
  <2> QED BY <1>4, <2>1, <2>3
<1>11. CASE FolderFails
  <2>1. NextPath("IO_ERROR") /\ arg <= Len(args)
    BY <1>0, <1>11 DEF FolderFails, WalkShape
  <2> QED BY <1>4, <2>1
<1>12. CASE BeginSequence
  <2>1. UNCHANGED <<arg, overall>> /\ walk'.at = "probe"
    BY <1>12 DEF BeginSequence, Probing, Idle
  <2> QED BY <1>3, <2>1 DEF FolderSoFar, NumbersSoFar
<1>13. CASE ProbeNumber
  <2>1. UNCHANGED <<arg, overall>> /\ walk'.at = "probe"
    BY <1>0, <1>13 DEF ProbeNumber, WalkTypeOK, Places
  <2> QED BY <1>3, <2>1 DEF FolderSoFar, NumbersSoFar
<1>14. CASE ProbesDone
  <2>1. CASE NextPath("GAP_IN_SEQUENCE") /\ arg <= Len(args)
    BY <1>4, <2>1
  <2>2. CASE walk' = Numbering /\ UNCHANGED <<arg, overall>>
    <3>1. walk'.at = "number" /\ walk'.pos = 1
      BY <2>2 DEF Numbering, Idle
    <3> QED BY <1>3, <2>2, <3>1 DEF FolderSoFar, NumbersSoFar
  <2> QED BY <1>0, <1>14, <2>1, <2>2 DEF ProbesDone, WalkShape
<1>15. CASE VisitNumber
  <2>1. /\ UNCHANGED <<arg, overall>> /\ walk.at = "number" /\ cur = NoFile
        /\ cur' = ThePath.files[walk.pos] /\ walk.pos \in 1..Len(ThePath.files)
        /\ walk'.at = "number" /\ walk'.pos = walk.pos + 1 /\ ThePath' = ThePath
    BY <1>0, <1>15 DEF VisitNumber, WalkTypeOK, WalkShape, Places, ThePath
  <2>2. ThePath.files \in Seq(Files)
    BY <1>0, <2>1, ThePathType DEF WalkShape, PathSpec
  <2>3. NumbersSoFar'
    <3> SUFFICES ASSUME NEW j \in 1..walk.pos, ThePath.files[j] \notin touched
                 PROVE  \/ Intact(ThePath.files[j])
                        \/ ThePath.files[j] = ThePath.files[walk.pos]
      BY <1>1, <2>1 DEF NumbersSoFar
    <3>1. CASE j = walk.pos
      BY <3>1
    <3>2. CASE j \in 1..(walk.pos - 1)
      <4>1. ThePath.files[j] # cur
        BY <2>1, <2>2, <3>2, ArgWalkAssumption DEF ArgWalkAssumption
      <4> QED BY <2>1, <3>2, <4>1 DEF NumbersSoFar
    <3> QED BY <2>1, <3>1, <3>2
  <2> QED BY <1>3, <2>1, <2>3 DEF FolderSoFar
<1>16. CASE EndSequence
  <2>1. /\ NextPath("OK") /\ arg <= Len(args) /\ ThePath.kind = "sequence"
        /\ walk.at = "number" /\ walk.pos > Len(ThePath.files) /\ cur = NoFile
        /\ walk.pos \in Nat
    BY <1>0, <1>16 DEF EndSequence, WalkShape, WalkTypeOK, Places
  <2>2. /\ ThePath.below = {} /\ ThePath.files \in Seq(Files)
        /\ FilesOf(ThePath) = {ThePath.files[j] : j \in DOMAIN ThePath.files}
    BY <1>0, <2>1, ThePathType DEF FilesOf, PathSpec
  <2>3. ASSUME NEW f \in FilesOf(ThePath) \ touched PROVE Intact(f)
    <3>1. PICK j \in DOMAIN ThePath.files : f = ThePath.files[j]
      BY <2>2
    <3>2. j \in 1..(walk.pos - 1) /\ f \in Files
      BY <2>1, <2>2, <3>1
    <3>3. f # cur
      BY <2>1, <3>2, ArgWalkAssumption DEF ArgWalkAssumption
    <3> QED BY <2>1, <3>1, <3>2, <3>3 DEF NumbersSoFar
  <2>4. PathIntact(ThePath)
    BY <2>3 DEF PathIntact
  <2> QED BY <1>4, <2>1, <2>4
<1>17. CASE RefuseSequence
  <2>1. NextPath("INVALID_SEQUENCE") /\ arg <= Len(args)
    BY <1>17 DEF RefuseSequence
  <2> QED BY <1>4, <2>1
<1> QED BY <1>5, <1>6, <1>7, <1>8, <1>9, <1>10, <1>11, <1>12, <1>13, <1>14, <1>15,
           <1>16, <1>17 DEF Walk

\* A callback that returns "OK" vouches for its file; one that does not ends the
\* path with an error.
LEMMA CallbackKeepsIntact ==
  ASSUME TypeInv, WalkSoFar, Stays, ByArgs, pass = "check", pass' = "check", cur # NoFile,
         UNCHANGED <<disk, touched>>,
         NEW res, CallbackReturns(res), res = "OK" /\ cur \notin touched => Intact(cur)
  PROVE  WalkSoFar'
<1>0. /\ args' = args /\ args \in Seq(PathSpec) /\ Len(args) \in Nat
      /\ arg \in 1..(Len(args) + 1) /\ arg <= Len(args)
      /\ TypeOK /\ WalkTypeOK /\ WalkShape /\ cur' = NoFile
      /\ ThePath \in PathSpec /\ DOMAIN args = 1..Len(args)
  BY PathsAreSpecs, ThePathType
     DEF Stays, TypeInv, TypeOK, ArgsShape, WalkShape, CallbackReturns
<1> USE DEF WalkSoFar
<1>1. ASSUME NEW f \in Files, f \notin touched PROVE Intact(f)' = Intact(f)
  BY <1>1, IntactStays
<1>2. \A i \in 1..(arg - 1) : overall = "OK" => PathIntact(args[i])'
  BY <1>0, PathsStayIntact DEF PathsSoFar
\* The path goes on.
<1>3. CASE UNCHANGED <<arg, walk, overall>> /\ res = "OK" /\ walk.at # "path"
  <2>1. ThePath' = ThePath
    BY <1>0, <1>3 DEF ThePath
  <2>2. PathsSoFar'
    BY <1>0, <1>2, <1>3 DEF PathsSoFar
  <2>3. FolderSoFar'
    <3> SUFFICES ASSUME walk.at = "folder", NEW f \in ThePath.below \ touched, Exists(f)'
                 PROVE  Intact(f)' \/ f \in walk.must
      BY <1>3, <2>1 DEF FolderSoFar
    <3>1. f \in Files /\ Exists(f)
      BY <1>0 DEF PathSpec, Exists
    <3>2. Intact(f) \/ f \in walk.must \/ f = cur
      BY <3>1 DEF FolderSoFar
    <3> QED BY <1>1, <1>3, <3>1, <3>2
  <2>4. NumbersSoFar'
    <3> SUFFICES ASSUME walk.at = "number", NEW j \in 1..(walk.pos - 1),
                        ThePath.files[j] \notin touched
                 PROVE  Intact(ThePath.files[j])'
      BY <1>3, <2>1 DEF NumbersSoFar
    <3>1. ThePath.files[j] \in Files
      BY <1>0 DEF PathSpec, WalkShape, WalkTypeOK, Places
    <3>2. PICK f \in Files : f = ThePath.files[j] /\ f \notin touched
      BY <3>1
    <3>3. Intact(f) \/ f = cur
      BY <3>2 DEF NumbersSoFar
    <3>4. Intact(f)'
      BY <1>1, <1>3, <3>2, <3>3
    <3> QED BY <2>1, <3>2, <3>4
  <2> QED BY <2>2, <2>3, <2>4
\* The path ends.
<1>4. CASE NextPath(res) /\ (res = "OK" => walk.at = "path")
  <2>1. walk'.at = "path" /\ arg' = arg + 1
    BY <1>4 DEF NextPath, Idle
  <2>2. PathsSoFar'
    <3> SUFFICES ASSUME overall' = "OK", NEW i \in 1..arg PROVE PathIntact(args[i])'
      BY <1>0, <2>1 DEF PathsSoFar
    <3>1. res = "OK" /\ overall = "OK" /\ walk.at = "path"
      BY <1>4 DEF NextPath
    <3>2. CASE i = arg
      <4> DEFINE p == ThePath
      <4>1. /\ p \in PathSpec /\ p.kind = "file" /\ cur = p.files[1] /\ Len(p.files) = 1
            /\ p.below = {} /\ cur \in Files
        BY <1>0, <3>1, ThePathType DEF WalkShape, WalkTypeOK
      <4>2. FilesOf(p) = {cur}
        BY <4>1 DEF FilesOf, PathSpec
      <4>3. p = args[i] /\ args[i]' = args[i]
        BY <1>0, <3>2 DEF ThePath
      <4> HIDE DEF p
      <4>4. PICK g \in Files : g = cur
        BY <4>1
      <4>5. g \notin touched => Intact(g)'
        BY <1>1, <3>1, <4>4
      <4>6. PathIntact(args[i])'
        BY <4>2, <4>3, <4>4, <4>5 DEF PathIntact
      <4> QED BY <4>6
    <3>3. CASE i \in 1..(arg - 1)
      BY <1>2, <3>1, <3>3
    <3> QED BY <1>0, <3>2, <3>3
  <2>3. FolderSoFar' /\ NumbersSoFar'
    BY <2>1 DEF FolderSoFar, NumbersSoFar
  <2> QED BY <2>2, <2>3
<1> QED BY <1>3, <1>4 DEF CallbackReturns

\* Other programs' changes concern touched files only.
LEMMA FileChangesKeepIntact ==
  ASSUME TypeInv, IntactInv, Stays, FileChanges
  PROVE  IntactInv'
<1>0. /\ args' = args /\ args \in Seq(PathSpec) /\ Len(args) \in Nat
      /\ arg \in 1..(Len(args) + 1) /\ DOMAIN args = 1..Len(args)
      /\ TypeOK /\ WalkTypeOK /\ (walk.at # "path" => WalkShape)
  <2>1. ~ByArgs => walk.at = "path"
    BY DEF TypeInv, ListShape, Idle
  <2> QED BY <2>1, PathsAreSpecs DEF Stays, TypeInv, TypeOK, ArgsShape
<1>1. PICK f \in Files, c \in Contents \cup {Absent} : Edit(f, c)
  BY DEF FileChanges, EditSeenByStream
<1>2. /\ UNCHANGED <<arg, overall, cur, pass, list, at, result>> /\ pass # "exited"
      /\ touched' = touched \cup {f} /\ ThePath' = ThePath
  BY <1>0, <1>1 DEF FileChanges, Edit, ThePath, verifyVars
<1>3. \/ walk' = walk
      \/ walk' = [walk EXCEPT !.must = @ \ {f}, !.may = @ \cup {f}]
  BY <1>1 DEF Edit
<1>4. walk'.at = walk.at /\ walk'.pos = walk.pos /\ walk.must \subseteq walk'.must \cup {f}
  <2>1. CASE walk' = walk
    BY <2>1
  <2>2. CASE walk' = [walk EXCEPT !.must = @ \ {f}, !.may = @ \cup {f}]
    <3>1. walk \in Places
      BY <1>0 DEF WalkTypeOK
    <3>2. walk'.at = walk.at /\ walk'.pos = walk.pos /\ walk'.must = walk.must \ {f}
      BY <2>2, <3>1 DEF Places
    <3> QED BY <3>2
  <2> QED BY <1>3, <2>1, <2>2
<1> USE DEF WalkSoFar
<1>5. PathsSoFar'
  BY <1>0, <1>2, PathsStayIntact DEF IntactInv, PathsSoFar
<1>6. FolderSoFar'
  <2> SUFFICES ASSUME walk.at = "folder", pass = "check",
                      NEW g \in ThePath.below \ touched', Exists(g)'
               PROVE  Intact(g)' \/ g \in walk'.must \/ g = cur
    BY <1>2, <1>4 DEF FolderSoFar
  <2>1. ThePath.below \subseteq Files
    BY <1>0, ThePathType DEF WalkShape, PathSpec
  <2>2. g \in Files /\ Exists(g) /\ g \notin touched /\ g # f
    BY <1>2, <2>1, ExistsStays
  <2>3. Intact(g) \/ g \in walk.must \/ g = cur
    BY <2>2 DEF IntactInv, FolderSoFar
  <2> QED BY <1>4, <2>2, <2>3, IntactStays
<1>7. NumbersSoFar'
  <2> SUFFICES ASSUME walk.at = "number", pass = "check", NEW j \in 1..(walk.pos - 1),
                      ThePath.files[j] \notin touched'
               PROVE  LET g == ThePath.files[j] IN Intact(g)' \/ g = cur
    BY <1>2, <1>4 DEF NumbersSoFar
  <2>1. ThePath.files[j] \in Files
    BY <1>0, ThePathType DEF WalkShape, WalkTypeOK, Places, PathSpec
  <2>2. PICK g \in Files : g = ThePath.files[j]
    BY <2>1
  <2>3. g \notin touched /\ g \notin touched'
    BY <1>2, <2>2
  <2>4. Intact(g) \/ g = cur
    BY <2>2, <2>3 DEF IntactInv, NumbersSoFar
  <2>5. CASE Intact(g)
    <3>1. Intact(g)'
      BY <2>3, <2>5, IntactStays
    <3> QED BY <1>2, <2>2, <3>1
  <2> QED BY <2>2, <2>4, <2>5
<1>8. RecordsSoFar'
  <2> SUFFICES ASSUME ~ByArgs, pass = "check", overall = "OK", NEW i \in 1..(at - 1),
                      list[i].file \notin touched'
               PROVE  Intact(list[i].file)'
    BY <1>0, <1>2 DEF RecordsSoFar, ByArgs
  <2>1. list[i] \in Record
    BY <1>0 DEF TypeOK
  <2>2. PICK g \in Files : g = list[i].file
    BY <2>1 DEF Record
  <2>3. g \notin touched /\ Intact(g)
    BY <1>2, <2>2 DEF IntactInv, RecordsSoFar
  <2>4. Intact(g)'
    BY <2>2, <2>3, IntactStays
  <2> QED BY <1>2, <2>2, <2>4
<1>9. IntactAfterwards'
  BY <1>2 DEF IntactAfterwards
<1> QED BY <1>5, <1>6, <1>7, <1>8, <1>9 DEF IntactInv

\* The end of the last pass: everything the program was asked for is behind it.
LEMMA EndVouches ==
  ASSUME TypeInv, IntactInv, pass = "check", overall = "OK",
         IF ByArgs THEN WalkDone ELSE at > Len(list)
  PROVE  AllIntact
<1>0. TypeOK /\ args \in Seq(PathSpec) /\ Len(args) \in Nat /\ arg \in 1..(Len(args) + 1)
      /\ list \in Seq(Record)
  BY PathsAreSpecs DEF TypeInv, TypeOK
<1>1. CASE ByArgs
  <2> SUFFICES ASSUME NEW f \in Requested, f \notin touched PROVE Intact(f)
    BY DEF AllIntact
  <2>1. PICK i \in DOMAIN args :
          f \in FilesOf(args[i]) /\ (args[i].kind = "folder" => Exists(f))
    BY <1>1 DEF Requested
  <2>2. i \in 1..(arg - 1)
    BY <1>0, <1>1 DEF WalkDone
  <2>3. PathIntact(args[i])
    BY <2>2 DEF IntactInv, WalkSoFar, PathsSoFar
  <2> QED BY <2>1, <2>3 DEF PathIntact
<1>2. CASE ~ByArgs
  <2> SUFFICES ASSUME NEW i \in DOMAIN list, list[i].file \notin touched
               PROVE  Intact(list[i].file)
    BY <1>2 DEF AllIntact, Requested, Listed
  <2>1. i \in 1..(at - 1)
    BY <1>0, <1>2 DEF TypeOK
  <2> QED BY <1>2, <2>1 DEF IntactInv, RecordsSoFar
<1> QED BY <1>1, <1>2

\* Steps that only read.
LEMMA SameFiles ==
  ASSUME UNCHANGED <<disk, touched, list, existence>>
  PROVE  /\ \A f : Intact(f)' = Intact(f) /\ Exists(f)' = Exists(f)
         /\ \A p : PathIntact(p)' = PathIntact(p)
<1>1. ASSUME NEW f PROVE Intact(f)' = Intact(f) /\ Exists(f)' = Exists(f)
  BY DEF Intact, Exists, Listed, RecordOf
<1>2. ASSUME NEW p PROVE PathIntact(p)' = PathIntact(p)
  BY <1>1 DEF PathIntact
<1> QED BY <1>1, <1>2

LEMMA IntactInvUnchanged ==
  ASSUME IntactInv, UNCHANGED <<disk, touched, list, existence, args, arg, walk, cur,
                                overall, at, pass, result>>
  PROVE  IntactInv'
<1>1. /\ \A f : Intact(f)' = Intact(f) /\ Exists(f)' = Exists(f)
      /\ \A p : PathIntact(p)' = PathIntact(p)
  BY SameFiles
<1>2. PathsSoFar'
  BY <1>1 DEF IntactInv, WalkSoFar, PathsSoFar
<1>3. FolderSoFar'
  BY <1>1 DEF IntactInv, WalkSoFar, FolderSoFar, ThePath
<1>4. NumbersSoFar'
  BY <1>1 DEF IntactInv, WalkSoFar, NumbersSoFar, ThePath
<1>5. RecordsSoFar'
  BY <1>1 DEF IntactInv, RecordsSoFar, ByArgs
<1>6. AllIntact' = AllIntact
  BY <1>1 DEF AllIntact, Requested, Listed, FilesOf, ByArgs
<1>7. IntactAfterwards'
  BY <1>6 DEF IntactInv, IntactAfterwards
<1> QED BY <1>2, <1>3, <1>4, <1>5, <1>7 DEF IntactInv, WalkSoFar

LEMMA IntactInvStep ==
  ASSUME TypeInv, Reading, IntactInv, [Next]_vars PROVE IntactInv'
<1>0. Stays /\ TypeOK /\ WalkTypeOK
  BY StepStays DEF TypeInv, TypeOK
<1> USE DEF options, verifyVars
\* Before and after the pass that checks nothing is claimed of it.
<1>1. ASSUME pass' # "check", pass' = "exited" /\ result' = "OK" => AllIntact'
      PROVE  IntactInv'
  BY <1>1 DEF IntactInv, WalkSoFar, PathsSoFar, FolderSoFar, NumbersSoFar, RecordsSoFar,
              IntactAfterwards
<1>2. CASE pass \in {"size", "look", "sort"} /\ pass' = pass
  BY <1>1, <1>2
\* Only the walk's place, the place in the list and the error count here.
<1>3. ASSUME UNCHANGED <<disk, touched, list, existence, args>> PROVE AllIntact' = AllIntact
  BY <1>3 DEF AllIntact, Requested, Listed, FilesOf, Exists, Intact, RecordOf, ByArgs
<1>4. CASE EndSizePass \/ EndLooking
  <2>1. CASE pass' \in {"exited", "sort"}
    BY <1>1, <1>4, <2>1 DEF EndSizePass, EndLooking, Finish
  <2>2. CASE pass' = "check"
    <3>1. EndSizePass /\ RestartWalk /\ ByArgs
      BY <1>4, <2>2 DEF EndSizePass, EndLooking, Finish, TypeInv, ListShape
    <3>2. arg' = 1 /\ walk'.at = "path"
      BY <3>1 DEF RestartWalk, Idle
    <3>3. ByArgs'
      BY <1>0, <3>1 DEF ByArgs, Stays
    <3> QED BY <2>2, <3>2, <3>3 DEF IntactInv, WalkSoFar, PathsSoFar, FolderSoFar,
            NumbersSoFar, RecordsSoFar, IntactAfterwards
  <2> QED BY <1>4, <2>1, <2>2 DEF EndSizePass, EndLooking, Finish
<1>5. CASE SortRecords
  <2>1. /\ pass' = "check" /\ at' = 1 /\ pass = "sort"
        /\ UNCHANGED <<arg, walk>> /\ arg = 1 /\ walk.at = "path"
    BY <1>5 DEF SortRecords, TypeInv, ArgsShape, ListShape, Idle
  <2> QED BY <2>1 DEF IntactInv, WalkSoFar, PathsSoFar, FolderSoFar,
          NumbersSoFar, RecordsSoFar, IntactAfterwards
<1>6. CASE CheckWalk
  <2>1. /\ ByArgs /\ ByArgs' /\ Walk /\ pass = "check" /\ pass' = "check"
        /\ UNCHANGED <<list, existence, disk, touched>>
    BY <1>0, <1>6 DEF CheckWalk, ByArgs, Stays, diskVars, Walk, MissingPath, IgnorePath,
       BeginFile, BeginFolder, VisitEntry, EndFolder, FolderFails, RefuseSequence, BeginSequence,
       ProbeNumber, ProbesDone, VisitNumber, EndSequence
  <2>2. WalkSoFar'
    BY <2>1, WalkKeepsIntact DEF IntactInv
  <2> QED BY <2>1, <2>2 DEF IntactInv, RecordsSoFar, IntactAfterwards
<1>7. CASE BeginRecord
  <2>1. /\ ~ByArgs /\ pass = "check" /\ pass' = pass /\ args' = args
        /\ UNCHANGED <<disk, touched, list, existence, arg, walk, overall, at>>
        /\ arg = 1 /\ walk.at = "path"
    BY <1>7 DEF BeginRecord, TypeInv, ListShape, Idle, diskVars
  <2>2. RecordsSoFar'
    BY <2>1 DEF IntactInv, RecordsSoFar, Intact, Exists, Listed, RecordOf, ByArgs
  <2> QED BY <2>1, <2>2 DEF IntactInv, WalkSoFar, PathsSoFar, FolderSoFar,
          NumbersSoFar, IntactAfterwards
<1>8. CASE EndCheckWalk \/ EndRecords
  <2>1. /\ pass = "check" /\ pass' = "exited" /\ result' = overall
        /\ IF ByArgs THEN WalkDone ELSE at > Len(list)
        /\ UNCHANGED <<disk, touched, list, existence, args>>
    BY <1>8 DEF EndCheckWalk, EndRecords, Finish, diskVars, walkVars
  <2> QED BY <1>1, <1>3, <2>1, EndVouches
<1>9. CASE CheckStep
  <2>1. CASE StillChecking
    <3>1. UNCHANGED <<disk, touched, list, existence, args, arg, walk, cur, overall, at,
                      pass, result>>
          /\ pass = "check"
      BY <2>1 DEF StillChecking, Checking, diskVars, walkVars
    <3> QED BY <3>1, IntactInvUnchanged
  <2>2. CASE Checking /\ \E res \in Codes : CheckReturns(res)
                           /\ (res = "OK" /\ cur \notin touched => Intact(cur))
    <3>1. PICK res \in Codes :
            CheckReturns(res) /\ (res = "OK" /\ cur \notin touched => Intact(cur))
      BY <2>2
    <3>2. /\ pass = "check" /\ pass' = "check" /\ cur # NoFile /\ cur \in Files
          /\ UNCHANGED <<disk, touched, list, existence>> /\ args' = args
      BY <1>0, <2>2, <3>1 DEF Checking, CheckReturns, WalkTypeOK, diskVars, Stays
    <3>3. CASE ByArgs
      <4>1. CallbackReturns(res)
        BY <3>1, <3>3 DEF CheckReturns
      <4>2. WalkSoFar'
        BY <1>0, <3>1, <3>2, <3>3, <4>1, CallbackKeepsIntact DEF IntactInv
      <4> QED BY <3>2, <3>3, <4>2 DEF IntactInv, RecordsSoFar, IntactAfterwards, ByArgs
    <3>4. CASE ~ByArgs
      <4>1. /\ RecordReturns(res) /\ at \in DOMAIN list /\ cur = list[at].file
            /\ arg = 1 /\ walk.at = "path" /\ UNCHANGED <<arg, walk>> /\ at' = at + 1
            /\ at \in Nat
        BY <1>0, <3>1, <3>2, <3>4
           DEF CheckReturns, RecordReturns, TypeInv, TypeOK, ListShape, Idle
      <4>2. RecordsSoFar'
        <5> SUFFICES ASSUME overall' = "OK", NEW i \in 1..at, list[i].file \notin touched
                     PROVE  Intact(list[i].file)
          <6>1. \A f : Intact(f)' = Intact(f)
            BY <3>2, SameFiles
          <6> QED BY <3>2, <4>1, <6>1 DEF RecordsSoFar
        <5>1. overall = "OK" /\ res = "OK"
          BY <4>1 DEF RecordReturns, Remember
        <5>2. CASE i = at
          BY <3>1, <4>1, <5>1, <5>2
        <5>3. CASE i \in 1..(at - 1)
          BY <3>2, <3>4, <5>1, <5>3 DEF IntactInv, RecordsSoFar
        <5> QED BY <4>1, <5>2, <5>3
      <4> QED BY <3>2, <4>1, <4>2 DEF IntactInv, WalkSoFar, PathsSoFar, FolderSoFar,
              NumbersSoFar, IntactAfterwards
    <3> QED BY <3>3, <3>4
  <2> QED BY <1>9, <2>1, <2>2, CheckOutcome
<1>10. CASE FileChanges
  BY <1>0, <1>10, FileChangesKeepIntact
<1>11. CASE UNCHANGED vars
  <2>1. UNCHANGED <<disk, touched, list, existence, args, arg, walk, cur, overall, at,
                    pass, result>>
    BY <1>11 DEF vars, diskVars, walkVars
  <2> QED BY <2>1, IntactInvUnchanged
<1>12. CASE SizePass \/ LookAtTime \/ LookAtSize
  BY <1>2, <1>12 DEF SizePass, LookAtTime, LookAtSize
<1> QED BY <1>4, <1>5, <1>6, <1>7, <1>8, <1>9, <1>10, <1>11, <1>12
        DEF Next, Program, Stopped, CheckStep

\* Exit status 0 vouches for every file the program was asked to check: it is
\* listed and has the size and, without -e, the content the list says, unless
\* another program changed it meanwhile.
THEOREM ZeroVouches == Spec => []ZeroMeansIntact
<1> DEFINE IInv == TypeInv /\ Reading /\ IntactInv
<1>1. Init => IInv
  BY TypeInvInit, IntactInvInit DEF Init, StreamInit, Reading
<1>2. IInv /\ [Next]_vars => IInv'
  BY TypeInvStep, ReadingStep, IntactInvStep
<1>3. IInv => ZeroMeansIntact
  BY DEF IntactInv, IntactAfterwards, AllIntact, ZeroMeansIntact
<1> QED BY <1>1, <1>2, <1>3, PTL DEF Spec

(***************************************************************************)
(* No false alarms: if all is well with the files the program is asked     *)
(* for, no step of it finds an error.                                      *)
(***************************************************************************)
AllWell ==
  /\ touched = {}
  /\ \A f \in Requested : Intact(f) /\ f \notin BadFiles
  /\ \A i \in DOMAIN args : args[i].readable

NoAlarm ==
  /\ overall = "OK" /\ result = "OK"
  /\ walk.at = "folder" => walk.must \cup walk.may \subseteq Requested
  /\ walk.at = "probe" => ~walk.gap
  /\ cur # NoFile => cur \in Requested

NoAlarmInv == AllWell => NoAlarm

LEMMA AllWellBefore ==
  ASSUME TypeInv, [Next]_vars, AllWell'
  PROVE  AllWell /\ Requested' = Requested /\ disk' = disk /\ ~FileChanges
<1>1. Stays /\ disk \in [Files -> Contents \cup {Absent}]
      /\ disk' \in [Files -> Contents \cup {Absent}]
  BY StepStays, TypeInvStep DEF TypeInv, TypeOK, WalkTypeOK
<1>2. touched = {} /\ touched' = {} /\ args' = args /\ existence' = existence
  BY <1>1 DEF AllWell, Stays, options
<1>3. disk' = disk
  BY <1>1, <1>2 DEF Stays
<1>4. Requested' = Requested
  BY <1>1, <1>2, <1>3, ListedStays DEF Requested, Exists, ByArgs, FilesOf
<1>5. ASSUME NEW f PROVE Intact(f)' = Intact(f)
  BY <1>1, <1>2, <1>3, RecordStays, ListedStays DEF Intact, Exists
<1>6. ~FileChanges
  BY <1>2 DEF FileChanges, EditSeenByStream, Edit
<1> QED BY <1>2, <1>3, <1>4, <1>5, <1>6 DEF AllWell

\* The files of the path at hand are requested.
LEMMA PathRequested ==
  ASSUME TypeInv, ByArgs, arg <= Len(args)
  PROVE  /\ \A f \in ThePath.below : ThePath.kind = "folder" /\ Exists(f) => f \in Requested
         /\ ThePath.kind # "folder" =>
              \A i \in DOMAIN ThePath.files : ThePath.files[i] \in Requested
         /\ arg \in DOMAIN args /\ WalkTypeOK /\ WalkShape
<1>1. arg \in DOMAIN args /\ WalkTypeOK /\ WalkShape
  BY PathsAreSpecs DEF TypeInv, TypeOK, ArgsShape
<1>2. \A i \in DOMAIN ThePath.files : ThePath.files[i] \in FilesOf(ThePath)
  BY DEF FilesOf
<1>3. ThePath \in PathSpec
  BY <1>1, ThePathType
<1>4. FilesOf(ThePath) \subseteq Files /\ ThePath.below \subseteq FilesOf(ThePath)
  BY <1>3, FilesOfPath DEF FilesOf
<1> QED BY <1>1, <1>2, <1>4 DEF Requested, ThePath

LEMMA IntactExists == ASSUME NEW f, Intact(f) PROVE Exists(f) /\ f \in Listed
BY DEF Intact

LEMMA WalkNoAlarm ==
  ASSUME TypeInv, ByArgs, AllWell, NoAlarm, Walk, Requested' = Requested, result' = result
  PROVE  NoAlarm'
<1>0. args \in Seq(PathSpec) /\ Len(args) \in Nat /\ WalkTypeOK /\ WalkShape
  BY PathsAreSpecs DEF TypeInv, TypeOK, ArgsShape
<1>1. \A f \in Requested : Exists(f)
  BY IntactExists DEF AllWell
<1>2. ASSUME NextPath("OK"), cur' = NoFile PROVE NoAlarm'
  <2>1. walk'.at = "path" /\ overall' = "OK"
    BY <1>2 DEF NextPath, Idle, NoAlarm
  <2> QED BY <1>2, <2>1 DEF NoAlarm
<1>3. CASE MissingPath
  <2>1. ThePath.kind = "file" /\ ~Exists(ThePath.files[1]) /\ arg <= Len(args)
    BY <1>3 DEF MissingPath
  <2>2. 1 \in DOMAIN ThePath.files
    BY <1>0, <2>1, ThePathType DEF PathSpec
  <2> QED BY <1>1, <2>1, <2>2, PathRequested
<1>4. CASE IgnorePath \/ EndFolder \/ EndSequence
  BY <1>2, <1>4 DEF IgnorePath, EndFolder, EndSequence
<1>5. CASE BeginFile
  <2>1. ThePath.kind = "file" /\ arg <= Len(args) /\ cur' = ThePath.files[1]
        /\ UNCHANGED <<walk, overall>>
    BY <1>5 DEF BeginFile
  <2>2. 1 \in DOMAIN ThePath.files
    BY <1>0, <2>1, ThePathType DEF PathSpec
  <2>3. cur' \in Requested
    BY <2>1, <2>2, PathRequested
  <2> QED BY <2>1, <2>3 DEF NoAlarm
<1>6. CASE BeginFolder
  <2>1. /\ ThePath.kind = "folder" /\ arg <= Len(args) /\ UNCHANGED <<overall, cur>>
        /\ walk'.at = "folder" /\ walk'.must = {f \in ThePath.below : Exists(f)}
        /\ walk'.may = {}
    BY <1>6 DEF BeginFolder, InFolder, Idle
  <2>2. walk'.must \subseteq Requested
    BY <2>1, PathRequested
  <2> QED BY <2>1, <2>2 DEF NoAlarm
<1>7. CASE VisitEntry
  <2>1. PICK f \in walk.must \cup walk.may :
          cur' = f /\ walk' = [walk EXCEPT !.must = @ \ {f}, !.may = @ \ {f}]
    BY <1>7 DEF VisitEntry
  <2>2. /\ overall' = overall /\ walk.at = "folder" /\ walk'.at = "folder"
        /\ walk'.must = walk.must \ {f} /\ walk'.may = walk.may \ {f}
    BY <1>0, <1>7, <2>1 DEF VisitEntry, WalkTypeOK, Places
  <2> QED BY <2>1, <2>2 DEF NoAlarm
<1>8. CASE FolderFails
  <2>1. ThePath.kind = "folder" /\ arg <= Len(args) /\ ~ThePath.readable
    BY <1>0, <1>8 DEF FolderFails, WalkShape
  <2>2. arg \in DOMAIN args
    BY <2>1, PathRequested
  <2> QED BY <2>1, <2>2 DEF AllWell, ThePath
<1>9. CASE BeginSequence
  <2>1. walk'.at = "probe" /\ walk'.gap = FALSE /\ UNCHANGED <<overall, cur>>
    BY <1>9 DEF BeginSequence, Probing, Idle
  <2> QED BY <2>1 DEF NoAlarm
<1>10. CASE ProbeNumber
  <2>1. /\ walk.at = "probe" /\ walk.pos \in 1..Len(ThePath.files)
        /\ ThePath.kind = "sequence" /\ arg <= Len(args) /\ UNCHANGED <<overall, cur>>
    BY <1>0, <1>10 DEF ProbeNumber, WalkShape, WalkTypeOK, Places
  <2>2. walk.pos \in DOMAIN ThePath.files
    BY <1>0, <2>1, ThePathType DEF PathSpec
  <2>3. Exists(ThePath.files[walk.pos])
    BY <1>1, <2>1, <2>2, PathRequested
  <2>4. walk'.at = "probe" /\ ~walk'.gap
    BY <1>0, <1>10, <2>1, <2>3 DEF ProbeNumber, WalkTypeOK, Places, NoAlarm
  <2> QED BY <2>1, <2>4 DEF NoAlarm
<1>11. CASE ProbesDone
  <2>1. ~walk.gap /\ walk' = Numbering /\ UNCHANGED <<overall, cur>>
    BY <1>11 DEF ProbesDone, NoAlarm
  <2>2. walk'.at = "number"
    BY <2>1 DEF Numbering, Idle
  <2> QED BY <2>1, <2>2 DEF NoAlarm
<1>12. CASE VisitNumber
  <2>1. /\ walk.at = "number" /\ walk.pos \in 1..Len(ThePath.files)
        /\ ThePath.kind = "sequence" /\ arg <= Len(args) /\ overall' = overall
        /\ cur' = ThePath.files[walk.pos] /\ walk'.at = "number"
    BY <1>0, <1>12 DEF VisitNumber, WalkShape, WalkTypeOK, Places
  <2>2. walk.pos \in DOMAIN ThePath.files
    BY <1>0, <2>1, ThePathType DEF PathSpec
  <2>3. cur' \in Requested
    BY <2>1, <2>2, PathRequested
  <2> QED BY <2>1, <2>3 DEF NoAlarm
<1>13. CASE RefuseSequence
  <2>1. arg <= Len(args) /\ ~ThePath.readable
    BY <1>13 DEF RefuseSequence
  <2>2. arg \in DOMAIN args
    BY <2>1, PathRequested
  <2> QED BY <2>1, <2>2 DEF AllWell, ThePath
<1> QED BY <1>3, <1>4, <1>5, <1>6, <1>7, <1>8, <1>9, <1>10, <1>11, <1>12, <1>13 DEF Walk

\* A callback that returns "OK" raises no alarm.
LEMMA CallbackNoAlarm ==
  ASSUME NoAlarm, CallbackReturns("OK"), Requested' = Requested, result' = result
  PROVE  NoAlarm'
<1>1. cur' = NoFile
  BY DEF CallbackReturns
<1>2. CASE NextPath("OK")
  <2>1. walk'.at = "path" /\ overall' = "OK"
    BY <1>2 DEF NextPath, Idle, NoAlarm
  <2> QED BY <1>1, <2>1 DEF NoAlarm
<1>3. CASE UNCHANGED <<walk, overall>>
  BY <1>1, <1>3 DEF NoAlarm
<1> QED BY <1>2, <1>3 DEF CallbackReturns

\* All is well with the file that is checked, so the check returns "OK".
LEMMA CheckNoAlarm ==
  ASSUME TypeInv, Reading, AllWell, NoAlarm, CheckStep, Requested' = Requested
  PROVE  NoAlarm'
<1>0. Checking /\ cur \in Requested /\ Intact(cur) /\ cur \notin BadFiles
  BY DEF CheckStep, CheckSize, OpenForHash, CompareHash, ReadFails, Checking, NoAlarm,
         AllWell
<1>1. SizeVerdict(cur) = "OK" /\ Exists(cur)
  BY <1>0, SizeVerdictOK DEF Intact
<1>2. CASE UNCHANGED <<walkVars, result>>
  BY <1>2 DEF walkVars, NoAlarm
<1>3. CASE CheckReturns("OK")
  <2>1. result' = result
    BY <1>3 DEF CheckReturns
  <2>2. CASE ByArgs
    BY <1>3, <2>1, <2>2, CallbackNoAlarm DEF CheckReturns
  <2>3. CASE ~ByArgs
    <3>1. UNCHANGED <<walk, overall>> /\ cur' = NoFile
      BY <1>3, <2>3 DEF CheckReturns, RecordReturns, Remember
    <3> QED BY <2>1, <3>1 DEF NoAlarm
  <2> QED BY <2>2, <2>3
<1>4. CASE CheckSize
  BY <1>1, <1>2, <1>3, <1>4 DEF CheckSize
<1>5. CASE OpenForHash
  BY <1>1, <1>2, <1>5 DEF OpenForHash
<1>6. CASE CompareHash
  <2>1. PICK d \in DigestsOfStream :
          CheckReturns(IF d = RecordOf(cur).sum THEN "OK" ELSE "HASH_FAILED")
    BY <1>6 DEF CompareHash
  <2>2. /\ ~existence /\ RecordOf(cur).sum # NoSum /\ stream \subseteq {disk[cur]}
        /\ stream # {}
    BY <1>6 DEF CompareHash, Reading, AllWell
  <2>3. stream = {disk[cur]}
    BY <2>2
  <2>4. Cardinality(stream) = 1
    BY <2>3, FS_Singleton
  <2>5. d = disk[cur]
    BY <2>3, <2>4 DEF DigestsOfStream
  <2>6. d = RecordOf(cur).sum
    BY <1>0, <2>2, <2>5 DEF Intact
  <2> QED BY <1>3, <2>1, <2>6
<1>7. ~ReadFails
  BY <1>0 DEF ReadFails, ReadError
<1> QED BY <1>4, <1>5, <1>6, <1>7 DEF CheckStep

LEMMA NoAlarmStep ==
  ASSUME TypeInv, Reading, NoAlarmInv, [Next]_vars PROVE NoAlarmInv'
<1> SUFFICES ASSUME AllWell' PROVE NoAlarm'
  BY DEF NoAlarmInv
<1>0. AllWell /\ NoAlarm /\ Requested' = Requested /\ ~FileChanges /\ TypeOK
  BY AllWellBefore DEF NoAlarmInv, TypeInv
<1> USE DEF options, verifyVars
<1>1. \A f \in Requested : Exists(f)
  BY <1>0, IntactExists DEF AllWell
<1>2. CASE UNCHANGED <<walkVars, result>>
  BY <1>0, <1>2 DEF walkVars, NoAlarm
<1>3. CASE SizePass
  <2>1. ByArgs /\ result' = result
    BY <1>3 DEF SizePass, TypeInv, ListShape
  <2>2. CASE Walk
    BY <1>0, <2>1, <2>2, WalkNoAlarm
  <2>3. CASE SizeFile
    <3>1. CallbackReturns("OK")
      BY <1>0, <1>1, <2>3 DEF SizeFile, NoAlarm
    <3> QED BY <1>0, <2>1, <3>1, CallbackNoAlarm
  <2> QED BY <1>3, <2>2, <2>3 DEF SizePass
<1>4. CASE EndSizePass
  <2>1. RestartWalk /\ result' = result /\ cur = NoFile
    BY <1>0, <1>4 DEF EndSizePass, NoAlarm, WalkDone
  <2>2. walk'.at = "path" /\ overall' = "OK" /\ cur' = NoFile
    BY <2>1 DEF RestartWalk, Idle
  <2> QED BY <1>0, <2>1, <2>2 DEF NoAlarm
<1>5. CASE CheckWalk
  BY <1>0, <1>5, WalkNoAlarm DEF CheckWalk
<1>6. CASE EndCheckWalk \/ EndRecords \/ EndLooking
  <2>1. UNCHANGED walkVars /\ result' \in {result, overall}
    BY <1>6 DEF EndCheckWalk, EndRecords, EndLooking, Finish
  <2> QED BY <1>0, <2>1 DEF walkVars, NoAlarm
<1>7. CASE LookAtTime \/ LookAtSize
  <2>1. at \in DOMAIN list /\ ~ByArgs
    BY <1>0, <1>7, TheRecord DEF LookAtTime, LookAtSize, TypeInv, ArgsShape
  <2>2. Exists(TheFile)
    BY <1>1, <2>1 DEF Requested, Listed, TheFile
  <2>3. UNCHANGED <<walk, cur, overall, result>>
    BY <1>7, <2>2 DEF LookAtTime, LookAtSize, Remember
  <2> QED BY <1>0, <2>3 DEF NoAlarm
<1>8. CASE SortRecords
  BY <1>0, <1>8 DEF SortRecords, NoAlarm
<1>9. CASE BeginRecord
  <2>1. at \in DOMAIN list /\ ~ByArgs
    BY <1>0, <1>9, TheRecord DEF BeginRecord
  <2>2. cur' \in Requested
    BY <1>9, <2>1 DEF BeginRecord, Requested, Listed, TheFile
  <2> QED BY <1>0, <1>9, <2>2 DEF BeginRecord, NoAlarm
<1>10. CASE CheckStep
  BY <1>0, <1>10, CheckNoAlarm
<1> QED BY <1>0, <1>2, <1>3, <1>4, <1>5, <1>6, <1>7, <1>8, <1>9, <1>10
        DEF Next, Program, Stopped, CheckStep, vars

\* Intact, readable files that nobody changes are reported with exit status 0.
THEOREM VerifyRaisesNoFalseAlarm == Spec => []IntactMeansZero
<1> DEFINE IInv == TypeInv /\ Reading /\ NoAlarmInv
<1>1. Init => IInv
  BY TypeInvInit DEF Init, WalkInit, Idle, StreamInit, Reading, NoAlarmInv, NoAlarm
<1>2. IInv /\ [Next]_vars => IInv'
  BY TypeInvStep, ReadingStep, NoAlarmStep
<1>3. IInv => IntactMeansZero
  BY DEF NoAlarmInv, NoAlarm, AllWell, IntactMeansZero
<1> QED BY <1>1, <1>2, <1>3, PTL DEF Spec

(***************************************************************************)
(* Every record is checked once, and the counters say how many failed.     *)
(***************************************************************************)
Failures(n) == {i \in 1..n : verdicts[list[i].file] # {"OK"}}

Failed == Cardinality(Failures(at - 1))

Unjudged == \A f \in Files : verdicts[f] = {}

Progress ==
  /\ \A i \in 1..(at - 1) : \E r \in Codes : verdicts[list[i].file] = {r}
  /\ \A i \in at..Len(list) : verdicts[list[i].file] = {}
  /\ count.processed = at - 1
  /\ count.failed = Failed

CountInv ==
  ~ByArgs =>
    /\ pass \in {"look", "sort"} => Unjudged
    /\ pass = "check" => Progress
    /\ pass = "exited" => (Progress /\ at > Len(list)) \/ (~continue /\ Unjudged)

LEMMA NumbersUpTo ==
  ASSUME NEW n \in Nat PROVE IsFiniteSet(1..n) /\ Cardinality(1..n) = n
<1>1. 1 \in Int /\ n \in Int
  OBVIOUS
<1>2. IsFiniteSet(1..n) /\ Cardinality(1..n) = IF 1 > n THEN 0 ELSE n - 1 + 1
  BY ONLY <1>1, FS_Interval
<1> QED BY <1>2

\* One more record is judged.
LEMMA OneMoreRecord ==
  ASSUME TypeInv, ~ByArgs, Checking, Progress, NEW res \in Codes, CheckReturns(res)
  PROVE  Progress'
<1>1. /\ at \in 1..Len(list) /\ at \in Nat /\ cur = list[at].file /\ cur \in Files
      /\ Len(list) \in Nat /\ DOMAIN list = 1..Len(list)
      /\ \A i \in 1..Len(list) : list[i].file \in Files
      /\ verdicts \in [Files -> SUBSET Codes] /\ count \in Counters
  <2>1. TypeOK /\ at <= Len(list) /\ cur = list[at].file
    BY DEF TypeInv, ListShape, Checking
  <2>2. \A i \in 1..Len(list) : list[i] \in Record
    BY <2>1 DEF TypeOK
  <2>3. \A i \in 1..Len(list) : list[i].file \in Files
    BY <2>2 DEF Record
  <2>4. at \in 1..Len(list) /\ at \in Nat /\ Len(list) \in Nat /\ DOMAIN list = 1..Len(list)
    BY <2>1 DEF TypeOK
  <2> QED BY <2>1, <2>3, <2>4 DEF TypeOK, WalkTypeOK, Checking
<1>2. /\ verdicts' = [verdicts EXCEPT ![cur] = @ \cup {res}] /\ list' = list
      /\ at' = at + 1 /\ count' = Counted(res)
  BY DEF CheckReturns, RecordReturns
<1>3. verdicts[cur] = {}
  BY <1>1 DEF Progress
<1>4. verdicts'[list[at].file] = {res}
  BY <1>1, <1>2, <1>3
<1>5. ASSUME NEW i \in 1..Len(list), i # at
      PROVE  verdicts'[list[i].file] = verdicts[list[i].file]
  <2>1. list[i].file # cur
    BY <1>1, <1>5 DEF TypeInv, UniqueFiles
  <2> QED BY <1>1, <1>2, <1>5, <2>1
<1>6. \A i \in 1..at : \E r \in Codes : verdicts'[list[i].file] = {r}
  <2> TAKE i \in 1..at
  <2>1. CASE i = at
    BY <1>4, <2>1
  <2>2. CASE i \in 1..(at - 1)
    BY <1>1, <1>5, <2>2 DEF Progress
  <2> QED BY <1>1, <2>1, <2>2
<1>7. \A i \in (at + 1)..Len(list) : verdicts'[list[i].file] = {}
  BY <1>1, <1>5 DEF Progress
<1>8. count'.processed = count.processed + 1
      /\ count'.failed = IF res = "OK" THEN count.failed ELSE count.failed + 1
  BY <1>1, <1>2 DEF Counted, Counters
<1>9. Cardinality({i \in 1..at : verdicts'[list[i].file] # {"OK"}})
        = IF res = "OK" THEN Cardinality(Failures(at - 1))
                        ELSE Cardinality(Failures(at - 1)) + 1
  <2> DEFINE now == {i \in 1..at : verdicts'[list[i].file] # {"OK"}}
  <2>1. IsFiniteSet(Failures(at - 1)) /\ at \notin Failures(at - 1)
    <3>1. IsFiniteSet(1..(at - 1))
      BY <1>1, NumbersUpTo
    <3>2. Failures(at - 1) \in SUBSET (1..(at - 1))
      BY DEF Failures
    <3> QED BY <1>1, <3>1, <3>2, FS_Subset
  <2>2. ASSUME NEW i PROVE i \in now <=> i \in Failures(at - 1) \/ (i = at /\ res # "OK")
    <3>1. CASE i = at
      BY <1>1, <1>4, <3>1 DEF Failures
    <3>2. CASE i \in 1..(at - 1)
      BY <1>1, <1>5, <3>2 DEF Failures
    <3>3. CASE i \notin 1..at
      BY <1>1, <3>3 DEF Failures
    <3> QED BY <1>1, <3>1, <3>2, <3>3
  <2>3. CASE res = "OK"
    <3>1. now = Failures(at - 1)
      BY <2>2, <2>3
    <3> QED BY <2>3, <3>1
  <2>4. CASE res # "OK"
    <3>1. now = Failures(at - 1) \cup {at}
      BY <2>2, <2>4
    <3> QED BY <2>1, <2>4, <3>1, FS_AddElement
  <2> QED BY <2>3, <2>4
<1>10. at' - 1 = at
  BY <1>1, <1>2
<1>11. Failed' = Cardinality({i \in 1..at : verdicts'[list[i].file] # {"OK"}})
  BY <1>2, <1>10 DEF Failed, Failures
<1>12. count'.processed = at' - 1 /\ count'.failed = Failed'
  <2>1. count.failed = Failed /\ count.processed = at - 1 /\ at \in Nat
    BY <1>1 DEF Progress
  <2>2. Failed' = IF res = "OK" THEN Failed ELSE Failed + 1
    BY <1>9, <1>11 DEF Failed
  <2> QED BY <1>8, <1>10, <2>1, <2>2
<1>13. \A i \in 1..(at' - 1) : \E r \in Codes : verdicts'[list'[i].file] = {r}
  BY <1>2, <1>6, <1>10
<1>14. \A i \in at'..Len(list') : verdicts'[list'[i].file] = {}
  BY <1>2, <1>7
<1> QED BY <1>12, <1>13, <1>14 DEF Progress

LEMMA CountInvStep ==
  ASSUME TypeInv, Reading, CountInv, [Next]_vars PROVE CountInv'
<1> SUFFICES ASSUME ~ByArgs PROVE CountInv'
  BY StepStays DEF Stays, CountInv, ByArgs
<1>0. TypeOK /\ WalkTypeOK /\ continue' = continue
  BY StepStays DEF TypeInv, TypeOK, Stays, options
<1> USE DEF options, verifyVars
<1>1. ASSUME UNCHANGED <<list, verdicts, at, count>> PROVE Progress' = Progress
  BY <1>1 DEF Progress, Failed, Failures
<1>2. ASSUME UNCHANGED <<list, verdicts, at, count, pass>> PROVE CountInv'
  BY <1>0, <1>1, <1>2 DEF CountInv, Unjudged
<1>3. CASE LookAtTime \/ LookAtSize
  BY <1>3 DEF LookAtTime, LookAtSize, CountInv, Unjudged
<1>4. CASE EndLooking
  BY <1>0, <1>4 DEF EndLooking, Finish, CountInv, Unjudged
<1>5. CASE SortRecords
  <2>1. /\ list' \in Seq(Record) /\ Len(list') \in Nat
        /\ at' = 1 /\ count' = NoCount /\ pass' = "check" /\ verdicts' = verdicts
    <3>1. list' \in Seq(Record) /\ Len(list') = Len(list)
      BY <1>5, SortPermutes
    <3>2. Len(list) \in Nat
      BY <1>0 DEF TypeOK
    <3> QED BY <1>5, <3>1, <3>2 DEF SortRecords
  <2>2. \A i \in 1..Len(list') : list'[i] \in Record
    BY <2>1
  <2>3. Unjudged
    BY <1>5 DEF SortRecords, CountInv
  <2>4. \A i \in 1..Len(list') : verdicts'[list'[i].file] = {}
    BY <2>1, <2>2, <2>3 DEF Unjudged, Record
  <2>5. at' - 1 = 0 /\ 1..0 = {}
    BY <2>1
  <2>6. Failed' = Cardinality({})
    BY <2>5 DEF Failed, Failures
  <2>7. count'.processed = 0 /\ count'.failed = Failed'
    BY <2>1, <2>6, FS_EmptySet DEF NoCount
  <2>8. Progress'
    BY <2>1, <2>4, <2>5, <2>7 DEF Progress
  <2> QED BY <2>1, <2>8 DEF CountInv
<1>6. CASE EndRecords
  <2>1. /\ pass = "check" /\ at > Len(list) /\ pass' = "exited"
        /\ UNCHANGED <<list, verdicts, at, count>>
    BY <1>6 DEF EndRecords, Finish, walkVars
  <2> QED BY <1>1, <2>1 DEF CountInv
<1>7. CASE CheckStep
  <2>1. CASE StillChecking
    BY <1>2, <2>1 DEF StillChecking, walkVars
  <2>2. CASE Checking /\ \E res \in Codes : CheckReturns(res)
    <3>1. pass = "check" /\ pass' = "check"
      BY <2>2 DEF Checking, CheckReturns
    <3>2. Progress'
      BY <2>2, <3>1, OneMoreRecord DEF CountInv
    <3> QED BY <3>1, <3>2 DEF CountInv
  <2> QED BY <1>7, <2>1, <2>2, CheckOutcome
<1>8. CASE BeginRecord \/ FileChanges \/ UNCHANGED vars
  BY <1>2, <1>8 DEF BeginRecord, FileChanges, EditSeenByStream, Edit, vars, walkVars
<1>9. ~(SizePass \/ EndSizePass \/ CheckWalk \/ EndCheckWalk)
  BY DEF SizePass, EndSizePass, CheckWalk, EndCheckWalk, TypeInv, ListShape
<1> QED BY <1>3, <1>4, <1>5, <1>6, <1>7, <1>8, <1>9 DEF Next, Program, Stopped, CheckStep

\* A list without two records of one file has as many files as records, and as
\* many of its files have failed as records.
LEMMA RecordsAndFiles ==
  ASSUME TypeInv
  PROVE  /\ Cardinality(Listed) = Len(list)
         /\ Cardinality({f \in Listed : verdicts[f] # {"OK"}})
              = Cardinality(Failures(Len(list)))
<1>1. Len(list) \in Nat /\ DOMAIN list = 1..Len(list)
  BY DEF TypeInv, TypeOK
<1>2. IsFiniteSet(1..Len(list)) /\ Cardinality(1..Len(list)) = Len(list)
  BY <1>1, NumbersUpTo
<1>3. ASSUME NEW S \in SUBSET (1..Len(list))
      PROVE  Cardinality({list[i].file : i \in S}) = Cardinality(S)
  <2> DEFINE T == {list[i].file : i \in S}
             g == [i \in S |-> list[i].file]
  <2>1. g \in [S -> T] /\ \A t \in T : \E i \in S : g[i] = t
    OBVIOUS
  <2>2. \A i, j \in S : g[i] = g[j] => i = j
    BY <1>1, <1>3 DEF TypeInv, UniqueFiles
  <2>3. g \in Bijection(S, T)
    BY <2>1, <2>2 DEF Bijection, Injection, Surjection, IsInjective
  <2>4. ExistsBijection(S, T) /\ IsFiniteSet(S)
    BY <1>2, <1>3, <2>3, FS_Subset DEF ExistsBijection
  <2> HIDE DEF T
  <2>5. Cardinality(T) = Cardinality(S)
    BY <2>4, FS_Bijection
  <2> QED BY <2>5 DEF T
<1>4. Listed = {list[i].file : i \in 1..Len(list)}
  BY <1>1 DEF Listed
<1>5. {f \in Listed : verdicts[f] # {"OK"}} = {list[i].file : i \in Failures(Len(list))}
  BY <1>4 DEF Failures
<1>6. Failures(Len(list)) \in SUBSET (1..Len(list))
  BY DEF Failures
<1>7. Cardinality(Listed) = Len(list)
  BY <1>2, <1>3, <1>4
<1> QED BY <1>3, <1>5, <1>6, <1>7

\* With -c, or if no file was missing, every record is checked exactly once,
\* whatever the sorting did and whichever checks failed, and the counters
\* printed at the end are right.
THEOREM VerifyChecksEveryRecord == Spec => []EveryRecordIsChecked
<1> DEFINE IInv == TypeInv /\ Reading /\ CountInv
<1>1. Init => IInv
  <2>1. Init => CountInv
    BY DEF Init, CountInv, Unjudged
  <2> QED BY <2>1, TypeInvInit DEF Init, StreamInit, Reading
<1>2. IInv /\ [Next]_vars => IInv'
  BY TypeInvStep, ReadingStep, CountInvStep
<1>3. IInv => EveryRecordIsChecked
  <2> SUFFICES ASSUME IInv, pass = "exited", ~ByArgs,
                      continue \/ \E f \in Listed : verdicts[f] # {}
               PROVE  /\ \A f \in Listed : Cardinality(verdicts[f]) = 1
                      /\ count.processed = Cardinality(Listed)
                      /\ count.failed = Cardinality({f \in Listed : verdicts[f] # {"OK"}})
    BY DEF EveryRecordIsChecked
  <2>1. Progress /\ at > Len(list)
    BY ListedAreFiles DEF CountInv, Unjudged
  <2>2. at - 1 = Len(list) /\ DOMAIN list = 1..Len(list)
    BY <2>1 DEF TypeInv, TypeOK
  <2>3. ASSUME NEW f \in Listed PROVE Cardinality(verdicts[f]) = 1
    <3>1. PICK i \in DOMAIN list : f = list[i].file
      BY DEF Listed
    <3>2. PICK r \in Codes : verdicts[f] = {r}
      BY <2>1, <2>2, <3>1 DEF Progress
    <3> QED BY <3>2, FS_Singleton
  <2>4. count.processed = Len(list) /\ count.failed = Cardinality(Failures(Len(list)))
    BY <2>1, <2>2 DEF Progress, Failed
  <2> QED BY <2>3, <2>4, RecordsAndFiles
<1> QED BY <1>1, <1>2, <1>3, PTL DEF Spec
=============================================================================
