--------------------------- MODULE MhlFile_proofs ---------------------------
(***************************************************************************)
(* Theorems about 'mhl hash ... | mhl file -s', for any command line, any  *)
(* selection of types, a pipe of any size, and any number of changes by    *)
(* other programs.                                                         *)
(***************************************************************************)
EXTENDS MhlFile, ArgWalk_proofs, FiniteSetTheorems

(***************************************************************************)
(* The options and the lines.                                              *)
(***************************************************************************)
TypedLines == [sign : {Sign[t] : t \in Types}, file : Files, sum : Types \X Digests]
Printed    == {Message} \cup TypedLines

LEMMA TheTypes ==
  /\ DOMAIN PrintOrder = 1..5
  /\ Types = {"md5", "sha1", "xxhash", "xxhash64", "xxhash64be"}
<1>1. DOMAIN PrintOrder = 1..5
  BY DEF PrintOrder
<1>2. 1..5 = {1, 2, 3, 4, 5}
  OBVIOUS
<1>3. Types = {PrintOrder[1], PrintOrder[2], PrintOrder[3], PrintOrder[4], PrintOrder[5]}
  BY <1>1, <1>2 DEF Types
<1> QED BY <1>1, <1>3 DEF PrintOrder

LEMMA OrderShape ==
  ASSUME order \in Orders
  PROVE  /\ order.mode \in {"calculate", "check"}
         /\ order.mode = "calculate" => order.types \in SUBSET Types
         /\ order.mode = "check" => order.file \in Files
         /\ order.level \in Levels
<1>1. CASE \E ts \in (SUBSET Types) \ {{}}, v \in Levels : order = Calculate(ts, v)
  BY <1>1 DEF Calculate
<1>2. CASE \E f \in Files, t \in Types \cup {"none"}, p \in Types \cup {"none"},
              s \in Types \X Contents, v \in Levels : order = Check(f, t, p, s, v)
  BY <1>2 DEF Check
<1> QED BY <1>1, <1>2, HashAssumption DEF HashAssumption

\* The total is multiplied by a natural number.
LEMMA TimesReadType == ASSUME NEW ts \in SUBSET Types PROVE TimesRead(ts) \in Nat
<1> DEFINE few == {"md5", "sha1", "xxhash"}
<1>1. IsFiniteSet(few)
  <2>1. few = (({} \cup {"md5"}) \cup {"sha1"}) \cup {"xxhash"}
    OBVIOUS
  <2>2. IsFiniteSet({} \cup {"md5"})
    BY FS_EmptySet, FS_AddElement
  <2>3. IsFiniteSet(({} \cup {"md5"}) \cup {"sha1"})
    BY <2>2, FS_AddElement
  <2> QED BY <2>1, <2>3, FS_AddElement
<1>2. IsFiniteSet(few \cup {"xxhash64"})
  BY <1>1, FS_AddElement
<1>3. ts \ {"xxhash64be"} \in SUBSET (few \cup {"xxhash64"})
  BY TheTypes
<1>4. IsFiniteSet(ts \ {"xxhash64be"})
  BY <1>2, <1>3, FS_Subset
<1> QED BY <1>4, FS_CardinalityType DEF TimesRead

LEMMA ProductType == ASSUME NEW m \in Nat, NEW n \in Nat PROVE m * n \in Nat
OBVIOUS

\* There is a next type as long as not all are done.
LEMMA NextTypeIsSelected ==
  ASSUME order.types \in SUBSET Types, done \subseteq order.types, done # order.types
  PROVE  NextType \in order.types \ done
<1> DEFINE left == order.types \ done
           IsNext(i) == /\ PrintOrder[i] \in left
                        /\ \A j \in 1..(i - 1) : PrintOrder[j] \notin left
<1>1. \E i \in 1..5 : PrintOrder[i] \in left
  <2>1. PICK t \in left : t \in Types
    OBVIOUS
  <2> QED BY <2>1, TheTypes DEF Types
<1>2. \E i \in 1..5 : IsNext(i)
  <2>1. CASE PrintOrder[1] \in left
    BY <2>1
  <2>2. CASE PrintOrder[1] \notin left /\ PrintOrder[2] \in left
    BY <2>2
  <2>3. CASE PrintOrder[1] \notin left /\ PrintOrder[2] \notin left /\ PrintOrder[3] \in left
    BY <2>3
  <2>4. CASE /\ PrintOrder[1] \notin left /\ PrintOrder[2] \notin left
             /\ PrintOrder[3] \notin left /\ PrintOrder[4] \in left
    BY <2>4
  <2>5. CASE /\ PrintOrder[1] \notin left /\ PrintOrder[2] \notin left
             /\ PrintOrder[3] \notin left /\ PrintOrder[4] \notin left
    BY <1>1, <2>5
  <2> QED BY <2>1, <2>2, <2>3, <2>4, <2>5
<1>3. \E i \in DOMAIN PrintOrder : IsNext(i)
  BY <1>2, TheTypes
<1> DEFINE next == CHOOSE i \in DOMAIN PrintOrder : IsNext(i)
<1>4. IsNext(next)
  BY <1>3
<1>5. NextType = PrintOrder[next]
  BY DEF NextType
<1> QED BY <1>4, <1>5

\* A line tells of a file, a type and a digest; the empty stream has no digest.
LEMMA LineType ==
  ASSUME NEW t \in Types, NEW f \in Files, NEW d \in Digests
  PROVE  Line(t, f, d) \in TypedLines
BY DEF Line, TypedLines, Sum

LEMMA DigestType ==
  ASSUME StreamTypeOK, NEW d \in DigestsOfStream
  PROVE  /\ d \in Digests
         /\ \A c : stream = {c} => d = c
<1>1. d \in Digests
  BY DEF StreamTypeOK, DigestsOfStream, Digests
<1>2. ASSUME NEW c, stream = {c} PROVE d = c
  <2>1. Cardinality({c}) = 1
    BY FS_Singleton
  <2> QED BY <1>2, <2>1 DEF DigestsOfStream
<1> QED BY <1>1, <1>2

(***************************************************************************)
(* Type correctness.  The walk has its shape while 'mhl hash' calculates;  *)
(* an open file means that a type is left to be printed; what has been     *)
(* read from the pipe was there.                                           *)
(***************************************************************************)
Working ==
  /\ pass \in {"size", "hash"} => order.mode = "calculate" /\ WalkShape
  /\ pass = "check" => order.mode = "check"
  /\ pass = "size" => stream = {} /\ lines = <<>>
  /\ pass = "hash" /\ stream # {} => done # order.types /\ cur # NoFile

HashTypes == HashTypeOK /\ Working /\ lines \in Seq(Printed)

PipeTypes ==
  /\ sent \in Nat /\ taken \in Nat
  /\ taken <= sent /\ sent <= Len(lines)
  /\ records \in Seq([line : TypedLines, size : Nat]) /\ Len(records) <= taken
  /\ reader \in {"read", "create", "exited"}

TypeInv == HashTypes /\ PipeTypes

LEMMA HashCodes ==
  {"OK", "NO_SUCH_FILE", "IO_ERROR", "HASH_FAILED"} \subseteq Codes
BY DEF Codes

LEMMA SizeType == ASSUME NEW c \in Contents PROVE SizeOf[c] \in Nat
BY ArgWalkAssumption DEF ArgWalkAssumption

LEMMA HashTypesInit == ASSUME HashInit PROVE HashTypes
<1>1. WalkTypeOK /\ WalkShape
  BY WalkInitOK DEF HashInit, WalkOK
<1>2. order \in Orders /\ order.mode \in {"calculate", "check"} /\ stream = {}
  BY OrderShape DEF HashInit, StreamInit
<1>3. HashTypeOK
  BY <1>1, <1>2, HashCodes DEF HashInit, HashTypeOK, StreamTypeOK
<1> QED BY <1>1, <1>2, <1>3 DEF HashInit, HashTypes, Working

\* Signs of lines, from the lines.
LEMMA SignsOfLines ==
  ASSUME NEW ls \in Seq(Printed)
  PROVE  \A i \in DOMAIN ls : ls[i].sign \in {Sign[t] : t \in Types} \cup {"Started"}
<1> SUFFICES ASSUME NEW i \in DOMAIN ls
             PROVE  ls[i].sign \in {Sign[t] : t \in Types} \cup {"Started"}
  OBVIOUS
<1>1. ls[i] \in Printed
  OBVIOUS
<1>2. Message.sign = "Started"
  BY DEF Message
<1>3. CASE ls[i] \in TypedLines
  <2> HIDE DEF Sign
  <2> QED BY <1>3 DEF TypedLines
<1> QED BY <1>1, <1>2, <1>3 DEF Printed

\* Steps of 'mhl hash' only append to the lines.
Grows == Len(lines') >= Len(lines) /\ \A i \in DOMAIN lines : lines'[i] = lines[i]

LEMMA MessageType == Message \in Printed /\ Message.sign = "Started"
BY DEF Printed, Message

LEMMA ToldLines ==
  ASSUME NEW ls \in Seq(Printed), NEW v
  PROVE  ls \o Told(v) \in {ls, Append(ls, Message)}
<1>1. ls \o <<>> = ls
  OBVIOUS
<1>2. ls \o <<Message>> = Append(ls, Message)
  BY MessageType
<1> QED BY <1>1, <1>2 DEF Told

\* What a step that tells the user something, or nothing, does to the lines.
LEMMA MessageAdded ==
  ASSUME lines \in Seq(Printed), lines' \in {lines, Append(lines, Message)}
  PROVE  /\ lines' \in Seq(Printed) /\ Grows
         /\ \A i \in DOMAIN lines' : lines'[i] = Message \/ (i \in DOMAIN lines /\ lines'[i] = lines[i])
BY MessageType DEF Grows

\* And what one that prints a sum does to them.
LEMMA LineAdded ==
  ASSUME lines \in Seq(Printed), NEW l \in Printed, lines' = Append(lines, l) \o Told(VeryVerbose)
  PROVE  /\ lines' \in Seq(Printed) /\ Grows
         /\ Len(lines) + 1 \in DOMAIN lines' /\ lines'[Len(lines) + 1] = l
         /\ \A i \in DOMAIN lines' :
              \/ i \in DOMAIN lines /\ lines'[i] = lines[i]
              \/ lines'[i] = l
              \/ lines'[i] = Message
<1>1. lines' \in {Append(lines, l), Append(Append(lines, l), Message)}
  BY ToldLines
<1>2. CASE lines' = Append(lines, l)
  BY <1>2 DEF Grows
<1>3. CASE lines' = Append(Append(lines, l), Message)
  BY <1>3, MessageType DEF Grows
<1> QED BY <1>1, <1>2, <1>3

\* What is counted of a read.
LEMMA CountedType ==
  ASSUME NEW t, NEW n \in Nat PROVE BytesCounted(t, n) \in {0, n}
BY DEF BytesCounted

LEMMA WalkKeepsArgs == ASSUME Walk PROVE UNCHANGED <<diskVars, args>>
BY DEF Walk, MissingPath, IgnorePath, BeginFile, BeginFolder, VisitEntry,
       EndFolder, FolderFails, RefuseSequence, BeginSequence, ProbeNumber, ProbesDone,
       VisitNumber, EndSequence

\* The end of a callback.
LEMMA CallbackEndsType ==
  ASSUME HashTypes, HashCallback, NEW res \in Codes, CallbackEnds(res), processed' \in Nat
  PROVE  HashTypes'
<1>1. pass = "hash" /\ WalkOK /\ HashTypeOK /\ order.mode = "calculate" /\ cur # NoFile
  BY DEF HashTypes, HashTypeOK, Working, WalkOK, HashCallback
<1>2. WalkOK'
  BY <1>1, CallbackReturnsOK DEF CallbackEnds
<1>3. HashTypeOK'
  BY <1>1, <1>2 DEF CallbackEnds, HashTypeOK, StreamTypeOK, WalkOK
<1> QED BY <1>1, <1>2, <1>3 DEF CallbackEnds, HashTypes, Working, WalkOK

LEMMA WalkUnchanged ==
  ASSUME WalkOK, UNCHANGED <<diskVars, walkVars>> PROVE WalkOK'
BY DEF WalkOK, WalkTypeOK, WalkShape, ThePath, diskVars, walkVars

\* Steps that leave files, walk, options and lines alone.
LEMMA ReadingType ==
  ASSUME HashTypes, UNCHANGED <<diskVars, walkVars, order, pass, done, lines, total, status>>,
         stream' \in SUBSET Contents, processed' \in Nat, pass # "size",
         pass = "hash" /\ stream' # {} => done # order.types /\ cur # NoFile
  PROVE  HashTypes'
<1>1. WalkTypeOK' /\ (WalkShape => WalkShape')
  BY DEF HashTypes, HashTypeOK, WalkTypeOK, WalkShape, ThePath, diskVars, walkVars
<1>2. HashTypeOK'
  BY <1>1 DEF HashTypes, HashTypeOK, StreamTypeOK
<1> QED BY <1>1, <1>2 DEF HashTypes, Working, walkVars

LEMMA ProcessedType ==
  ASSUME HashTypes, NEW c \in stream, NEW n \in 0..SizeOf[c]
  PROVE  \A t : /\ processed + BytesCounted(t, n) \in Nat
               /\ processed + BytesCounted(t, SizeOf[c]) \in Nat
<1>1. SizeOf[c] \in Nat /\ processed \in Nat
  BY SizeType DEF HashTypes, HashTypeOK, StreamTypeOK
<1> QED BY <1>1 DEF BytesCounted

LEMMA StreamOfCur ==
  ASSUME HashTypes, OpenStream, cur \in Files
  PROVE  stream' \in SUBSET Contents
BY DEF HashTypes, HashTypeOK, WalkTypeOK, OpenStream, Exists

LEMMA HashTypesStep ==
  ASSUME HashTypes, HashProgram PROVE HashTypes' /\ Grows
<1>0. /\ HashTypeOK /\ WalkTypeOK /\ StreamTypeOK /\ order \in Orders /\ Len(lines) \in Nat
      /\ order.mode \in {"calculate", "check"} /\ total \in Nat /\ processed \in Nat
      /\ order.mode = "calculate" => order.types \in SUBSET Types
      /\ order.mode = "check" => order.file \in Files
      /\ lines \in Seq(Printed)
  BY OrderShape DEF HashTypes, HashTypeOK
<1>1. CASE SizePass
  <2>1. pass = "size" /\ WalkOK /\ order.mode = "calculate"
    BY <1>0, <1>1 DEF SizePass, HashTypes, Working, WalkOK
  <2>2. WalkOK'
    BY <1>1, <2>1, WalkStepOK, CallbackReturnsOK, HashCodes DEF SizePass, SizeFile
  <2>3. total' \in Nat
    <3>1. CASE UNCHANGED total
      BY <1>0, <3>1
    <3>2. CASE SizeFile /\ total' = total + IF Exists(cur) THEN SizeOf[disk[cur]] ELSE 0
      <4>1. CASE Exists(cur)
        <5>1. disk[cur] \in Contents
          BY <1>0, <3>2, <4>1 DEF SizeFile, WalkTypeOK, Exists
        <5> QED BY <1>0, <3>2, <4>1, <5>1, SizeType
      <4> QED BY <1>0, <3>2, <4>1
    <3> QED BY <1>1, <3>1, <3>2 DEF SizePass
  <2>4. HashTypeOK'
    BY <1>0, <1>1, <2>2, <2>3 DEF SizePass, HashTypeOK, StreamTypeOK, WalkOK
  <2> QED BY <1>0, <1>1, <2>1, <2>2, <2>4 DEF SizePass, HashTypes, Working, WalkOK, Grows
<1>2. CASE EndSizePass
  <2>1. pass = "size" /\ WalkOK /\ order.mode = "calculate" /\ cur = NoFile
    BY <1>0, <1>2 DEF EndSizePass, HashTypes, Working, WalkOK, WalkDone
  <2>2. WalkOK'
    BY <1>2, <2>1, RestartWalkOK, WalkUnchanged DEF EndSizePass, WalkOK
  <2>3. total' \in Nat
    BY <1>0, <1>2, <2>1, TimesReadType, ProductType DEF EndSizePass
  <2>4. lines' \in Seq(Printed) /\ Grows
    <3>1. lines' \in {lines, Append(lines, Message)}
      BY <1>0, <1>2, ToldLines DEF EndSizePass
    <3> QED BY <1>0, <3>1, MessageAdded
  <2>5. HashTypeOK'
    <3>1. \A i \in DOMAIN lines' : lines'[i].sign \in {Sign[t] : t \in Types} \cup {"Started"}
      BY <2>4, SignsOfLines
    <3>2. pass' \in {"hash", "exited"} /\ status' \in Codes \cup {"WRONG_ARGUMENTS"}
      BY <1>0, <1>2 DEF EndSizePass, Exit, HashTypeOK, WalkTypeOK
    <3> QED BY <1>0, <1>2, <2>2, <2>3, <3>1, <3>2
            DEF EndSizePass, HashTypeOK, StreamTypeOK, WalkOK
  <2>6. pass' \in {"hash", "exited"} /\ stream = {}
    BY <1>2 DEF EndSizePass, Exit, HashTypes, Working
  <2> QED BY <1>0, <1>2, <2>1, <2>2, <2>4, <2>5, <2>6 DEF EndSizePass, HashTypes, Working, WalkOK
<1>3. CASE HashWalk
  <2>1. pass = "hash" /\ WalkOK /\ order.mode = "calculate"
    BY <1>0, <1>3 DEF HashWalk, HashTypes, Working, WalkOK
  <2>2. WalkOK'
    BY <1>3, <2>1, WalkStepOK DEF HashWalk
  <2>3. HashTypeOK'
    BY <1>0, <1>3, <2>2 DEF HashWalk, HashTypeOK, StreamTypeOK, WalkOK, hashVars
  <2>4. cur = NoFile
    BY <1>3, <2>1 DEF HashWalk, Walk, MissingPath, IgnorePath, BeginFile, BeginFolder,
       VisitEntry, EndFolder, FolderFails, RefuseSequence, BeginSequence, ProbeNumber, ProbesDone,
       VisitNumber, EndSequence, WalkOK, WalkShape
  <2>5. stream = {}
    BY <2>1, <2>4 DEF HashTypes, Working
  <2>6. UNCHANGED <<order, pass, stream, done, lines, total, processed, status>>
    BY <1>3 DEF HashWalk, hashVars
  <2>7. Working'
    BY <2>1, <2>2, <2>5, <2>6 DEF Working, WalkOK
  <2> QED BY <2>3, <2>6, <2>7 DEF HashTypes, Grows
<1>4. CASE EndHashPass
  <2>1. lines' \in Seq(Printed) /\ Grows
    <3>1. lines' \in {lines, Append(lines, Message)}
      BY <1>0, <1>4, ToldLines DEF EndHashPass
    <3> QED BY <1>0, <3>1, MessageAdded
  <2>2. \A i \in DOMAIN lines' : lines'[i].sign \in {Sign[t] : t \in Types} \cup {"Started"}
    BY <2>1, SignsOfLines
  <2>3. WalkTypeOK'
    BY <1>0, <1>4 DEF EndHashPass, WalkTypeOK, diskVars, walkVars
  <2>4. HashTypeOK'
    BY <1>0, <1>4, <2>2, <2>3 DEF EndHashPass, Exit, HashTypeOK, StreamTypeOK, WalkTypeOK
  <2> QED BY <1>4, <2>1, <2>4 DEF EndHashPass, Exit, HashTypes, Working
<1>5. CASE OpenForHash
  <2>1. pass = "hash" /\ cur \in Files /\ done # order.types /\ cur # NoFile
    BY <1>0, <1>5 DEF OpenForHash, HashCallback, WalkTypeOK
  <2>2. CASE Exists(cur)
    BY <1>0, <1>5, <2>1, <2>2, StreamOfCur, ReadingType DEF OpenForHash, Grows
  <2>3. CASE ~Exists(cur)
    BY <1>0, <1>5, <2>3, CallbackEndsType, HashCodes DEF OpenForHash, CallbackEnds, Grows
  <2> QED BY <2>2, <2>3
<1>6. CASE PrintSum
  <2>1. /\ pass = "hash" /\ order.mode = "calculate" /\ cur \in Files /\ WalkOK
        /\ order.types \in SUBSET Types /\ done \subseteq order.types /\ done # order.types
    BY <1>0, <1>6 DEF PrintSum, HashCallback, HashTypes, HashTypeOK, Working, WalkOK, WalkTypeOK
  <2>2. NextType \in order.types /\ NextType \in Types
    BY <2>1, NextTypeIsSelected
  <2>3. PICK d \in DigestsOfStream :
          lines' = Append(lines, Line(NextType, cur, d)) \o Told(VeryVerbose)
    BY <1>6 DEF PrintSum
  <2>4. Line(NextType, cur, d) \in Printed
    BY <1>0, <2>1, <2>2, DigestType, LineType DEF Printed
  <2>5. lines' \in Seq(Printed) /\ Grows
    BY <1>0, <2>3, <2>4, LineAdded
  <2>6. \A i \in DOMAIN lines' : lines'[i].sign \in {Sign[t] : t \in Types} \cup {"Started"}
    BY <2>5, SignsOfLines
  <2>7. processed' \in Nat
    <3>1. PICK c \in stream : processed' = processed + BytesCounted(NextType, SizeOf[c])
      BY <1>6 DEF PrintSum
    <3>2. SizeOf[c] \in Nat
      BY <1>0, SizeType DEF StreamTypeOK
    <3> QED BY <1>0, <3>1, <3>2, CountedType
  <2>8. WalkOK'
    BY <1>6, <2>1, WalkUnchanged DEF PrintSum
  <2>9. HashTypeOK'
    BY <1>0, <1>6, <2>1, <2>2, <2>6, <2>7, <2>8
       DEF PrintSum, HashTypeOK, StreamTypeOK, WalkOK
  <2> QED BY <1>6, <2>1, <2>5, <2>8, <2>9 DEF PrintSum, HashTypes, Working, WalkOK
<1>7. CASE ReadFails
  <2>1. PICK c \in stream : \E n \in 0..SizeOf[c] :
          processed' = processed + BytesCounted(NextType, n)
    BY <1>7 DEF ReadFails
  <2>2. processed' \in Nat
    BY <2>1, ProcessedType
  <2> QED BY <1>7, <2>2, CallbackEndsType, HashCodes DEF ReadFails, CallbackEnds, Grows
<1>8. CASE AllPrinted
  BY <1>0, <1>8, CallbackEndsType, HashCodes DEF AllPrinted, CallbackEnds, Grows
<1>9. ASSUME pass = "check", pass' \in {"check", "exited"},
             status' \in Codes \cup {"WRONG_ARGUMENTS"}, cur' \in Files \cup {NoFile},
             stream' \in SUBSET Contents, total' \in Nat, processed' \in Nat,
             lines' \in {lines, Append(lines, Message)},
             UNCHANGED <<diskVars, args, arg, walk, overall, count, order, done>>
      PROVE  HashTypes' /\ Grows
  <2>0. lines' \in Seq(Printed) /\ Grows
    BY <1>0, <1>9, MessageAdded
  <2>1. WalkTypeOK'
    BY <1>0, <1>9 DEF WalkTypeOK, diskVars
  <2>2. \A i \in DOMAIN lines' : lines'[i].sign \in {Sign[t] : t \in Types} \cup {"Started"}
    BY <2>0, SignsOfLines
  <2>3. HashTypeOK'
    BY <1>0, <1>9, <2>1, <2>2 DEF HashTypeOK, StreamTypeOK
  <2>4. order.mode = "check"
    BY <1>9 DEF HashTypes, Working
  <2> QED BY <1>9, <2>0, <2>3, <2>4 DEF HashTypes, Working
<1>10. CASE BeginCheck
  <2>1. pass = "check" /\ order.file \in Files
    BY <1>0, <1>10 DEF BeginCheck, HashTypes, Working
  <2>2. CASE TypeOf(order) = "none" \/ ~Exists(order.file)
    BY <1>0, <1>9, <1>10, <2>1, <2>2, HashCodes DEF BeginCheck, Exit, WalkTypeOK, StreamTypeOK
  <2>3. CASE ~(TypeOf(order) = "none" \/ ~Exists(order.file))
    <3>1. disk[order.file] \in Contents
      BY <1>0, <2>1, <2>3 DEF WalkTypeOK, Exists
    <3>2. SizeOf[disk[order.file]] \in Nat
      BY <3>1, SizeType
    <3>3. lines' \in {lines, Append(lines, Message)}
      BY <1>0, <1>10, <2>3, ToldLines DEF BeginCheck
    <3> QED BY <1>0, <1>9, <1>10, <2>1, <2>3, <3>2, <3>3 DEF BeginCheck, HashTypeOK, StreamTypeOK
  <2> QED BY <2>2, <2>3
<1>11. CASE OpenForCheck
  <2>1. cur \in Files
    BY <1>0, <1>11 DEF OpenForCheck, WalkTypeOK
  <2>2. stream' \in SUBSET Contents
    BY <1>0, <1>11, <2>1, StreamOfCur DEF OpenForCheck, StreamTypeOK
  <2>3. lines' \in {lines, Append(lines, Message)}
    BY <1>0, <1>11, ToldLines DEF OpenForCheck, CheckEnds
  <2> QED BY <1>0, <1>9, <1>11, <2>1, <2>2, <2>3, HashCodes
          DEF OpenForCheck, CheckEnds, Exit, HashTypeOK, walkVars
<1>12. CASE CompareSum
  <2>1. \E d \in DigestsOfStream :
          CheckEnds(Verdict(TypeOf(order), d, HashVal(order, TypeOf(order))))
    BY <1>12 DEF CompareSum
  <2>2. pass' = "exited" /\ status' \in Codes /\ lines' \in {lines, Append(lines, Message)}
    BY <1>0, <2>1, HashCodes, ToldLines DEF CheckEnds, Exit, Verdict
  <2>3. processed' \in Nat
    <3>1. PICK c \in stream : processed' = processed + BytesCounted(TypeOf(order), SizeOf[c])
      BY <1>12 DEF CompareSum
    <3>2. SizeOf[c] \in Nat
      BY <1>0, SizeType DEF StreamTypeOK
    <3> QED BY <1>0, <3>1, <3>2, CountedType
  <2> QED BY <1>0, <1>9, <1>12, <2>2, <2>3 DEF CompareSum, walkVars, WalkTypeOK
<1>13. CASE CheckReadFails
  <2>1. PICK c \in stream : \E n \in 0..SizeOf[c] :
          processed' = processed + BytesCounted(TypeOf(order), n)
    BY <1>13 DEF CheckReadFails
  <2>2. processed' \in Nat
    BY <2>1, ProcessedType
  <2>3. lines' \in {lines, Append(lines, Message)}
    BY <1>0, <1>13, ToldLines DEF CheckReadFails, CheckEnds
  <2> QED BY <1>0, <1>9, <1>13, <2>2, <2>3, HashCodes
          DEF CheckReadFails, CheckEnds, Exit, walkVars, WalkTypeOK
<1> QED BY <1>1, <1>2, <1>3, <1>4, <1>5, <1>6, <1>7, <1>8, <1>10, <1>11, <1>12, <1>13
        DEF HashProgram

LEMMA HashTypesFileChanges ==
  ASSUME HashTypes, HashFileChanges PROVE HashTypes'
<1>0. HashTypeOK /\ WalkTypeOK /\ StreamTypeOK
  BY DEF HashTypes, HashTypeOK
<1>1. PICK f \in Files, c \in Contents \cup {Absent} : EditSeenByStream(f, c)
  BY DEF HashFileChanges
<1>2. Edit(f, c) /\ UNCHANGED <<args, arg, cur, overall, count, order, pass, done, lines, total,
                              processed, status>>
  BY <1>1 DEF HashFileChanges, EditSeenByStream, Edit
<1>3. WalkOK => WalkOK'
  BY <1>2, EditOK
<1>4. walk' \in Places
  <2>1. \/ walk' = walk
        \/ walk' = [walk EXCEPT !.must = @ \ {f}, !.may = @ \cup {f}]
    BY <1>2 DEF Edit
  <2>2. walk \in Places /\ walk.must \ {f} \in SUBSET Files /\ walk.may \cup {f} \in SUBSET Files
    BY <1>0 DEF WalkTypeOK, Places
  <2>3. [walk EXCEPT !.must = walk.must \ {f}, !.may = walk.may \cup {f}] \in Places
    BY <2>2 DEF Places
  <2> QED BY <2>1, <2>2, <2>3
<1>5. /\ disk' \in [Files -> Contents \cup {Absent}] /\ touched' \in SUBSET Files
      /\ edits' \in 0..MaxEdits
  BY <1>0, <1>2, ArgWalkAssumption DEF ArgWalkAssumption, Edit, WalkTypeOK
<1>6. WalkTypeOK'
  BY <1>0, <1>2, <1>4, <1>5 DEF WalkTypeOK
<1>7. stream' \in SUBSET Contents /\ (stream = {} <=> stream' = {})
  BY <1>0, <1>1 DEF EditSeenByStream, StreamTypeOK
<1>8. HashTypeOK'
  BY <1>0, <1>2, <1>6, <1>7 DEF HashTypeOK, StreamTypeOK
<1> QED BY <1>0, <1>2, <1>3, <1>7, <1>8 DEF HashTypes, Working, WalkOK

LEMMA HashTypesKilled ==
  ASSUME HashTypes, pass' = "killed",
         UNCHANGED <<diskVars, walkVars, order, stream, done, lines, total, processed, status>>
  PROVE  HashTypes'
<1>1. WalkTypeOK'
  BY DEF HashTypes, HashTypeOK, WalkTypeOK, diskVars, walkVars
<1>2. HashTypeOK'
  BY <1>1 DEF HashTypes, HashTypeOK, StreamTypeOK
<1> QED BY <1>2 DEF HashTypes, Working

\* 'mhl file' accepts typed lines only, never the messages between them.
LEMMA KnownLines ==
  ASSUME NEW l \in Printed, ReadResult(l) = "OK"
  PROVE  /\ l \in TypedLines /\ l.file \in Files /\ Exists(l.file)
<1>1. l.sign \in Known /\ Exists(l.file)
  BY DEF ReadResult
<1>2. l # Message
  BY <1>1 DEF Known, Message
<1>3. l \in TypedLines
  BY <1>2 DEF Printed
<1> QED BY <1>1, <1>3 DEF TypedLines

LEMMA TypeInvInit == ASSUME PipeInit PROVE TypeInv
<1>1. HashTypes
  BY HashTypesInit DEF PipeInit
<1>2. Len(lines) = 0
  BY DEF PipeInit, HashInit
<1> QED BY <1>1, <1>2 DEF PipeInit, TypeInv, PipeTypes

\* The line that is read next.
LEMMA LineRead ==
  ASSUME TypeInv, ReadLine
  PROVE  /\ taken + 1 \in DOMAIN lines /\ lines[taken + 1] \in Printed
         /\ taken' = taken + 1 /\ taken + 1 <= sent
         /\ \/ /\ ReadResult(lines[taken + 1]) = "OK"
               /\ \E n \in Nat :
                    /\ records' = Append(records, [line |-> lines[taken + 1], size |-> n])
                    /\ n = SizeOf[disk[lines[taken + 1].file]]
               /\ reader' = "read"
            \/ records' = records /\ reader' = "exited"
<1>1. taken + 1 \in DOMAIN lines /\ lines[taken + 1] \in Printed /\ taken + 1 <= sent
  BY DEF TypeInv, HashTypes, PipeTypes, ReadLine
<1>2. CASE ReadResult(lines[taken + 1]) = "OK"
  <2>1. lines[taken + 1].file \in Files /\ Exists(lines[taken + 1].file)
    BY <1>1, <1>2, KnownLines
  <2>2. disk[lines[taken + 1].file] \in Contents
    BY <2>1 DEF TypeInv, HashTypes, HashTypeOK, WalkTypeOK, Exists
  <2>3. SizeOf[disk[lines[taken + 1].file]] \in Nat
    BY <2>2, SizeType
  <2> QED BY <1>1, <1>2, <2>3 DEF ReadLine
<1>3. CASE ReadResult(lines[taken + 1]) # "OK"
  BY <1>1, <1>3 DEF ReadLine, End
<1> QED BY <1>2, <1>3

LEMMA TypeInvStep == ASSUME TypeInv, [Next]_vars PROVE TypeInv'
<1>0. HashTypes /\ PipeTypes /\ Len(lines) \in Nat
  BY DEF TypeInv, HashTypes
<1>1. CASE HashStep
  <2>1. HashTypes' /\ Grows
    BY <1>0, <1>1, HashTypesStep DEF HashStep
  <2>2. Len(lines') \in Nat /\ Len(lines') >= Len(lines)
    BY <2>1 DEF HashTypes, Grows
  <2>3. PipeTypes'
    BY <1>0, <1>1, <2>2 DEF HashStep, PipeTypes, pipeVars, fileVars
  <2> QED BY <2>1, <2>3 DEF TypeInv
<1>2. ASSUME UNCHANGED <<diskVars, walkVars, hashVars>> PROVE HashTypes'
  <2>1. WalkTypeOK' /\ (WalkShape => WalkShape')
    BY <1>0, <1>2 DEF HashTypes, HashTypeOK, WalkTypeOK, WalkShape, ThePath, diskVars, walkVars
  <2>2. HashTypeOK'
    BY <1>0, <1>2, <2>1 DEF HashTypes, HashTypeOK, StreamTypeOK, hashVars
  <2> QED BY <1>0, <1>2, <2>1, <2>2 DEF HashTypes, Working, hashVars, walkVars
<1>3. CASE Flush
  <2>1. PipeTypes'
    BY <1>0, <1>3 DEF Flush, PipeTypes, hashVars, fileVars
  <2> QED BY <1>2, <1>3, <2>1 DEF Flush, TypeInv
<1>4. CASE BrokenPipe \/ KillHash
  <2>1. HashTypes'
    BY <1>0, <1>4, HashTypesKilled DEF BrokenPipe, KillHash
  <2>2. PipeTypes'
    BY <1>0, <1>4 DEF BrokenPipe, KillHash, PipeTypes, pipeVars, fileVars
  <2> QED BY <2>1, <2>2 DEF TypeInv
<1>5. CASE ReadLine
  <2>1. HashTypes'
    BY <1>2, <1>5 DEF ReadLine
  <2>2. records' \in Seq([line : TypedLines, size : Nat]) /\ Len(records') <= taken'
    <3>1. CASE records' = records
      BY <1>0, <1>5, <3>1, LineRead DEF PipeTypes
    <3>2. CASE /\ ReadResult(lines[taken + 1]) = "OK"
               /\ \E n \in Nat :
                    records' = Append(records, [line |-> lines[taken + 1], size |-> n])
      <4>1. PICK n \in Nat : records' = Append(records, [line |-> lines[taken + 1], size |-> n])
        BY <3>2
      <4>2. [line |-> lines[taken + 1], size |-> n] \in [line : TypedLines, size : Nat]
        BY <1>5, <3>2, LineRead, KnownLines
      <4>3. Len(records) <= taken /\ taken \in Nat /\ taken' = taken + 1
        BY <1>0, <1>5, LineRead DEF PipeTypes
      <4> QED BY <1>0, <4>1, <4>2, <4>3 DEF PipeTypes
    <3> QED BY <1>5, <3>1, <3>2, LineRead
  <2>3. /\ taken' = taken + 1 /\ taken + 1 <= sent /\ reader' \in {"read", "exited"}
        /\ sent' = sent /\ lines' = lines
    BY <1>5, LineRead DEF ReadLine, pipeVars, hashVars
  <2>4. PipeTypes'
    BY <1>0, <2>2, <2>3 DEF PipeTypes
  <2> QED BY <2>1, <2>4 DEF TypeInv
<1>6. CASE EndInput \/ CreateList
  <2>1. HashTypes'
    BY <1>2, <1>6 DEF EndInput, CreateList
  <2>2. PipeTypes'
    BY <1>0, <1>6 DEF EndInput, CreateList, End, PipeTypes, pipeVars, hashVars
  <2> QED BY <2>1, <2>2 DEF TypeInv
<1>7. CASE FileChanges
  <2>1. HashTypes' /\ lines' = lines
    BY <1>0, <1>7, HashTypesFileChanges DEF FileChanges, HashFileChanges
  <2>2. PipeTypes'
    BY <1>0, <1>7, <2>1 DEF FileChanges, PipeTypes, pipeVars, fileVars
  <2> QED BY <2>1, <2>2 DEF TypeInv
<1>8. CASE UNCHANGED vars
  <2>1. HashTypes'
    BY <1>2, <1>8 DEF vars
  <2>2. PipeTypes'
    BY <1>0, <1>8 DEF vars, hashVars, pipeVars, fileVars, PipeTypes
  <2> QED BY <2>1, <2>2 DEF TypeInv
<1> QED BY <1>1, <1>3, <1>4, <1>5, <1>6, <1>7, <1>8 DEF Next, FileProgram, Stopped

\* The types of all variables; in particular the types that are printed for a
\* file are among those selected, and nothing is read before it was written.
THEOREM PipeTypeCorrect == Spec => []TypeOK
<1>1. TypeInv => TypeOK
  BY DEF TypeInv, HashTypes, PipeTypes, TypeOK
<1> QED BY <1>1, TypeInvInit, TypeInvStep, PTL DEF Spec

(***************************************************************************)
(* What the lines say, and what becomes of them.  A sum of a file nobody   *)
(* has touched is that of its content; as long as the list can still be    *)
(* made, there is a record for every line that was read; and once it is    *)
(* being made, nothing more is to come.                                    *)
(***************************************************************************)
TrueSums ==
  \A i \in DOMAIN lines :
    lines[i].file \in Files \ touched => lines[i].sum[2] = disk[lines[i].file]

TrueStream ==
  pass = "hash" /\ stream # {} /\ cur \notin touched => stream = {disk[cur]}

Made   == reader = "exited" /\ answer = "OK"
Making == reader = "create" \/ Made

RecordForLine ==
  reader = "read" \/ Making =>
    /\ Len(records) = taken
    /\ \A k \in 1..taken : records[k].line = lines[k]

NothingMissing == Making => EndOfInput /\ ~cut

ListMade ==
  /\ Made => list = records
  /\ list # NoList => Made

TrueSizes ==
  \A k \in DOMAIN records :
    LET f == records[k].line.file
    IN f \in Files \ touched => records[k].size = SizeOf[disk[f]]

PassSums == TrueSums /\ TrueStream
PassRecords == RecordForLine /\ NothingMissing /\ ListMade
ListInv == PassSums /\ PassRecords /\ TrueSizes

LEMMA ListInvInit == ASSUME PipeInit PROVE ListInv
<1>1. /\ DOMAIN lines = {} /\ stream = {} /\ list = NoList /\ reader = "read" /\ taken = 0
      /\ Len(records) = 0 /\ DOMAIN records = {} /\ 1..taken = {}
  BY DEF PipeInit, HashInit, StreamInit
<1>2. PassSums /\ TrueSizes
  BY <1>1 DEF PassSums, TrueSums, TrueStream, TrueSizes
<1>3. PassRecords
  BY <1>1 DEF PassRecords, RecordForLine, NothingMissing, ListMade, Making, Made
<1> QED BY <1>2, <1>3 DEF ListInv

\* Only typed lines have a file.
LEMMA LinesWithFiles ==
  ASSUME NEW l \in Printed, l.file \in Files PROVE l \in TypedLines
BY ArgWalkAssumption DEF ArgWalkAssumption, Printed, Message

LEMMA ProgramKeepsDisk == ASSUME HashProgram PROVE UNCHANGED diskVars
BY WalkKeepsArgs
   DEF HashProgram, SizePass, EndSizePass, HashWalk, OpenForHash, PrintSum, ReadFails,
       AllPrinted, EndHashPass, BeginCheck, OpenForCheck, CompareSum, CheckReadFails,
       CallbackEnds, SizeFile

\* The sum that is printed is the content, and the open file has this content
\* unless another program changes it.
LEMMA HashKeepsTruth ==
  ASSUME HashTypes, TrueSums, TrueStream, HashProgram
  PROVE  TrueSums' /\ TrueStream'
<1>0. /\ UNCHANGED diskVars /\ HashTypeOK /\ WalkTypeOK /\ StreamTypeOK /\ Working
      /\ lines \in Seq(Printed) /\ Len(lines) \in Nat /\ NoFile \notin Files
      /\ order \in Orders /\ Message.file \notin Files
  BY ProgramKeepsDisk, ArgWalkAssumption
     DEF ArgWalkAssumption, HashTypes, HashTypeOK, Message
<1>1. CASE PrintSum
  <2>1. PICK d \in DigestsOfStream :
          lines' = Append(lines, Line(NextType, cur, d)) \o Told(VeryVerbose)
    BY <1>1 DEF PrintSum
  <2>2. pass = "hash" /\ cur \in Files /\ stream # {} /\ stream' = {}
    BY <1>0, <1>1 DEF PrintSum, HashCallback, WalkTypeOK
  <2>3. cur \notin touched => d = disk[cur]
    BY <1>0, <2>2, DigestType DEF TrueStream
  <2>4. Line(NextType, cur, d).file = cur /\ Line(NextType, cur, d).sum[2] = d
    BY DEF Line, Sum
  <2>5. NextType \in Types /\ d \in Digests
    BY <1>0, <1>1, <2>2, OrderShape, NextTypeIsSelected, DigestType
       DEF PrintSum, HashTypeOK, Working
  <2>6. Line(NextType, cur, d) \in Printed
    BY <2>2, <2>5, LineType DEF Printed
  <2>7. \A i \in DOMAIN lines' :
          \/ i \in DOMAIN lines /\ lines'[i] = lines[i]
          \/ lines'[i] = Line(NextType, cur, d)
          \/ lines'[i] = Message
    BY <1>0, <2>1, <2>6, LineAdded
  <2>8. disk' = disk /\ touched' = touched
    BY <1>0 DEF diskVars
  <2>9. TrueSums'
    BY <1>0, <2>3, <2>4, <2>7, <2>8 DEF TrueSums
  <2> QED BY <2>2, <2>9 DEF TrueStream
<1>2. CASE \/ EndSizePass \/ EndHashPass
           \/ BeginCheck \/ OpenForCheck \/ CompareSum \/ CheckReadFails
  <2>1. lines' \in {lines, Append(lines, Message)}
    BY <1>0, <1>2, ToldLines DEF EndSizePass, EndHashPass, BeginCheck, OpenForCheck,
       CompareSum, CheckReadFails, CheckEnds
  <2>2. \A i \in DOMAIN lines' : lines'[i] = Message \/ (i \in DOMAIN lines /\ lines'[i] = lines[i])
    BY <1>0, <2>1, MessageAdded
  <2>3. disk' = disk /\ touched' = touched
    BY <1>0 DEF diskVars
  <2>4. TrueSums'
    BY <1>0, <2>2, <2>3 DEF TrueSums
  <2>5. pass' = "hash" => stream' = {}
    BY <1>0, <1>2 DEF EndSizePass, EndHashPass, BeginCheck, OpenForCheck, CompareSum,
       CheckReadFails, CheckEnds, Exit, Working
  <2> QED BY <2>4, <2>5 DEF TrueStream
<1>3. CASE lines' = lines /\ (pass' # "hash" \/ stream' = {} \/ OpenForHash)
  <2>1. disk' = disk /\ touched' = touched
    BY <1>0 DEF diskVars
  <2>2. TrueSums'
    BY <1>3, <2>1 DEF TrueSums
  <2>3. CASE OpenForHash
    <3>1. stream' = {} \/ (stream' = {disk[cur]} /\ cur' = cur)
      BY <2>3 DEF OpenForHash, OpenStream, CallbackEnds, walkVars
    <3>2. TrueStream'
      BY <2>1, <3>1 DEF TrueStream
    <3> QED BY <2>2, <3>2
  <2> QED BY <1>3, <2>2, <2>3 DEF TrueStream
<1>4. CASE HashWalk
  <2>1. cur = NoFile
    BY <1>0, <1>4 DEF HashWalk, Walk, MissingPath, IgnorePath, BeginFile, BeginFolder,
       VisitEntry, EndFolder, FolderFails, RefuseSequence, BeginSequence, ProbeNumber, ProbesDone,
       VisitNumber, EndSequence, Working, WalkShape
  <2> QED BY <1>0, <1>3, <1>4, <2>1 DEF HashWalk, hashVars, Working
<1>5. CASE SizePass \/ OpenForHash \/ ReadFails \/ AllPrinted
  BY <1>3, <1>5 DEF SizePass, OpenForHash, CallbackEnds, ReadFails, AllPrinted
<1> QED BY <1>1, <1>2, <1>4, <1>5 DEF HashProgram

LEMMA ChangesKeepTruth ==
  ASSUME HashTypes, TrueSums, TrueStream, HashFileChanges
  PROVE  TrueSums' /\ TrueStream'
<1>1. PICK f \in Files, c \in Contents \cup {Absent} : EditSeenByStream(f, c)
  BY DEF HashFileChanges
<1>2. /\ UNCHANGED <<pass, cur, lines>> /\ touched' = touched \cup {f}
      /\ disk' = [disk EXCEPT ![f] = c]
  BY <1>1 DEF HashFileChanges, EditSeenByStream, Edit
<1>3. \A g \in Files \ touched' : g \notin touched /\ disk'[g] = disk[g]
  BY <1>2 DEF HashTypes, HashTypeOK, WalkTypeOK
<1>4. TrueSums'
  <2> SUFFICES ASSUME NEW i \in DOMAIN lines, lines[i].file \in Files \ touched'
               PROVE  lines[i].sum[2] = disk'[lines[i].file]
    BY <1>2 DEF TrueSums
  <2> QED BY <1>3 DEF TrueSums
<1>5. TrueStream'
  <2> SUFFICES ASSUME pass = "hash", stream' # {}, cur \notin touched'
               PROVE  stream' = {disk'[cur]}
    BY <1>2 DEF TrueStream
  <2>1. cur # f /\ stream' = stream
    BY <1>1, <1>2 DEF EditSeenByStream
  <2>2. cur \in Files
    BY <2>1 DEF HashTypes, Working, HashTypeOK, WalkTypeOK
  <2> QED BY <1>3, <2>1, <2>2 DEF TrueStream
<1> QED BY <1>4, <1>5

LEMMA SumsStep == ASSUME TypeInv, PassSums, [Next]_vars PROVE PassSums'
<1>0. HashTypes /\ TrueSums /\ TrueStream
  BY DEF TypeInv, PassSums
<1>1. ASSUME UNCHANGED <<disk, touched, cur, stream, lines>>, pass' \in {pass, "killed"}
      PROVE  PassSums'
  BY <1>0, <1>1 DEF PassSums, TrueSums, TrueStream
<1>2. CASE HashStep
  BY <1>0, <1>2, HashKeepsTruth DEF HashStep, PassSums
<1>3. CASE FileChanges
  BY <1>0, <1>3, ChangesKeepTruth DEF FileChanges, PassSums
<1>4. CASE Flush \/ ReadLine \/ EndInput \/ CreateList \/ UNCHANGED vars
  BY <1>1, <1>4 DEF Flush, ReadLine, EndInput, CreateList, vars, diskVars, walkVars, hashVars
<1>5. CASE BrokenPipe \/ KillHash
  BY <1>1, <1>5 DEF BrokenPipe, KillHash, diskVars, walkVars
<1> QED BY <1>2, <1>3, <1>4, <1>5 DEF Next, FileProgram, Stopped

LEMMA RecordAt == ASSUME NEW S, NEW s \in Seq(S), NEW k \in 1..Len(s) PROVE s[k] \in S
OBVIOUS

LEMMA AppendedRecord ==
  ASSUME NEW S, NEW s \in Seq(S), NEW x, NEW s1, s1 = Append(s, x)
  PROVE  /\ DOMAIN s1 = DOMAIN s \cup {Len(s) + 1}
         /\ \A k \in DOMAIN s : s1[k] = s[k]
         /\ s1[Len(s) + 1] = x
OBVIOUS

LEMMA SizesStep == ASSUME TypeInv, TrueSizes, [Next]_vars PROVE TrueSizes'
<1>0. HashTypes /\ PipeTypes /\ WalkTypeOK
  BY DEF TypeInv, HashTypes, HashTypeOK
<1>1. ASSUME UNCHANGED <<disk, touched, records>> PROVE TrueSizes'
  BY <1>1 DEF TrueSizes
<1>2. CASE HashStep
  BY <1>1, <1>2, ProgramKeepsDisk DEF HashStep, fileVars, diskVars
<1>3. CASE Flush \/ BrokenPipe \/ KillHash \/ EndInput \/ CreateList \/ UNCHANGED vars
  BY <1>1, <1>3 DEF Flush, BrokenPipe, KillHash, EndInput, CreateList, vars, diskVars, fileVars
<1>4. CASE ReadLine
  <2>1. disk' = disk /\ touched' = touched
    BY <1>4 DEF ReadLine, diskVars
  <2>2. CASE records' = records
    BY <1>1, <2>1, <2>2
  <2>3. ASSUME NEW n \in Nat, n = SizeOf[disk[lines[taken + 1].file]],
               records' = Append(records, [line |-> lines[taken + 1], size |-> n])
        PROVE  TrueSizes'
    <3>0. records \in Seq([line : TypedLines, size : Nat])
      BY <1>0 DEF PipeTypes
    <3>1. /\ DOMAIN records' = DOMAIN records \cup {Len(records) + 1}
          /\ \A k \in DOMAIN records : records'[k] = records[k]
          /\ records'[Len(records) + 1] = [line |-> lines[taken + 1], size |-> n]
      BY ONLY <2>3, <3>0, AppendedRecord
    <3> SUFFICES ASSUME NEW k \in DOMAIN records', records'[k].line.file \in Files \ touched
                 PROVE  records'[k].size = SizeOf[disk[records'[k].line.file]]
      BY <2>1 DEF TrueSizes
    <3>2. CASE k \in DOMAIN records
      BY <3>1, <3>2 DEF TrueSizes
    <3>3. CASE k = Len(records) + 1
      BY <2>3, <3>1, <3>3
    <3> QED BY <3>1, <3>2, <3>3
  <2> QED BY <1>4, <2>2, <2>3, LineRead
<1>5. CASE FileChanges
  <2>1. PICK f \in Files, c \in Contents \cup {Absent} : Edit(f, c)
    BY <1>5 DEF FileChanges, HashFileChanges, EditSeenByStream
  <2>2. touched' = touched \cup {f} /\ disk' = [disk EXCEPT ![f] = c] /\ records' = records
    BY <1>5, <2>1 DEF FileChanges, Edit, fileVars
  <2>3. \A g \in Files \ touched' : g \notin touched /\ disk'[g] = disk[g]
    BY <1>0, <2>2 DEF WalkTypeOK
  <2> QED BY <2>2, <2>3 DEF TrueSizes
<1> QED BY <1>2, <1>3, <1>4, <1>5 DEF Next, FileProgram, Stopped

LEMMA RecordsStep == ASSUME TypeInv, PassRecords, [Next]_vars PROVE PassRecords'
<1>0. /\ HashTypes /\ PipeTypes /\ Len(lines) \in Nat
      /\ RecordForLine /\ NothingMissing /\ ListMade
  BY DEF TypeInv, HashTypes, PassRecords
<1>1. CASE HashStep
  <2>1. Grows
    BY <1>0, <1>1, HashTypesStep DEF HashStep
  <2>2. UNCHANGED <<sent, cut, taken, records, list, reader, answer>>
    BY <1>1 DEF HashStep, pipeVars, fileVars
  <2>3. pass \notin {"exited", "killed"}
    BY <1>1 DEF HashStep, HashProgram, SizePass, EndSizePass, HashWalk, OpenForHash, PrintSum,
                ReadFails, AllPrinted, EndHashPass, BeginCheck, OpenForCheck, CompareSum,
                CheckReadFails, HashCallback
  <2>4. ~Making
    BY <1>0, <2>3 DEF NothingMissing, EndOfInput
  <2>5. 1..taken \subseteq DOMAIN lines
    BY <1>0 DEF PipeTypes, HashTypes
  <2> QED BY <1>0, <2>1, <2>2, <2>4, <2>5
          DEF PassRecords, RecordForLine, NothingMissing, ListMade, Making, Made, Grows
<1>2. CASE Flush
  <2>1. UNCHANGED <<pass, lines, cut, taken, records, list, reader, answer>> /\ pass # "killed"
        /\ sent # Len(lines)
    BY <1>0, <1>2 DEF Flush, hashVars, fileVars, PipeTypes
  <2>2. ~Making
    BY <1>0, <2>1 DEF NothingMissing, EndOfInput
  <2> QED BY <1>0, <2>1, <2>2
          DEF PassRecords, RecordForLine, NothingMissing, ListMade, Making, Made
<1>3. CASE BrokenPipe \/ KillHash
  <2>1. UNCHANGED <<lines, sent, taken, records, list, reader, answer>> /\ pass # "killed"
        /\ (pass = "exited" => sent # Len(lines))
    BY <1>0, <1>3 DEF BrokenPipe, KillHash, pipeVars, fileVars, PipeTypes
  <2>2. ~Making
    BY <1>0, <2>1 DEF NothingMissing, EndOfInput
  <2> QED BY <1>0, <2>1, <2>2
          DEF PassRecords, RecordForLine, NothingMissing, ListMade, Making, Made
<1>4. CASE ReadLine
  <2>1. list' = list /\ reader = "read" /\ lines' = lines
    BY <1>4 DEF ReadLine, hashVars
  <2>2. /\ list = NoList /\ reader' # "create" /\ taken' = taken + 1
        /\ ~Made /\ ~Made'
    BY <1>0, <1>4, <2>1, LineRead DEF ListMade, ReadLine, End, Made
  <2>3. RecordForLine'
    <3>1. CASE reader' = "exited"
      BY <2>1, <2>2, <3>1 DEF RecordForLine, Making
    <3>2. CASE reader' = "read"
      <4>1. PICK n \in Nat : records' = Append(records, [line |-> lines[taken + 1], size |-> n])
        BY <1>4, <3>2, LineRead
      <4>2. Len(records) = taken /\ taken \in Nat /\ \A k \in 1..taken : records[k].line = lines[k]
        BY <1>0, <2>1 DEF RecordForLine, PipeTypes
      <4>3. /\ Len(records') = taken + 1 /\ records'[taken + 1].line = lines[taken + 1]
            /\ \A k \in 1..taken : records'[k] = records[k]
        BY <1>0, <4>1, <4>2 DEF PipeTypes
      <4>4. \A k \in 1..(taken + 1) : records'[k].line = lines[k]
        <5> SUFFICES ASSUME NEW k \in 1..(taken + 1) PROVE records'[k].line = lines[k]
          OBVIOUS
        <5>1. k \in 1..taken \/ k = taken + 1
          BY <4>2
        <5> QED BY <4>2, <4>3, <5>1
      <4> QED BY <2>1, <2>2, <4>3, <4>4 DEF RecordForLine
    <3> QED BY <1>4, <3>1, <3>2, LineRead
  <2> QED BY <2>1, <2>2, <2>3 DEF PassRecords, NothingMissing, ListMade, Making
<1>5. CASE EndInput
  <2>1. /\ UNCHANGED <<pass, lines, sent, cut, taken, records, list>> /\ EndOfInput
        /\ reader = "read" /\ (reader' = "create" => ~cut)
        /\ (reader' = "create" \/ answer' # "OK")
    BY <1>5 DEF EndInput, End, hashVars, pipeVars
  <2>2. list = NoList /\ ~Made'
    BY <1>0, <2>1 DEF ListMade, Made
  <2>3. EndOfInput' = EndOfInput
    BY <2>1 DEF EndOfInput
  <2> QED BY <1>0, <2>1, <2>2, <2>3
          DEF PassRecords, RecordForLine, NothingMissing, ListMade, Making
<1>6. CASE CreateList
  <2>1. /\ UNCHANGED <<pass, lines, sent, cut, taken, records>>
        /\ reader = "create" /\ reader' = "exited"
        /\ \/ list' = records /\ answer' = "OK"
           \/ list' = list /\ answer' = "IO_ERROR"
    BY <1>6 DEF CreateList, End, hashVars, pipeVars
  <2>2. list = NoList /\ Making /\ ~Made
    BY <1>0, <2>1 DEF ListMade, Making, Made
  <2>3. EndOfInput' = EndOfInput
    BY <2>1 DEF EndOfInput
  <2> QED BY <1>0, <2>1, <2>2, <2>3
          DEF PassRecords, RecordForLine, NothingMissing, ListMade, Making, Made
<1>7. CASE FileChanges \/ UNCHANGED vars
  <2>1. UNCHANGED <<pass, lines, sent, cut, taken, records, list, reader, answer>>
    BY <1>7 DEF FileChanges, HashFileChanges, vars, hashVars, pipeVars, fileVars
  <2> QED BY <1>0, <2>1
          DEF PassRecords, RecordForLine, NothingMissing, ListMade, Making, Made, EndOfInput
<1> QED BY <1>1, <1>2, <1>3, <1>4, <1>5, <1>6, <1>7 DEF Next, FileProgram, Stopped

LEMMA ListInvStep == ASSUME TypeInv, ListInv, [Next]_vars PROVE ListInv'
BY SumsStep, SizesStep, RecordsStep DEF ListInv

LEMMA ListInvAlways == Spec => [](TypeInv /\ ListInv)
BY TypeInvInit, TypeInvStep, ListInvInit, ListInvStep, PTL DEF Spec

LEMMA ListInvSuffices == ASSUME TypeInv, ListInv PROVE ListIsWhatWasPrinted
<1> SUFFICES ASSUME list # NoList
             PROVE  /\ [k \in DOMAIN list |-> list[k].line] = SubSeq(lines, 1, sent)
                    /\ pass # "killed" => sent = Len(lines)
                    /\ ~cut
                    /\ \A k \in DOMAIN list :
                         list[k].line.file \notin touched =>
                           list[k].line.sum[2] = disk[list[k].line.file]
  BY DEF ListIsWhatWasPrinted
<1>1. /\ list = records /\ Len(records) = taken /\ taken = sent /\ ~cut
      /\ \A k \in 1..taken : records[k].line = lines[k]
      /\ pass # "killed" => sent = Len(lines)
  BY DEF ListInv, PassRecords, ListMade, Making, Made, RecordForLine, NothingMissing, EndOfInput
<1>2. /\ records \in Seq([line : TypedLines, size : Nat]) /\ lines \in Seq(Printed)
      /\ sent \in Nat /\ sent <= Len(lines) /\ Len(lines) \in Nat
  BY DEF TypeInv, HashTypes, PipeTypes
<1>3. DOMAIN list = 1..sent /\ 1..sent \subseteq DOMAIN lines
  BY <1>1, <1>2
<1>4. SubSeq(lines, 1, sent) = [k \in 1..sent |-> lines[k]]
  BY <1>2
<1>5. [k \in DOMAIN list |-> list[k].line] = SubSeq(lines, 1, sent)
  BY <1>1, <1>3, <1>4
<1>6. ASSUME NEW k \in DOMAIN list, list[k].line.file \notin touched
      PROVE  list[k].line.sum[2] = disk[list[k].line.file]
  <2>1. list[k].line \in TypedLines /\ list[k].line = lines[k] /\ k \in DOMAIN lines
    <3>1. k \in 1..taken /\ k \in DOMAIN records
      BY <1>1, <1>3
    <3>2. records[k] \in [line : TypedLines, size : Nat]
      <4> DEFINE Record == [line : TypedLines, size : Nat]
      <4>1. records \in Seq(Record)
        BY <1>2
      <4> HIDE DEF Record
      <4>2. records[k] \in Record
        BY <3>1, <4>1
      <4> QED BY <4>2 DEF Record
    <3> QED BY <1>1, <1>3, <3>1, <3>2
  <2>2. list[k].line.file \in Files
    BY <2>1 DEF TypedLines
  <2> QED BY <1>6, <2>1, <2>2 DEF ListInv, PassSums, TrueSums
<1> QED BY <1>1, <1>5, <1>6

\* Whatever the two programs, the pipe and a kill do in between, a list that
\* is made holds exactly the lines that were printed, in order, and no sum
\* that was never that of an untouched file.
THEOREM PipeListsWhatWasPrinted == Spec => []ListIsWhatWasPrinted
BY ListInvAlways, ListInvSuffices, PTL

(***************************************************************************)
(* 'mhl hash -h'.  The type and the prefix of a sum given in a documented  *)
(* way can be told from the length of the text.                            *)
(***************************************************************************)
CheckOrder(o) ==
  /\ o.mode = "check" /\ o.file \in Files
  /\ o.typed \in Types \cup {"none"} /\ o.prefix \in Types \cup {"none"}
  /\ o.sum \in Types \X Contents

LEMMA OrderToCheck ==
  ASSUME order \in Orders, order.mode = "check" PROVE CheckOrder(order)
<1>1. CASE \E ts \in (SUBSET Types) \ {{}}, v \in Levels : order = Calculate(ts, v)
  BY <1>1 DEF Calculate
<1>2. CASE \E f \in Files, t \in Types \cup {"none"}, p \in Types \cup {"none"},
              s \in Types \X Contents, v \in Levels : order = Check(f, t, p, s, v)
  BY <1>2 DEF Check, CheckOrder
<1> QED BY <1>1, <1>2, HashAssumption DEF HashAssumption

LEMMA Lengths ==
  /\ SumLength["md5"] = 32 /\ WithPrefix("md5") = 36
  /\ SumLength["sha1"] = 40 /\ WithPrefix("sha1") = 45
  /\ SumLength["xxhash"] = 10 /\ WithPrefix("xxhash") = 17
  /\ SumLength["xxhash64"] = 16 /\ WithPrefix("xxhash64") = 25
  /\ SumLength["xxhash64be"] = 16 /\ WithPrefix("xxhash64be") = 27
  /\ PrefixLength["md5"] = 4 /\ PrefixLength["sha1"] = 5 /\ PrefixLength["xxhash"] = 7
  /\ PrefixLength["xxhash64"] = 9 /\ PrefixLength["xxhash64be"] = 11
BY DEF SumLength, PrefixLength, WithPrefix

\* The first type of the four whose lengths fit.
LEMMA FirstFit ==
  ASSUME NEW o, NEW i \in 1..4, Fits(o, PrintOrder[i]),
         \A j \in 1..4 : j # i => ~Fits(o, PrintOrder[j])
  PROVE  FirstTypeThatFits(o) = PrintOrder[i]
<1> DEFINE fits == {k \in 1..4 : Fits(o, PrintOrder[k])}
<1>1. fits = {i}
  OBVIOUS
<1>2. (CHOOSE k \in fits : \A j \in fits : k <= j) = i
  BY <1>1
<1> QED BY <1>1, <1>2 DEF FirstTypeThatFits

LEMMA DocumentedIsUnderstood ==
  ASSUME NEW o, CheckOrder(o), Documented(o)
  PROVE  TypeOf(o) = o.sum[1] /\ HashVal(o, o.sum[1]) = o.sum
<1> DEFINE t == o.sum[1]
           n == TextLength(o)
<1>1. /\ t \in {"md5", "sha1", "xxhash", "xxhash64", "xxhash64be"}
      /\ o.typed \in {"none", t} /\ o.prefix \in {"none", t} /\ t # "none"
      /\ t = "xxhash64be" => (o.typed = "none" <=> o.prefix # "none")
  BY TheTypes DEF CheckOrder, Documented
<1>2. n = (IF o.prefix = "none" THEN SumLength[t] ELSE WithPrefix(t))
  BY <1>1, Lengths DEF TextLength
<1>3. \A u : Fits(o, u) <=> n \in {SumLength[u], WithPrefix(u)}
  BY DEF Fits
<1>4. /\ PrintOrder[1] = "md5" /\ PrintOrder[2] = "sha1" /\ PrintOrder[3] = "xxhash"
      /\ PrintOrder[4] = "xxhash64"
  BY DEF PrintOrder
<1> HIDE DEF n
<1>5. TypeOf(o) = t
  <2>1. CASE o.typed = "none" /\ t # "xxhash64be"
    <3>1. FirstTypeThatFits(o) = t
      <4>1. PICK i \in 1..4 : PrintOrder[i] = t
        BY <1>1, <1>4, <2>1
      <4>2. Fits(o, PrintOrder[i])
        BY <1>2, <1>3, <4>1
      <4>3. \A j \in 1..4 : j # i => ~Fits(o, PrintOrder[j])
        <5>1. \A j \in 1..4 : j \in {1, 2, 3, 4}
          OBVIOUS
        <5>2. \A j \in 1..4 : j # i => PrintOrder[j] # t
          BY <1>4, <4>1, <5>1
        <5>3. \A u \in {"md5", "sha1", "xxhash", "xxhash64"} : u # t => ~Fits(o, u)
          BY <1>1, <1>2, <1>3, <2>1, Lengths
        <5>4. \A j \in 1..4 : PrintOrder[j] \in {"md5", "sha1", "xxhash", "xxhash64"}
          BY <1>4, <5>1
        <5> QED BY <5>2, <5>3, <5>4
      <4> QED BY <4>1, <4>2, <4>3, FirstFit
    <3> QED BY <2>1, <3>1 DEF TypeOf
  <2>2. CASE o.typed = "none" /\ t = "xxhash64be"
    <3>1. n = 27
      BY <1>1, <1>2, <2>2, Lengths
    <3>2. \A u \in {"md5", "sha1", "xxhash", "xxhash64"} : ~Fits(o, u)
      BY <1>3, <3>1, Lengths
    <3>3. \A j \in 1..4 : j \in {1, 2, 3, 4}
      OBVIOUS
    <3>4. {i \in 1..4 : Fits(o, PrintOrder[i])} = {}
      BY <1>4, <3>2, <3>3
    <3>5. FirstTypeThatFits(o) = "xxhash64be"
      BY <3>1, <3>4, Lengths DEF FirstTypeThatFits, n
    <3> QED BY <2>2, <3>5 DEF TypeOf
  <2>3. CASE o.typed = "xxhash64be"
    <3>1. t = "xxhash64be" /\ n = 16
      BY <1>1, <1>2, <2>3, Lengths
    <3>2. Fits(o, "xxhash64")
      BY <1>3, <3>1, Lengths
    <3> QED BY <2>3, <3>1, <3>2 DEF TypeOf
  <2>4. CASE o.typed \notin {"none", "xxhash64be"}
    <3>1. o.typed = t /\ Fits(o, t)
      BY <1>1, <1>2, <1>3, <2>4
    <3> QED BY <2>4, <3>1 DEF TypeOf
  <2> QED BY <2>1, <2>2, <2>3, <2>4
<1>6. HashVal(o, t) = o.sum
  <2> DEFINE skipped == IF n = WithPrefix(t) THEN PrefixLength[t] ELSE 0
  <2>1. n - skipped = SumLength[t]
    BY <1>1, <1>2, Lengths
  <2> QED BY <2>1 DEF HashVal, n
<1> QED BY <1>5, <1>6

(***************************************************************************)
(* The check of one file: for as long as nobody touches it, it is the file *)
(* at hand, and the open file has its content.                             *)
(***************************************************************************)
Right == Exists(order.file) /\ disk[order.file] = order.sum[2]

Answer ==
  /\ status = "OK" => Right
  /\ Right /\ Documented(order) /\ order.file \notin BadFiles => status = "OK"

CheckInv ==
  order.mode = "check" =>
    /\ pass \in {"check", "exited", "killed"}
    /\ pass = "check" /\ stream # {} => cur # NoFile
    /\ pass = "check" /\ cur # NoFile => cur = order.file /\ TypeOf(order) # "none"
    /\ order.file \notin touched =>
         /\ pass = "check" /\ stream # {} => stream = {disk[order.file]}
         /\ pass = "exited" => Answer

LEMMA CheckInvInit == ASSUME PipeInit PROVE CheckInv
BY DEF PipeInit, HashInit, WalkInit, StreamInit, CheckInv

\* What TypeOf can find, and what HashVal can leave.
LEMMA TypeFound ==
  ASSUME NEW o, CheckOrder(o), TypeOf(o) # "none" PROVE TypeOf(o) \in Types
<1>1. FirstTypeThatFits(o) \in Types \cup {"none"}
  <2> DEFINE fits == {i \in 1..4 : Fits(o, PrintOrder[i])}
  <2>1. CASE fits = {}
    <3>1. FirstTypeThatFits(o) \in {"xxhash64be", "none"}
      BY <2>1 DEF FirstTypeThatFits
    <3> QED BY <3>1, TheTypes
  <2>2. CASE fits # {}
    <3> DEFINE IsFirst(i) == \A j \in fits : i <= j
    <3>1. \E i \in fits : IsFirst(i)
      <4>1. fits \subseteq {1, 2, 3, 4}
        OBVIOUS
      <4>2. CASE 1 \in fits
        BY <4>1, <4>2
      <4>3. CASE 1 \notin fits /\ 2 \in fits
        BY <4>1, <4>3
      <4>4. CASE 1 \notin fits /\ 2 \notin fits /\ 3 \in fits
        BY <4>1, <4>4
      <4>5. CASE 1 \notin fits /\ 2 \notin fits /\ 3 \notin fits
        BY <2>2, <4>1, <4>5
      <4> QED BY <4>2, <4>3, <4>4, <4>5
    <3> DEFINE first == CHOOSE i \in fits : IsFirst(i)
    <3>2. first \in fits
      BY <3>1
    <3>3. FirstTypeThatFits(o) = PrintOrder[first]
      BY <2>2 DEF FirstTypeThatFits
    <3>4. first \in DOMAIN PrintOrder
      BY <3>2, TheTypes
    <3> QED BY <3>3, <3>4 DEF Types
  <2> QED BY <2>1, <2>2
<1>2. "xxhash64be" \in Types
  BY TheTypes
<1> QED BY <1>1, <1>2 DEF TypeOf, CheckOrder

LEMMA SumIsOfContent ==
  ASSUME CheckOrder(order), NEW t \in Types, NEW d \in Contents, HashVal(order, t) = Sum(t, d)
  PROVE  order.sum = Sum(t, d)
<1>1. Sum(t, d) # Unread
  BY HashAssumption DEF HashAssumption, Sum
<1> QED BY <1>1 DEF HashVal

\* The verdict on the content.
LEMMA VerdictIsRight ==
  ASSUME CheckOrder(order), TypeOf(order) # "none", NEW d \in Contents,
         Exists(order.file), disk[order.file] = d,
         status' = Verdict(TypeOf(order), d, HashVal(order, TypeOf(order))),
         UNCHANGED <<order, disk>>
  PROVE  Answer'
<1>1. TypeOf(order) \in Types
  BY TypeFound
<1>2. ASSUME status' = "OK" PROVE Right
  <2>1. HashVal(order, TypeOf(order)) = Sum(TypeOf(order), d)
    BY <1>2 DEF Verdict
  <2>2. order.sum = Sum(TypeOf(order), d)
    BY <1>1, <2>1, SumIsOfContent
  <2> QED BY <2>2 DEF Right, Sum
<1>3. ASSUME Right, Documented(order) PROVE status' = "OK"
  <2>1. TypeOf(order) = order.sum[1] /\ HashVal(order, order.sum[1]) = order.sum
    BY <1>3, DocumentedIsUnderstood
  <2>2. order.sum = Sum(order.sum[1], d)
    BY <1>3 DEF Right, Sum, CheckOrder
  <2> QED BY <2>1, <2>2 DEF Verdict
<1>4. Right' = Right /\ Documented(order)' = Documented(order)
  BY DEF Right, Exists
<1> QED BY <1>2, <1>3, <1>4 DEF Answer

\* An answer without a look at the content: there is no sum, no file, or no
\* reading it.
LEMMA RefusalIsRight ==
  ASSUME CheckOrder(order), UNCHANGED <<order, disk>>,
         status' \in {"WRONG_ARGUMENTS", "NO_SUCH_FILE", "IO_ERROR"},
         \/ TypeOf(order) = "none"
         \/ ~Exists(order.file)
         \/ order.file \in BadFiles
  PROVE  Answer'
<1>1. status' # "OK"
  OBVIOUS
<1>2. ~(Exists(order.file) /\ Documented(order) /\ order.file \notin BadFiles)
  <2> SUFFICES ASSUME Documented(order), Exists(order.file), order.file \notin BadFiles PROVE FALSE
    OBVIOUS
  <2>1. TypeOf(order) \in Types
    BY DocumentedIsUnderstood DEF CheckOrder
  <2> QED BY <2>1, TheTypes
<1> QED BY <1>1, <1>2 DEF Answer, Right, Exists

LEMMA CheckInvStep == ASSUME TypeInv, CheckInv, [Next]_vars PROVE CheckInv'
<1>0. /\ HashTypes /\ WalkTypeOK /\ StreamTypeOK /\ order \in Orders /\ NoFile \notin Files
  BY ArgWalkAssumption DEF ArgWalkAssumption, TypeInv, HashTypes, HashTypeOK
<1>1. order' = order
  BY DEF Next, vars, hashVars, HashStep, HashProgram, SizePass, EndSizePass, HashWalk,
         OpenForHash, CallbackEnds, PrintSum, ReadFails, AllPrinted, EndHashPass, BeginCheck,
         OpenForCheck, CompareSum, CheckReadFails, Flush, BrokenPipe, KillHash, FileProgram,
         ReadLine, EndInput, CreateList, FileChanges, HashFileChanges, Stopped
<1> SUFFICES ASSUME order.mode = "check" PROVE CheckInv'
  BY <1>1 DEF CheckInv
<1>2. CheckOrder(order) /\ order.file \in Files
  BY <1>0, OrderToCheck DEF CheckOrder
<1>3. /\ pass \in {"check", "exited", "killed"}
      /\ pass = "check" /\ stream # {} => cur # NoFile
      /\ pass = "check" /\ cur # NoFile => cur = order.file /\ TypeOf(order) # "none"
      /\ order.file \notin touched =>
           /\ pass = "check" /\ stream # {} => stream = {disk[order.file]}
           /\ pass = "exited" => Answer
  BY DEF CheckInv
<1>4. ASSUME UNCHANGED <<disk, touched, cur, stream, status>>, pass' \in {pass, "killed"}
      PROVE  CheckInv'
  <2>1. Answer' = Answer
    BY <1>1, <1>4 DEF Answer, Right, Exists
  <2> QED BY <1>1, <1>3, <1>4, <2>1 DEF CheckInv
<1>5. ASSUME UNCHANGED <<disk, touched>>, pass' = "exited", order.file \notin touched => Answer'
      PROVE  CheckInv'
  BY <1>1, <1>5 DEF CheckInv
<1>6. CASE HashStep
  <2>1. BeginCheck \/ OpenForCheck \/ CompareSum \/ CheckReadFails
    BY <1>3, <1>6 DEF HashStep, HashProgram, SizePass, EndSizePass, HashWalk, OpenForHash,
       PrintSum, ReadFails, AllPrinted, EndHashPass, HashCallback
  <2>2. UNCHANGED <<disk, touched>>
    BY <1>6, ProgramKeepsDisk DEF HashStep, diskVars
  <2>3. CASE BeginCheck
    <3>1. CASE TypeOf(order) = "none" \/ ~Exists(order.file)
      <4>1. pass' = "exited" /\ status' \in {"WRONG_ARGUMENTS", "NO_SUCH_FILE"}
        BY <2>3, <3>1 DEF BeginCheck, Exit
      <4>2. Answer'
        BY <1>1, <1>2, <2>2, <3>1, <4>1, RefusalIsRight
      <4> QED BY <1>5, <2>2, <4>1, <4>2
    <3>2. CASE ~(TypeOf(order) = "none" \/ ~Exists(order.file))
      <4>1. cur = NoFile /\ cur' = order.file /\ pass' = "check" /\ UNCHANGED <<order, stream>>
        BY <2>3, <3>2 DEF BeginCheck
      <4>2. stream = {} /\ TypeOf(order)' # "none"
        <5>1. pass = "check"
          BY <2>3 DEF BeginCheck
        <5> QED BY <1>1, <1>3, <3>2, <4>1, <5>1
      <4> QED BY <1>1, <4>1, <4>2 DEF CheckInv
    <3> QED BY <3>1, <3>2
  <2>4. CASE OpenForCheck
    <3>1. cur = order.file /\ TypeOf(order) # "none" /\ UNCHANGED cur
      BY <1>3, <2>4 DEF OpenForCheck, walkVars
    <3>2. CASE Exists(cur)
      <4>1. stream' = {disk[order.file]} /\ pass' = "check" /\ cur # NoFile
        BY <2>4, <3>1, <3>2 DEF OpenForCheck, OpenStream
      <4> QED BY <1>1, <2>2, <3>1, <4>1 DEF CheckInv
    <3>3. CASE ~Exists(cur)
      <4>1. pass' = "exited" /\ status' = "NO_SUCH_FILE"
        BY <2>4, <3>3 DEF OpenForCheck, CheckEnds, Exit
      <4>2. Answer'
        BY <1>1, <1>2, <2>2, <3>1, <3>3, <4>1, RefusalIsRight
      <4> QED BY <1>5, <2>2, <4>1, <4>2
    <3> QED BY <3>2, <3>3
  <2>5. CASE CompareSum
    <3>1. pass = "check" /\ stream # {}
      BY <2>5 DEF CompareSum
    <3>2. PICK d \in DigestsOfStream :
            /\ pass' = "exited"
            /\ status' = Verdict(TypeOf(order), d, HashVal(order, TypeOf(order)))
      BY <2>5 DEF CompareSum, CheckEnds, Exit
    <3>3. ASSUME order.file \notin touched PROVE Answer'
      <4>1. stream = {disk[order.file]} /\ TypeOf(order) # "none"
        BY <1>3, <3>1, <3>3
      <4>2. d = disk[order.file]
        BY <1>0, <4>1, DigestType
      <4>3. d \in Contents
        BY <1>0, <4>1, <4>2 DEF StreamTypeOK
      <4>4. Exists(order.file)
        BY <4>2, <4>3, ArgWalkAssumption DEF ArgWalkAssumption, Exists
      <4> QED BY <1>1, <1>2, <2>2, <3>2, <4>1, <4>2, <4>3, <4>4, VerdictIsRight
    <3> QED BY <1>5, <2>2, <3>2, <3>3
  <2>6. CASE CheckReadFails
    <3>1. /\ pass = "check" /\ stream # {} /\ cur \in BadFiles
          /\ pass' = "exited" /\ status' = "IO_ERROR"
      BY <2>6 DEF CheckReadFails, ReadError, CheckEnds, Exit
    <3>2. order.file \in BadFiles
      BY <1>3, <3>1
    <3>3. Answer'
      BY <1>1, <1>2, <2>2, <3>1, <3>2, RefusalIsRight
    <3> QED BY <1>5, <2>2, <3>1, <3>3
  <2> QED BY <2>1, <2>3, <2>4, <2>5, <2>6
<1>7. CASE Flush \/ ReadLine \/ EndInput \/ CreateList \/ UNCHANGED vars
  BY <1>4, <1>7 DEF Flush, ReadLine, EndInput, CreateList, vars, diskVars, walkVars, hashVars
<1>8. CASE BrokenPipe \/ KillHash
  BY <1>4, <1>8 DEF BrokenPipe, KillHash, diskVars, walkVars
<1>9. CASE FileChanges
  <2>1. PICK f \in Files, c \in Contents \cup {Absent} : EditSeenByStream(f, c)
    BY <1>9 DEF FileChanges, HashFileChanges
  <2>2. /\ UNCHANGED <<pass, cur, status>> /\ touched' = touched \cup {f}
        /\ disk' = [disk EXCEPT ![f] = c]
    BY <1>9, <2>1 DEF FileChanges, HashFileChanges, EditSeenByStream, Edit
  <2>3. stream' # {} => stream # {}
    BY <2>1 DEF EditSeenByStream
  <2>4. ASSUME order.file \notin touched'
        PROVE  /\ pass = "check" /\ stream' # {} => stream' = {disk'[order.file]}
               /\ pass = "exited" => Answer'
    <3>1. order.file # f /\ order.file \notin touched
      BY <2>2, <2>4
    <3>2. disk'[order.file] = disk[order.file]
      BY <1>0, <1>2, <2>2, <3>1 DEF WalkTypeOK
    <3>3. pass = "check" /\ stream # {} => cur = order.file /\ stream' = stream
      BY <1>3, <2>1, <3>1 DEF EditSeenByStream
    <3>4. Answer' = Answer
      BY <1>1, <2>2, <3>2 DEF Answer, Right, Exists
    <3> QED BY <1>3, <2>3, <3>1, <3>2, <3>3, <3>4
  <2> QED BY <1>1, <1>3, <2>2, <2>3, <2>4 DEF CheckInv
<1> QED BY <1>6, <1>7, <1>8, <1>9 DEF Next, FileProgram, Stopped

\* The answer of 'mhl hash -h' about a file nobody touches is right, for every
\* type and every way of giving a sum that the help describes.
THEOREM CheckAnswersRight == Spec => []CheckIsRight
<1>1. Spec => []TypeInv
  BY TypeInvInit, TypeInvStep, PTL DEF Spec
<1>2. Spec => []CheckInv
  BY <1>1, CheckInvInit, CheckInvStep, PTL DEF Spec
<1>3. CheckInv => CheckIsRight
  BY DEF CheckInv, CheckIsRight, Answer, Right
<1> QED BY <1>2, <1>3, PTL

(***************************************************************************)
(* Completeness of what is printed.  A path is printed if there is a line  *)
(* for every stable file of it and every selected type.  The walk prints   *)
(* the paths one after another, and in a folder or a sequence file after   *)
(* file; of the file at hand the types that are done have been printed.    *)
(***************************************************************************)
TypePrinted(t, f) == \E i \in DOMAIN lines : lines[i] = Line(t, f, disk[f])

FilePrinted(f) == \A t \in order.types : TypePrinted(t, f)

PathPrinted(p) == \A f \in FilesOf(p) \ touched : Exists(f) => FilePrinted(f)

TypesSoFar ==
  pass \in {"size", "hash"} =>
    /\ cur = NoFile \/ pass = "size" => done = {}
    /\ \A f \in Files \ touched : f = cur => \A t \in done : TypePrinted(t, f)

PathsSoFar ==
  pass = "hash" /\ overall = "OK" => \A i \in 1..(arg - 1) : PathPrinted(args[i])

FolderSoFar ==
  pass = "hash" /\ walk.at = "folder" =>
    \A f \in ThePath.below \ touched :
      Exists(f) => FilePrinted(f) \/ f \in walk.must \/ f = cur

NumbersSoFar ==
  pass = "hash" /\ walk.at = "number" =>
    \A j \in 1..(walk.pos - 1) :
      LET f == ThePath.files[j]
      IN f \notin touched => (Exists(f) => FilePrinted(f)) \/ f = cur

WalkSoFar == PathsSoFar /\ FolderSoFar /\ NumbersSoFar

AllPathsPrinted == \A i \in DOMAIN args : PathPrinted(args[i])

PrintedAfterwards ==
  order.mode = "calculate" /\ pass = "exited" /\ status = "OK" => AllPathsPrinted

PrintInv == TypesSoFar /\ WalkSoFar /\ PrintedAfterwards

\* What no step takes back.
Stays ==
  /\ args' = args /\ order' = order /\ Grows /\ touched \subseteq touched'
  /\ \A f \in Files \ touched' : disk'[f] = disk[f]

LEMMA StepStays == ASSUME TypeInv, [Next]_vars PROVE Stays
<1>0. HashTypes /\ WalkTypeOK
  BY DEF TypeInv, HashTypes, HashTypeOK
<1>1. CASE HashStep
  <2>1. Grows /\ UNCHANGED diskVars
    BY <1>0, <1>1, HashTypesStep, ProgramKeepsDisk DEF HashStep
  <2>2. args' = args /\ order' = order
    BY <1>1, WalkKeepsArgs
       DEF HashStep, HashProgram, SizePass, EndSizePass, HashWalk, OpenForHash, PrintSum,
           ReadFails, AllPrinted, EndHashPass, BeginCheck, OpenForCheck, CompareSum,
           CheckReadFails, CallbackEnds, CallbackReturns, SizeFile, RestartWalk, walkVars,
           hashVars
  <2> QED BY <2>1, <2>2 DEF Stays, diskVars
<1>2. CASE Flush \/ BrokenPipe \/ KillHash \/ ReadLine \/ EndInput \/ CreateList \/ UNCHANGED vars
  <2>1. UNCHANGED <<disk, touched, args, order, lines>>
    BY <1>2 DEF Flush, BrokenPipe, KillHash, ReadLine, EndInput, CreateList, vars, diskVars,
                walkVars, hashVars
  <2>2. Len(lines) \in Nat
    BY <1>0 DEF HashTypes
  <2> QED BY <2>1, <2>2 DEF Stays, Grows
<1>3. CASE FileChanges
  <2>1. PICK f \in Files, c \in Contents \cup {Absent} : Edit(f, c)
    BY <1>3 DEF FileChanges, HashFileChanges, EditSeenByStream
  <2>2. /\ touched' = touched \cup {f} /\ disk' = [disk EXCEPT ![f] = c]
        /\ UNCHANGED <<args, order, lines>> /\ Len(lines) \in Nat
    BY <1>0, <1>3, <2>1 DEF FileChanges, HashFileChanges, Edit, HashTypes
  <2>3. \A g \in Files \ touched' : disk'[g] = disk[g]
    BY <1>0, <2>2 DEF WalkTypeOK
  <2> QED BY <2>2, <2>3 DEF Stays, Grows
<1> QED BY <1>1, <1>2, <1>3 DEF Next, FileProgram, Stopped

LEMMA TypePrintedStays ==
  ASSUME TypeInv, TypeInv', Stays, NEW f \in Files \ touched', NEW t, TypePrinted(t, f)
  PROVE  TypePrinted(t, f)'
<1>1. PICK i \in DOMAIN lines : lines[i] = Line(t, f, disk[f])
  BY DEF TypePrinted
<1>2. i \in DOMAIN lines' /\ lines'[i] = lines[i]
  BY <1>1 DEF Stays, Grows, TypeInv, HashTypes
<1>3. disk'[f] = disk[f]
  BY DEF Stays
<1> QED BY <1>1, <1>2, <1>3 DEF TypePrinted

LEMMA FilePrintedStays ==
  ASSUME TypeInv, TypeInv', Stays, NEW f \in Files \ touched', FilePrinted(f)
  PROVE  FilePrinted(f)'
BY TypePrintedStays DEF FilePrinted, Stays

LEMMA ExistsStays ==
  ASSUME Stays, NEW f \in Files \ touched' PROVE Exists(f)' = Exists(f) /\ f \notin touched
BY DEF Stays, Exists

LEMMA FilesOfPath == ASSUME NEW p \in PathSpec PROVE FilesOf(p) \subseteq Files
<1>1. p.below \subseteq Files /\ p.files \in Seq(Files)
  BY DEF PathSpec
<1> QED BY <1>1 DEF FilesOf

LEMMA PathPrintedStays ==
  ASSUME TypeInv, TypeInv', Stays, NEW p \in PathSpec, PathPrinted(p) PROVE PathPrinted(p)'
<1> SUFFICES ASSUME NEW f \in FilesOf(p) \ touched', Exists(f)' PROVE FilePrinted(f)'
  BY DEF PathPrinted
<1>1. f \in Files \ touched'
  BY FilesOfPath
<1>2. FilePrinted(f)
  BY <1>1, ExistsStays DEF PathPrinted
<1> QED BY <1>1, <1>2, FilePrintedStays

LEMMA PathsAreSpecs ==
  ASSUME TypeInv PROVE /\ args \in Seq(PathSpec) /\ Len(args) \in Nat /\ DOMAIN args = 1..Len(args)
                       /\ arg \in 1..(Len(args) + 1)
                       /\ \A i \in DOMAIN args : args[i] \in PathSpec
BY ArgWalkAssumption DEF ArgWalkAssumption, TypeInv, HashTypes, HashTypeOK, WalkTypeOK

\* The paths before the one at hand stay printed.
LEMMA PathsStayPrinted ==
  ASSUME TypeInv, TypeInv', Stays, NEW n \in 1..(Len(args) + 1),
         \A i \in 1..(n - 1) : PathPrinted(args[i])
  PROVE  \A i \in 1..(n - 1) : PathPrinted(args[i])'
<1> SUFFICES ASSUME NEW i \in 1..(n - 1) PROVE PathPrinted(args[i])'
  OBVIOUS
<1>1. args[i] \in PathSpec /\ PathPrinted(args[i]) /\ args' = args
  BY PathsAreSpecs DEF Stays
<1> DEFINE p == args[i]
<1>2. PathPrinted(p)'
  BY <1>1, PathPrintedStays
<1> QED BY <1>1, <1>2

\* The walk's own steps print nothing and forget nothing.
LEMMA WalkPrints ==
  ASSUME TypeInv, WalkSoFar, HashWalk
  PROVE  WalkSoFar'
<1>0. /\ args \in Seq(PathSpec) /\ Len(args) \in Nat /\ WalkShape /\ WalkTypeOK
      /\ arg \in 1..(Len(args) + 1) /\ \A i \in DOMAIN args : args[i] \in PathSpec
      /\ Walk /\ pass = "hash" /\ UNCHANGED <<diskVars, args, hashVars, disk, touched>>
  BY PathsAreSpecs, WalkKeepsArgs
     DEF HashWalk, TypeInv, HashTypes, HashTypeOK, Working, diskVars
<1>1. ASSUME NEW f PROVE FilePrinted(f)' = FilePrinted(f) /\ Exists(f)' = Exists(f)
  BY <1>0 DEF FilePrinted, TypePrinted, Exists, hashVars
<1>2. ASSUME NEW p PROVE PathPrinted(p)' = PathPrinted(p)
  BY <1>0, <1>1 DEF PathPrinted
<1>3. pass' = "hash"
  BY <1>0 DEF hashVars
<1>4. ASSUME UNCHANGED <<arg, overall>> PROVE PathsSoFar'
  BY <1>0, <1>2, <1>4 DEF WalkSoFar, PathsSoFar
\* The end of a path: it has failed, or it is printed.
<1>5. ASSUME NEW res, NextPath(res), arg <= Len(args),
             res = "OK" => PathPrinted(ThePath)
      PROVE  WalkSoFar'
  <2>1. walk'.at = "path" /\ arg' = arg + 1
    BY <1>5 DEF NextPath, Idle
  <2>2. PathsSoFar'
    <3> SUFFICES ASSUME overall' = "OK", NEW i \in 1..arg PROVE PathPrinted(args[i])
      BY <1>0, <1>2, <2>1 DEF PathsSoFar
    <3>1. res = "OK" /\ overall = "OK"
      BY <1>5 DEF NextPath
    <3>2. CASE i = arg
      BY <1>5, <3>1, <3>2 DEF ThePath
    <3>3. CASE i \in 1..(arg - 1)
      BY <1>0, <3>1, <3>3 DEF WalkSoFar, PathsSoFar
    <3> QED BY <1>0, <3>2, <3>3
  <2>3. FolderSoFar' /\ NumbersSoFar'
    BY <2>1 DEF FolderSoFar, NumbersSoFar
  <2> QED BY <2>2, <2>3 DEF WalkSoFar
<1>6. CASE MissingPath
  <2>1. NextPath("NO_SUCH_FILE") /\ arg <= Len(args)
    BY <1>6 DEF MissingPath
  <2> QED BY <1>5, <2>1
<1>7. CASE IgnorePath
  <2>1. NextPath("OK") /\ arg <= Len(args) /\ ThePath.kind = "other"
    BY <1>7 DEF IgnorePath
  <2>2. PathPrinted(ThePath)
    <3>1. FilesOf(ThePath) = {}
      BY <1>0, <2>1, ThePathType DEF FilesOf
    <3> QED BY <3>1 DEF PathPrinted
  <2> QED BY <1>5, <2>1, <2>2
<1>8. CASE BeginFile
  <2>1. UNCHANGED <<arg, overall, walk>> /\ walk.at = "path"
    BY <1>8 DEF BeginFile
  <2> QED BY <1>4, <2>1 DEF WalkSoFar, FolderSoFar, NumbersSoFar
<1>9. CASE BeginFolder
  <2>1. /\ UNCHANGED <<arg, overall>>
        /\ walk'.at = "folder" /\ walk'.must = {f \in ThePath.below : Exists(f)}
    BY <1>9 DEF BeginFolder, InFolder, Idle
  <2>2. ThePath' = ThePath
    BY <1>0, <2>1 DEF ThePath
  <2>3. FolderSoFar'
    BY <1>1, <2>1, <2>2 DEF FolderSoFar
  <2> QED BY <1>4, <2>1, <2>3 DEF WalkSoFar, NumbersSoFar
<1>10. CASE VisitEntry
  <2>1. PICK f \in walk.must \cup walk.may :
          cur' = f /\ walk' = [walk EXCEPT !.must = @ \ {f}, !.may = @ \ {f}]
    BY <1>10 DEF VisitEntry
  <2>2. walk \in Places /\ UNCHANGED <<arg, overall>> /\ walk.at = "folder" /\ cur = NoFile
    BY <1>0, <1>10 DEF VisitEntry, WalkTypeOK
  <2>3. walk'.at = "folder" /\ walk'.must = walk.must \ {f} /\ ThePath' = ThePath
    BY <1>0, <2>1, <2>2 DEF Places, ThePath
  <2>4. ThePath.below \subseteq Files
    BY <1>0, <2>2, ThePathType DEF WalkShape, PathSpec
  <2>5. FolderSoFar'
    <3> SUFFICES ASSUME NEW g \in ThePath.below \ touched, Exists(g)
                 PROVE  FilePrinted(g) \/ g \in walk.must \ {f} \/ g = f
      BY <1>0, <1>1, <2>1, <2>3 DEF FolderSoFar
    <3>1. g # cur
      BY <2>2, <2>4, ArgWalkAssumption DEF ArgWalkAssumption
    <3> QED BY <1>0, <2>2, <3>1 DEF WalkSoFar, FolderSoFar
  <2> QED BY <1>4, <2>2, <2>3, <2>5 DEF WalkSoFar, NumbersSoFar
<1>11. CASE EndFolder
  <2>1. /\ NextPath("OK") /\ arg <= Len(args) /\ ThePath.kind = "folder"
        /\ walk.at = "folder" /\ walk.must = {} /\ cur = NoFile
    BY <1>0, <1>11 DEF EndFolder, WalkShape
  <2>2. FilesOf(ThePath) = ThePath.below /\ ThePath.below \subseteq Files
    BY <1>0, <2>1, ThePathType DEF FilesOf, PathSpec
  <2>3. PathPrinted(ThePath)
    BY <1>0, <2>1, <2>2, ArgWalkAssumption
       DEF ArgWalkAssumption, PathPrinted, WalkSoFar, FolderSoFar
  <2> QED BY <1>5, <2>1, <2>3
<1>12. CASE FolderFails
  <2>1. NextPath("IO_ERROR") /\ arg <= Len(args)
    BY <1>0, <1>12 DEF FolderFails, WalkShape
  <2> QED BY <1>5, <2>1
<1>13. CASE BeginSequence
  <2>1. UNCHANGED <<arg, overall>> /\ walk'.at = "probe"
    BY <1>13 DEF BeginSequence, Probing, Idle
  <2> QED BY <1>4, <2>1 DEF WalkSoFar, FolderSoFar, NumbersSoFar
<1>14. CASE ProbeNumber
  <2>1. UNCHANGED <<arg, overall>> /\ walk'.at = "probe"
    BY <1>0, <1>14 DEF ProbeNumber, WalkTypeOK, Places
  <2> QED BY <1>4, <2>1 DEF WalkSoFar, FolderSoFar, NumbersSoFar
<1>15. CASE ProbesDone
  <2>1. CASE NextPath("GAP_IN_SEQUENCE") /\ arg <= Len(args)
    BY <1>5, <2>1
  <2>2. CASE walk' = Numbering /\ UNCHANGED <<arg, overall>>
    <3>1. walk'.at = "number" /\ walk'.pos = 1
      BY <2>2 DEF Numbering, Idle
    <3> QED BY <1>4, <2>2, <3>1 DEF WalkSoFar, FolderSoFar, NumbersSoFar
  <2> QED BY <1>0, <1>15, <2>1, <2>2 DEF ProbesDone, WalkShape
<1>16. CASE VisitNumber
  <2>1. /\ UNCHANGED <<arg, overall>> /\ walk.at = "number" /\ cur = NoFile
        /\ cur' = ThePath.files[walk.pos] /\ walk.pos \in 1..Len(ThePath.files)
        /\ walk'.at = "number" /\ walk'.pos = walk.pos + 1 /\ ThePath' = ThePath
    BY <1>0, <1>16 DEF VisitNumber, WalkTypeOK, WalkShape, Places, ThePath
  <2>2. ThePath.files \in Seq(Files)
    BY <1>0, <2>1, ThePathType DEF WalkShape, PathSpec
  <2>3. NumbersSoFar'
    <3> SUFFICES ASSUME NEW j \in 1..walk.pos, ThePath.files[j] \notin touched
                 PROVE  \/ Exists(ThePath.files[j]) => FilePrinted(ThePath.files[j])
                        \/ ThePath.files[j] = ThePath.files[walk.pos]
      BY <1>0, <1>1, <2>1 DEF NumbersSoFar
    <3>1. CASE j = walk.pos
      BY <3>1
    <3>2. CASE j \in 1..(walk.pos - 1)
      <4>1. ThePath.files[j] # cur
        BY <2>1, <2>2, <3>2, ArgWalkAssumption DEF ArgWalkAssumption
      <4> QED BY <1>0, <2>1, <3>2, <4>1 DEF WalkSoFar, NumbersSoFar
    <3> QED BY <2>1, <3>1, <3>2
  <2> QED BY <1>4, <2>1, <2>3 DEF WalkSoFar, FolderSoFar
<1>17. CASE EndSequence
  <2>1. /\ NextPath("OK") /\ arg <= Len(args) /\ ThePath.kind = "sequence"
        /\ walk.at = "number" /\ walk.pos > Len(ThePath.files) /\ cur = NoFile
        /\ walk.pos \in Nat
    BY <1>0, <1>17 DEF EndSequence, WalkShape, WalkTypeOK, Places
  <2>2. /\ ThePath.below = {} /\ ThePath.files \in Seq(Files)
        /\ FilesOf(ThePath) = {ThePath.files[j] : j \in DOMAIN ThePath.files}
    BY <1>0, <2>1, ThePathType DEF FilesOf, PathSpec
  <2>3. ASSUME NEW f \in FilesOf(ThePath) \ touched, Exists(f) PROVE FilePrinted(f)
    <3>1. PICK j \in DOMAIN ThePath.files : f = ThePath.files[j]
      BY <2>2
    <3>2. j \in 1..(walk.pos - 1) /\ f \in Files
      BY <2>1, <2>2, <3>1
    <3>3. f # cur
      BY <2>1, <3>2, ArgWalkAssumption DEF ArgWalkAssumption
    <3> QED BY <1>0, <2>1, <2>3, <3>1, <3>2, <3>3 DEF WalkSoFar, NumbersSoFar
  <2>4. PathPrinted(ThePath)
    BY <2>3 DEF PathPrinted
  <2> QED BY <1>5, <2>1, <2>4
<1>18. CASE RefuseSequence
  <2>1. NextPath("INVALID_SEQUENCE") /\ arg <= Len(args)
    BY <1>18 DEF RefuseSequence, SequencePath
  <2> QED BY <1>5, <2>1
<1> QED BY <1>0, <1>6, <1>7, <1>8, <1>9, <1>10, <1>11, <1>12, <1>13, <1>14, <1>15, <1>16,
           <1>17, <1>18 DEF Walk

\* A callback that returns "OK" has printed its file; one that does not ends
\* the path with an error.
LEMMA CallbackPrints ==
  ASSUME TypeInv, TypeInv', WalkSoFar, Stays, NEW res, HashCallback, CallbackEnds(res),
         res = "OK" => \A f \in Files \ touched' : f = cur => FilePrinted(f)'
  PROVE  WalkSoFar'
<1>0. /\ args' = args /\ args \in Seq(PathSpec) /\ Len(args) \in Nat /\ DOMAIN args = 1..Len(args)
      /\ arg \in 1..(Len(args) + 1) /\ pass = "hash" /\ pass' = "hash" /\ cur # NoFile
      /\ WalkTypeOK /\ WalkShape
  BY PathsAreSpecs
     DEF Stays, HashCallback, CallbackEnds, TypeInv, HashTypes, HashTypeOK, Working
<1>1. /\ CallbackReturns(res) /\ cur' = NoFile /\ arg <= Len(args) /\ ThePath \in PathSpec
  BY <1>0, ThePathType DEF CallbackEnds, CallbackReturns, WalkShape
<1>2. ASSUME res = "OK", NEW f \in Files \ touched', f = cur PROVE FilePrinted(f)'
  BY <1>2
<1>3. overall = "OK" => \A i \in 1..(arg - 1) : PathPrinted(args[i])'
  BY <1>0, PathsStayPrinted DEF WalkSoFar, PathsSoFar
\* The path goes on.
<1>4. CASE UNCHANGED <<arg, walk, overall>> /\ res = "OK" /\ walk.at # "path"
  <2>1. ThePath' = ThePath
    BY <1>0, <1>4 DEF ThePath
  <2>2. PathsSoFar'
    BY <1>0, <1>3, <1>4 DEF PathsSoFar
  <2>3. FolderSoFar'
    <3> SUFFICES ASSUME walk.at = "folder", NEW f \in ThePath.below \ touched', Exists(f)'
                 PROVE  FilePrinted(f)' \/ f \in walk.must
      BY <1>4, <2>1 DEF FolderSoFar
    <3>1. f \in Files \ touched'
      BY <1>1 DEF PathSpec
    <3>2. Exists(f) /\ f \notin touched
      BY <3>1, ExistsStays
    <3>3. FilePrinted(f) \/ f \in walk.must \/ f = cur
      BY <1>0, <3>2 DEF WalkSoFar, FolderSoFar
    <3> QED BY <1>2, <1>4, <3>1, <3>3, FilePrintedStays
  <2>4. NumbersSoFar'
    <3> SUFFICES ASSUME walk.at = "number", NEW j \in 1..(walk.pos - 1),
                        ThePath.files[j] \notin touched', Exists(ThePath.files[j])'
                 PROVE  FilePrinted(ThePath.files[j])'
      BY <1>4, <2>1 DEF NumbersSoFar
    <3>1. ThePath.files[j] \in Files
      BY <1>0, <1>1 DEF PathSpec, WalkShape, WalkTypeOK, Places
    <3>2. PICK f \in Files \ touched' : f = ThePath.files[j]
      BY <2>1, <3>1
    <3>3. f \notin touched /\ Exists(f)' = Exists(f) /\ Exists(f)'
      BY <2>1, <3>2, ExistsStays DEF Exists
    <3>4. FilePrinted(f) \/ f = cur
      BY <1>0, <3>2, <3>3 DEF WalkSoFar, NumbersSoFar
    <3>5. FilePrinted(f)'
      BY <1>2, <1>4, <3>4, FilePrintedStays
    <3> QED BY <2>1, <3>2, <3>5 DEF FilePrinted, TypePrinted
  <2> QED BY <2>2, <2>3, <2>4 DEF WalkSoFar
\* The path ends.
<1>5. CASE NextPath(res) /\ (res = "OK" => walk.at = "path")
  <2>1. walk'.at = "path" /\ arg' = arg + 1
    BY <1>5 DEF NextPath, Idle
  <2>2. PathsSoFar'
    <3> SUFFICES ASSUME overall' = "OK", NEW i \in 1..arg PROVE PathPrinted(args[i])'
      BY <1>0, <2>1 DEF PathsSoFar
    <3>1. res = "OK" /\ overall = "OK" /\ walk.at = "path"
      BY <1>5 DEF NextPath
    <3>2. CASE i = arg
      <4> DEFINE p == ThePath
      <4>1. /\ p \in PathSpec /\ p.kind = "file" /\ cur = p.files[1] /\ Len(p.files) = 1
            /\ p.below = {} /\ cur \in Files
        BY <1>0, <1>1, <3>1, ThePathType DEF WalkShape, WalkTypeOK
      <4>2. FilesOf(p) = {cur}
        BY <4>1 DEF FilesOf, PathSpec
      <4>3. p = args[i] /\ args[i]' = args[i]
        BY <1>0, <3>2 DEF ThePath
      <4> HIDE DEF p
      <4>4. PathPrinted(args[i])'
        BY <1>2, <3>1, <4>1, <4>2, <4>3 DEF PathPrinted
      <4> QED BY <4>4
    <3>3. CASE i \in 1..(arg - 1)
      BY <1>3, <3>1, <3>3
    <3> QED BY <1>0, <3>2, <3>3
  <2>3. FolderSoFar' /\ NumbersSoFar'
    BY <2>1 DEF FolderSoFar, NumbersSoFar
  <2> QED BY <2>2, <2>3 DEF WalkSoFar
<1> QED BY <1>1, <1>4, <1>5 DEF CallbackReturns

\* A change by another program takes back nothing of the files it spares.
LEMMA ChangesPrint ==
  ASSUME TypeInv, TypeInv', WalkSoFar, Stays, FileChanges PROVE WalkSoFar'
<1>0. /\ args' = args /\ args \in Seq(PathSpec) /\ Len(args) \in Nat /\ DOMAIN args = 1..Len(args)
      /\ arg \in 1..(Len(args) + 1) /\ WalkTypeOK
      /\ pass = "hash" => WalkShape
  BY PathsAreSpecs DEF Stays, TypeInv, HashTypes, HashTypeOK, Working
<1>1. PICK f \in Files, c \in Contents \cup {Absent} : Edit(f, c)
  BY DEF FileChanges, HashFileChanges, EditSeenByStream
<1>2. /\ UNCHANGED <<arg, overall, cur, pass>> /\ touched' = touched \cup {f}
      /\ ThePath' = ThePath
  BY <1>0, <1>1 DEF FileChanges, HashFileChanges, Edit, ThePath
<1>3. \/ walk' = walk
      \/ walk' = [walk EXCEPT !.must = @ \ {f}, !.may = @ \cup {f}]
  BY <1>1 DEF Edit
<1>4. walk'.at = walk.at /\ walk'.pos = walk.pos /\ walk.must \subseteq walk'.must \cup {f}
  <2>1. CASE walk' = walk
    BY <2>1
  <2>2. CASE walk' = [walk EXCEPT !.must = @ \ {f}, !.may = @ \cup {f}]
    <3>1. walk \in Places
      BY <1>0 DEF WalkTypeOK
    <3>2. walk'.at = walk.at /\ walk'.pos = walk.pos /\ walk'.must = walk.must \ {f}
      BY <2>2, <3>1 DEF Places
    <3> QED BY <3>2
  <2> QED BY <1>3, <2>1, <2>2
<1>5. PathsSoFar'
  BY <1>0, <1>2, PathsStayPrinted DEF WalkSoFar, PathsSoFar
<1>6. FolderSoFar'
  <2> SUFFICES ASSUME walk.at = "folder", pass = "hash",
                      NEW g \in ThePath.below \ touched', Exists(g)'
               PROVE  FilePrinted(g)' \/ g \in walk'.must \/ g = cur
    BY <1>2, <1>4 DEF FolderSoFar
  <2>1. ThePath.below \subseteq Files
    BY <1>0, ThePathType DEF WalkShape, PathSpec
  <2>2. g \in Files \ touched' /\ Exists(g) /\ g \notin touched /\ g # f
    BY <1>2, <2>1, ExistsStays
  <2>3. FilePrinted(g) \/ g \in walk.must \/ g = cur
    BY <2>2 DEF WalkSoFar, FolderSoFar
  <2> QED BY <1>4, <2>2, <2>3, FilePrintedStays
<1>7. NumbersSoFar'
  <2> SUFFICES ASSUME walk.at = "number", pass = "hash", NEW j \in 1..(walk.pos - 1),
                      ThePath.files[j] \notin touched', ThePath.files[j] # cur,
                      Exists(ThePath.files[j])'
               PROVE  FilePrinted(ThePath.files[j])'
    BY <1>2, <1>4 DEF NumbersSoFar
  <2>1. ThePath.files[j] \in Files
    BY <1>0, ThePathType DEF WalkShape, WalkTypeOK, Places, PathSpec
  <2>2. PICK g \in Files \ touched' : g = ThePath.files[j]
    BY <1>2, <2>1
  <2>3. g \notin touched /\ Exists(g)' = Exists(g) /\ Exists(g)'
    BY <1>2, <2>2, ExistsStays DEF Exists
  <2>4. FilePrinted(g)
    BY <2>2, <2>3 DEF WalkSoFar, NumbersSoFar
  <2>5. FilePrinted(g)'
    BY <2>2, <2>4, FilePrintedStays
  <2> QED BY <1>2, <2>2, <2>5 DEF FilePrinted, TypePrinted
<1> QED BY <1>5, <1>6, <1>7 DEF WalkSoFar

\* All paths stay printed.
LEMMA AllStayPrinted ==
  ASSUME TypeInv, TypeInv', Stays, AllPathsPrinted PROVE AllPathsPrinted'
<1>1. Len(args) + 1 \in 1..(Len(args) + 1) /\ DOMAIN args = 1..(Len(args) + 1 - 1) /\ args' = args
  BY PathsAreSpecs DEF Stays
<1>2. \A i \in 1..(Len(args) + 1 - 1) : PathPrinted(args[i])
  BY <1>1 DEF AllPathsPrinted
<1>3. \A i \in 1..(Len(args) + 1 - 1) : PathPrinted(args[i])'
  BY <1>1, <1>2, PathsStayPrinted
<1> QED BY <1>1, <1>3 DEF AllPathsPrinted

\* A line is added for the next type, and its sum is that of the file's content.
LEMMA SumPrints ==
  ASSUME TypeInv, TypeInv', ListInv, TypesSoFar, Stays, PrintSum
  PROVE  TypesSoFar'
<1>0. /\ pass = "hash" /\ cur # NoFile /\ stream # {} /\ UNCHANGED <<pass, cur, disk, touched>>
      /\ done' = done \cup {NextType} /\ StreamTypeOK /\ lines \in Seq(Printed)
  BY DEF PrintSum, HashCallback, diskVars, walkVars, TypeInv, HashTypes, HashTypeOK
<1>1. PICK d \in DigestsOfStream :
        lines' = Append(lines, Line(NextType, cur, d)) \o Told(VeryVerbose)
  BY DEF PrintSum
<1>2. lines'[Len(lines) + 1] = Line(NextType, cur, d) /\ Len(lines) + 1 \in DOMAIN lines'
  <2>1. order \in Orders /\ Working /\ cur \in Files /\ done \subseteq order.types
    BY <1>0 DEF TypeInv, HashTypes, HashTypeOK, WalkTypeOK, Working
  <2>2. order.types \in SUBSET Types /\ done # order.types
    BY <1>0, <2>1, OrderShape DEF Working
  <2>3. NextType \in Types /\ d \in Digests
    BY <1>0, <2>1, <2>2, NextTypeIsSelected, DigestType
  <2>4. Line(NextType, cur, d) \in Printed
    BY <2>1, <2>3, LineType DEF Printed
  <2> QED BY <1>0, <1>1, <2>4, LineAdded
<1>3. ASSUME NEW f \in Files \ touched', f = cur, NEW t \in done' PROVE TypePrinted(t, f)'
  <2>1. CASE t = NextType
    <3>1. d = disk[f]
      BY <1>0, <1>3, DigestType DEF ListInv, PassSums, TrueStream
    <3> QED BY <1>0, <1>2, <1>3, <2>1, <3>1 DEF TypePrinted
  <2>2. CASE t \in done
    <3>1. TypePrinted(t, f)
      BY <1>0, <1>3, <2>2 DEF TypesSoFar
    <3> QED BY <1>3, <3>1, TypePrintedStays
  <2> QED BY <1>0, <1>3, <2>1, <2>2
<1> QED BY <1>0, <1>3 DEF TypesSoFar

LEMMA PrintInvInit == ASSUME PipeInit PROVE PrintInv
<1>1. done = {} /\ pass \in {"check", "size"}
  BY DEF PipeInit, HashInit
<1> QED BY <1>1 DEF PrintInv, TypesSoFar, WalkSoFar, PathsSoFar, FolderSoFar, NumbersSoFar,
                    PrintedAfterwards

LEMMA PrintInvStep ==
  ASSUME TypeInv, TypeInv', ListInv, PrintInv, [Next]_vars PROVE PrintInv'
<1>0. Stays /\ TypesSoFar /\ WalkSoFar /\ WalkTypeOK /\ Working
  BY StepStays DEF PrintInv, TypeInv, HashTypes, HashTypeOK
\* Before the end of the program nothing is claimed of all paths.
<1>1. ASSUME pass' # "exited" PROVE PrintedAfterwards'
  BY <1>1 DEF PrintedAfterwards
<1>2. ASSUME pass' \notin {"size", "hash"} PROVE TypesSoFar' /\ WalkSoFar'
  BY <1>2 DEF TypesSoFar, WalkSoFar, PathsSoFar, FolderSoFar, NumbersSoFar
<1>3. ASSUME NEW res, HashCallback, CallbackEnds(res),
             res = "OK" => \A f \in Files \ touched' : f = cur => FilePrinted(f)'
      PROVE  PrintInv'
  <2>1. WalkSoFar'
    BY <1>0, <1>3, CallbackPrints
  <2>2. pass' = "hash" /\ done' = {}
    BY <1>3 DEF HashCallback, CallbackEnds
  <2>3. TypesSoFar'
    BY <2>2 DEF TypesSoFar
  <2> QED BY <1>1, <2>1, <2>2, <2>3 DEF PrintInv
\* Steps that neither walk nor print.
<1>4. ASSUME UNCHANGED <<disk, touched, args, arg, walk, cur, overall, pass, order, done,
                         lines, status>>
      PROVE  PrintInv'
  BY <1>4 DEF PrintInv, TypesSoFar, WalkSoFar, PathsSoFar, FolderSoFar, NumbersSoFar,
         PrintedAfterwards, AllPathsPrinted, PathPrinted, FilePrinted, TypePrinted, Exists,
         ThePath
<1>5. CASE SizePass
  <2>1. pass = "size" /\ pass' = "size" /\ done' = done
    BY <1>5 DEF SizePass
  <2>2. done' = {}
    BY <1>0, <2>1 DEF TypesSoFar
  <2>3. TypesSoFar' /\ WalkSoFar'
    BY <2>1, <2>2 DEF TypesSoFar, WalkSoFar, PathsSoFar, FolderSoFar, NumbersSoFar
  <2> QED BY <1>1, <2>1, <2>3 DEF PrintInv
<1>6. CASE EndSizePass
  <2>1. pass = "size" /\ done' = {}
    BY <1>0, <1>6 DEF EndSizePass, TypesSoFar
  <2>2. CASE pass' = "hash" /\ RestartWalk
    <3>1. arg' = 1 /\ walk'.at = "path"
      BY <2>2 DEF RestartWalk, Idle
    <3>2. TypesSoFar' /\ WalkSoFar'
      BY <2>1, <3>1 DEF TypesSoFar, WalkSoFar, PathsSoFar, FolderSoFar, NumbersSoFar
    <3> QED BY <1>1, <2>2, <3>2 DEF PrintInv
  <2>3. CASE overall # "OK" /\ Exit(overall)
    <3>1. pass' = "exited" /\ status' # "OK"
      BY <2>3 DEF Exit
    <3>2. PrintedAfterwards'
      BY <3>1 DEF PrintedAfterwards
    <3> QED BY <1>2, <3>1, <3>2 DEF PrintInv
  <2> QED BY <1>6, <2>2, <2>3 DEF EndSizePass
<1>7. CASE HashWalk
  <2>1. pass = "hash" /\ pass' = "hash" /\ Walk /\ UNCHANGED <<done, lines, disk, touched, order>>
    BY <1>0, <1>7, WalkKeepsArgs DEF HashWalk, hashVars, diskVars
  <2>2. cur = NoFile
    <3>1. walk.at = "probe" => cur = NoFile
      BY <1>0, <2>1 DEF Working, WalkShape
    <3> QED BY <2>1, <3>1 DEF Walk, MissingPath, IgnorePath, BeginFile, BeginFolder,
            VisitEntry, EndFolder, FolderFails, RefuseSequence, BeginSequence, ProbeNumber, ProbesDone,
            VisitNumber, EndSequence
  <2>3. done' = {}
    BY <1>0, <2>1, <2>2 DEF TypesSoFar
  <2>4. TypesSoFar'
    BY <2>3 DEF TypesSoFar
  <2> QED BY <1>0, <1>1, <1>7, <2>1, <2>4, WalkPrints DEF PrintInv
<1>8. CASE OpenForHash
  <2>1. CASE CallbackEnds("NO_SUCH_FILE")
    BY <1>3, <1>8, <2>1 DEF OpenForHash
  <2>2. CASE UNCHANGED <<diskVars, walkVars, order, pass, done, lines, status>>
    BY <1>4, <2>2 DEF diskVars, walkVars
  <2> QED BY <1>8, <2>1, <2>2 DEF OpenForHash
<1>9. CASE PrintSum
  <2>1. /\ pass = "hash" /\ pass' = "hash"
        /\ UNCHANGED <<disk, touched, args, arg, walk, cur, overall>>
    BY <1>9 DEF PrintSum, HashCallback, diskVars, walkVars
  <2>2. TypesSoFar'
    BY <1>0, <1>9, SumPrints
  <2>3. /\ arg \in 1..(Len(args) + 1) /\ WalkShape /\ ThePath' = ThePath
        /\ \A f \in Files \ touched : FilePrinted(f) => FilePrinted(f)'
        /\ \A f : Exists(f)' = Exists(f)
    BY <1>0, <2>1, PathsAreSpecs, FilePrintedStays DEF ThePath, Exists, Working
  <2>4. PathsSoFar'
    <3>1. overall = "OK" => \A i \in 1..(arg - 1) : PathPrinted(args[i])'
      BY <1>0, <2>1, <2>3, PathsStayPrinted DEF WalkSoFar, PathsSoFar
    <3> QED BY <2>1, <3>1 DEF PathsSoFar
  <2>5. FolderSoFar'
    <3> SUFFICES ASSUME walk.at = "folder", NEW f \in ThePath.below \ touched, Exists(f)
                 PROVE  FilePrinted(f)' \/ f \in walk.must \/ f = cur
      BY <2>1, <2>3 DEF FolderSoFar
    <3>1. f \in Files
      BY <1>0, <2>3, ThePathType DEF WalkShape, PathSpec
    <3>2. FilePrinted(f) \/ f \in walk.must \/ f = cur
      BY <1>0, <2>1 DEF WalkSoFar, FolderSoFar
    <3> QED BY <2>3, <3>1, <3>2
  <2>6. NumbersSoFar'
    <3> SUFFICES ASSUME walk.at = "number", NEW j \in 1..(walk.pos - 1),
                        ThePath.files[j] \notin touched, ThePath.files[j] # cur,
                        Exists(ThePath.files[j])
                 PROVE  FilePrinted(ThePath.files[j])'
      BY <2>1, <2>3 DEF NumbersSoFar
    <3>1. ThePath.files[j] \in Files
      BY <1>0, <2>3, ThePathType DEF WalkShape, WalkTypeOK, Places, PathSpec
    <3>2. PICK g \in Files \ touched : g = ThePath.files[j]
      BY <3>1
    <3>3. FilePrinted(g)
      BY <1>0, <2>1, <3>2 DEF WalkSoFar, NumbersSoFar
    <3>4. FilePrinted(g)'
      BY <2>3, <3>2, <3>3
    <3> QED BY <2>3, <3>2, <3>4 DEF FilePrinted, TypePrinted
  <2> QED BY <1>1, <2>1, <2>2, <2>4, <2>5, <2>6 DEF PrintInv, WalkSoFar
<1>10. CASE ReadFails
  BY <1>3, <1>10 DEF ReadFails
<1>11. CASE AllPrinted
  <2>1. HashCallback /\ CallbackEnds("OK") /\ done = order.types /\ pass = "hash"
    BY <1>11 DEF AllPrinted, HashCallback
  <2>2. ASSUME NEW f \in Files \ touched', f = cur PROVE FilePrinted(f)'
    <3>1. FilePrinted(f)
      BY <1>0, <2>1, <2>2 DEF TypesSoFar, FilePrinted, Stays
    <3> QED BY <1>0, <2>2, <3>1, FilePrintedStays
  <2> QED BY <1>3, <2>1, <2>2
<1>12. CASE EndHashPass
  <2>1. pass = "hash" /\ arg > Len(args) /\ pass' = "exited" /\ status' = overall
    BY <1>12 DEF EndHashPass, WalkDone, Exit
  <2>2. overall = "OK" => AllPathsPrinted
    <3>1. DOMAIN args \subseteq 1..(arg - 1)
      BY <2>1, PathsAreSpecs
    <3> QED BY <1>0, <2>1, <3>1 DEF WalkSoFar, PathsSoFar, AllPathsPrinted
  <2>3. PrintedAfterwards'
    BY <1>0, <2>1, <2>2, AllStayPrinted DEF PrintedAfterwards
  <2> QED BY <1>2, <2>1, <2>3 DEF PrintInv
<1>13. CASE BeginCheck \/ OpenForCheck \/ CompareSum \/ CheckReadFails
  <2>1. pass = "check" /\ pass' \in {"check", "exited"} /\ order' = order
    BY <1>13 DEF BeginCheck, OpenForCheck, CompareSum, CheckReadFails, CheckEnds, Exit
  <2>2. PrintedAfterwards'
    BY <1>0, <2>1 DEF Working, PrintedAfterwards
  <2> QED BY <1>2, <2>1, <2>2 DEF PrintInv
<1>14. CASE Flush \/ ReadLine \/ EndInput \/ CreateList \/ UNCHANGED vars
  BY <1>4, <1>14 DEF Flush, ReadLine, EndInput, CreateList, vars, diskVars, walkVars, hashVars
<1>15. CASE BrokenPipe \/ KillHash
  BY <1>1, <1>2, <1>15 DEF BrokenPipe, KillHash, PrintInv
<1>16. CASE FileChanges
  <2>1. UNCHANGED <<pass, cur, done, order, status>>
    BY <1>16 DEF FileChanges, HashFileChanges, EditSeenByStream, Edit
  <2>2. WalkSoFar'
    BY <1>0, <1>16, ChangesPrint
  <2>3. TypesSoFar'
    <3>1. ASSUME NEW f \in Files \ touched', f = cur, pass \in {"size", "hash"}, NEW t \in done
          PROVE  TypePrinted(t, f)'
      <4>1. TypePrinted(t, f)
        BY <1>0, <3>1 DEF TypesSoFar, Stays
      <4> QED BY <1>0, <3>1, <4>1, TypePrintedStays
    <3> QED BY <1>0, <2>1, <3>1 DEF TypesSoFar
  <2>4. PrintedAfterwards'
    BY <1>0, <2>1, AllStayPrinted DEF PrintInv, PrintedAfterwards
  <2> QED BY <2>2, <2>3, <2>4 DEF PrintInv
<1> QED BY <1>5, <1>6, <1>7, <1>8, <1>9, <1>10, <1>11, <1>12, <1>13, <1>14, <1>15, <1>16
        DEF Next, HashStep, HashProgram, FileProgram, Stopped

\* If both programs succeed, every line has become a record, with the size the
\* file has.
LEMMA PrintedIsListed ==
  ASSUME TypeInv, ListInv, PrintInv PROVE PipelineSealsAll
<1> SUFFICES ASSUME order.mode = "calculate", pass = "exited", status = "OK",
                    reader = "exited", answer = "OK",
                    NEW i \in DOMAIN args, NEW f \in FilesOf(args[i]) \ touched, Exists(f),
                    NEW t \in order.types
             PROVE  \E k \in DOMAIN list :
                      list[k] = [line |-> Line(t, f, disk[f]), size |-> SizeOf[disk[f]]]
  BY DEF PipelineSealsAll
<1>1. f \in Files
  BY PathsAreSpecs, FilesOfPath
<1>2. PICK k \in DOMAIN lines : lines[k] = Line(t, f, disk[f])
  BY DEF PrintInv, PrintedAfterwards, AllPathsPrinted, PathPrinted, FilePrinted, TypePrinted
<1>3. Made
  BY DEF Made
<1>4. list = records /\ Len(records) = taken /\ taken = sent /\ sent = Len(lines)
      /\ \A j \in 1..taken : records[j].line = lines[j]
  BY <1>3 DEF ListInv, PassRecords, ListMade, RecordForLine, NothingMissing, EndOfInput, Making
<1>5. /\ records \in Seq([line : TypedLines, size : Nat])
      /\ k \in 1..Len(records) /\ DOMAIN records = 1..Len(records)
  BY <1>2, <1>4 DEF TypeInv, PipeTypes, HashTypes
<1>6. records[k].line = Line(t, f, disk[f]) /\ records[k] \in [line : TypedLines, size : Nat]
  <2>1. k \in 1..taken
    BY <1>4, <1>5
  <2>2. records[k].line = lines[k]
    BY <1>4, <2>1
  <2>3. records[k] \in [line : TypedLines, size : Nat]
    BY <1>5, RecordAt
  <2> QED BY <1>2, <2>2, <2>3
<1>7. records[k].line.file = f
  BY <1>6 DEF Line
<1>8. records[k].size = SizeOf[disk[f]]
  BY <1>1, <1>5, <1>7 DEF ListInv, TrueSizes
<1>9. records[k] = [line |-> Line(t, f, disk[f]), size |-> SizeOf[disk[f]]]
  BY <1>6, <1>8
<1> QED BY <1>4, <1>5, <1>9

\* If both programs of the pipeline succeed, no file that nobody touched and no
\* selected type is missing from the list, for any command line: neither lost
\* in the walk, nor in the writer's buffer, nor in the pipe.
THEOREM PipelineIsComplete == Spec => []PipelineSealsAll
<1>1. Spec => [](TypeInv /\ ListInv)
  BY ListInvAlways
<1>2. Spec => []PrintInv
  BY <1>1, PrintInvInit, PrintInvStep, PTL DEF Spec
<1>3. TypeInv /\ ListInv /\ PrintInv => PipelineSealsAll
  BY PrintedIsListed
<1> QED BY <1>1, <1>2, <1>3, PTL

(***************************************************************************)
(* Progress.  The bytes the program has to read are a set: a slot is one   *)
(* visit of the walk, <<index of the path, number in a sequence, file>>,   *)
(* and has the bytes of its file.  The sizes that are added up are then    *)
(* the cardinality of the bytes of the slots the walk has passed.          *)
(***************************************************************************)
Size(f) == IF Exists(f) THEN SizeOf[disk[f]] ELSE 0

Bytes(S) == UNION {{s} \X (1..Size(s[3])) : s \in S}

\* What a folder still has to deliver is there, as long as nobody changes files.
Present(p) == {f \in p.below : Exists(f)}

Slots(p, n) ==
  {<<n, 0, f>> : f \in Present(p)} \cup {<<n, k, p.files[k]>> : k \in DOMAIN p.files}

Before(n) == UNION {Slots(args[k], k) : k \in 1..(n - 1)}
All == Before(Len(args) + 1)

\* The slots of the path at hand whose callback has returned.
InFolderSoFar == {<<arg, 0, f>> : f \in Present(ThePath) \ (walk.must \cup {cur})}
InSequenceSoFar ==
  {<<arg, k, ThePath.files[k]>> : k \in 1..(walk.pos - IF cur = NoFile THEN 1 ELSE 2)}
Here ==
  IF walk.at = "folder" THEN InFolderSoFar
  ELSE IF walk.at = "number" THEN InSequenceSoFar ELSE {}

Passed == Before(arg) \cup Here

CurSlot ==
  <<arg, IF walk.at = "path" THEN 1 ELSE IF walk.at = "folder" THEN 0 ELSE walk.pos - 1, cur>>

\* Nobody else has changed the folder at hand.
Quiet ==
  /\ walk.may = {}
  /\ walk.at = "folder" =>
       /\ walk.must \subseteq Present(ThePath)
       /\ cur # NoFile => cur \in Present(ThePath) \ walk.must

Plain == CountsWhatItAnnounces(order)

SizesSoFar ==
  pass = "size" =>
    /\ Quiet /\ processed = 0
    /\ overall = "OK" => IsFiniteSet(Bytes(Passed)) /\ total = Cardinality(Bytes(Passed))

\* What has been counted of the file at hand.
DoneAndCounted == done \ {"xxhash64be"}
InHand == IF cur = NoFile THEN 0 ELSE Cardinality(DoneAndCounted) * Size(cur)
Due    == Cardinality(Bytes(Passed)) * TimesRead(order.types) + InHand

SumsSoFar ==
  pass = "hash" =>
    /\ Quiet
    /\ IsFiniteSet(Bytes(All)) /\ total = Cardinality(Bytes(All)) * TimesRead(order.types)
    /\ processed <= Due
    /\ overall = "OK" => processed = Due

CheckSoFar ==
  pass = "check" =>
    /\ processed = 0
    /\ cur # NoFile => total = Size(cur)
    /\ stream # {} => cur # NoFile /\ Exists(cur) /\ stream = {disk[cur]}

SizesAfterwards == pass = "exited" /\ status = "OK" => processed = total

ProgressInv ==
  touched = {} /\ Plain => SizesSoFar /\ SumsSoFar /\ CheckSoFar /\ SizesAfterwards

\* In the second pass xxhash64be is not counted, and with -h all is.
LEMMA CountedIs ==
  ASSUME order \in Orders, Plain
  PROVE  /\ order.mode = "calculate" =>
              \A t \in order.types : \A n : BytesCounted(t, n) = IF t = "xxhash64be" THEN 0 ELSE n
         /\ order.mode = "check" => \A n : BytesCounted(TypeOf(order), n) = n
<1>1. order.level \in {0, 1, 2}
  BY OrderShape DEF Levels
<1>2. ASSUME order.mode = "calculate", NEW t \in order.types, NEW n
      PROVE  BytesCounted(t, n) = IF t = "xxhash64be" THEN 0 ELSE n
  BY <1>1, <1>2 DEF BytesCounted, Plain, CountsWhatItAnnounces, TypesRead, VeryVerbose
<1>3. ASSUME order.mode = "check", NEW n PROVE BytesCounted(TypeOf(order), n) = n
  <2>1. CASE TypeOf(order) = "xxhash64be"
    BY <1>3, <2>1 DEF BytesCounted, Plain, CountsWhatItAnnounces, TypesRead, VeryVerbose
  <2>2. CASE TypeOf(order) # "xxhash64be"
    BY <2>2 DEF BytesCounted
  <2> QED BY <2>1, <2>2
<1> QED BY <1>2, <1>3

LEMMA SizeIsNumber ==
  ASSUME WalkTypeOK, NEW f \in Files PROVE Size(f) \in Nat
<1>1. disk[f] \in Contents \cup {Absent}
  BY DEF WalkTypeOK
<1> QED BY <1>1, SizeType DEF Size, Exists

LEMMA NoBytes == IsFiniteSet(Bytes({})) /\ Cardinality(Bytes({})) = 0
<1>1. Bytes({}) = {}
  BY DEF Bytes
<1> QED BY <1>1, FS_EmptySet

\* One more slot adds the size of its file.
LEMMA SlotAdded ==
  ASSUME NEW S, NEW s, s \notin S, Size(s[3]) \in Nat, IsFiniteSet(Bytes(S))
  PROVE  /\ IsFiniteSet(Bytes(S \cup {s}))
         /\ Cardinality(Bytes(S \cup {s})) = Cardinality(Bytes(S)) + Size(s[3])
<1> DEFINE n == Size(s[3])
           A == Bytes(S)
           B == {s} \X (1..n)
<1>1. Bytes(S \cup {s}) = A \cup B
  BY DEF Bytes
<1>2. A \cap B = {}
  BY DEF Bytes
<1>3. n \in Nat /\ IsFiniteSet(A)
  OBVIOUS
<1> HIDE DEF A, n
<1>4. IsFiniteSet(1..n) /\ Cardinality(1..n) = n
  <2>1. IsFiniteSet(1..n) /\ Cardinality(1..n) = IF 1 > n THEN 0 ELSE n - 1 + 1
    BY ONLY <1>3, FS_Interval, 1 \in Int
  <2> QED BY ONLY <1>3, <2>1
<1>5. IsFiniteSet({s}) /\ Cardinality({s}) = 1
  BY FS_Singleton
<1>6. IsFiniteSet(B) /\ Cardinality(B) = n
  <2> DEFINE I == 1..n
             J == {s}
  <2>1. IsFiniteSet(I) /\ Cardinality(I) = n /\ IsFiniteSet(J) /\ Cardinality(J) = 1
    BY ONLY <1>4, <1>5
  <2> HIDE DEF I, J
  <2>2. IsFiniteSet(J \X I) /\ Cardinality(J \X I) = Cardinality(J) * Cardinality(I)
    BY ONLY <2>1, FS_Product
  <2>3. Cardinality(J \X I) = n
    BY ONLY <1>3, <2>1, <2>2
  <2> QED BY ONLY <2>2, <2>3 DEF I, J
<1> HIDE DEF B
<1>7. IsFiniteSet(A \cup B)
      /\ Cardinality(A \cup B) = Cardinality(A) + Cardinality(B) - Cardinality(A \cap B)
  BY ONLY <1>3, <1>6, FS_Union
<1>8. Cardinality(A \cap B) = 0 /\ Cardinality(A) \in Nat
  BY ONLY <1>2, <1>3, FS_EmptySet, FS_CardinalityType
<1>9. Cardinality(A \cup B) = Cardinality(A) + n
  BY ONLY <1>3, <1>6, <1>7, <1>8
<1> QED BY ONLY <1>1, <1>7, <1>9 DEF A, n

LEMMA FewerSlots ==
  ASSUME NEW S, NEW T, S \subseteq T, IsFiniteSet(Bytes(T))
  PROVE  /\ IsFiniteSet(Bytes(S)) /\ Cardinality(Bytes(S)) \in Nat
         /\ Cardinality(Bytes(T)) \in Nat
         /\ Cardinality(Bytes(S)) <= Cardinality(Bytes(T))
<1>1. Bytes(S) \in SUBSET Bytes(T)
  BY DEF Bytes
<1> QED BY <1>1, FS_Subset, FS_CardinalityType

\* Sizes and bytes change only with the files.
LEMMA SameBytes ==
  ASSUME UNCHANGED disk
  PROVE  /\ \A f : Size(f)' = Size(f) /\ Exists(f)' = Exists(f)
         /\ \A p : Present(p)' = Present(p)
         /\ \A p, n : Slots(p, n)' = Slots(p, n)
<1>1. \A f : Size(f)' = Size(f) /\ Exists(f)' = Exists(f)
  BY DEF Size, Exists
<1>2. \A p : Present(p)' = Present(p)
  BY <1>1 DEF Present
<1> QED BY <1>1, <1>2 DEF Slots

LEMMA BytesOfSet ==
  ASSUME UNCHANGED disk, NEW S PROVE Bytes(S)' = Bytes(S)
BY SameBytes DEF Bytes

(***************************************************************************)
(* How the walk passes the slots.                                          *)
(***************************************************************************)
LEMMA BeforeNext ==
  ASSUME NEW n \in Nat \ {0}
  PROVE  Before(n + 1) = Before(n) \cup Slots(args[n], n)
<1>1. 1..(n + 1 - 1) = (1..(n - 1)) \cup {n}
  OBVIOUS
<1> QED BY <1>1 DEF Before

LEMMA BeforeGrows ==
  ASSUME NEW m \in Nat, NEW n \in Nat, m <= n PROVE Before(m) \subseteq Before(n)
BY DEF Before

LEMMA SlotIndex ==
  ASSUME NEW n, NEW p, NEW s \in Slots(p, n) PROVE s[1] = n
BY DEF Slots

LEMMA SlotsBefore ==
  ASSUME NEW n \in Nat, NEW s \in Before(n) PROVE s[1] \in 1..(n - 1)
BY SlotIndex DEF Before

LEMMA PlaceOf ==
  ASSUME WalkOK
  PROVE  /\ args \in Seq(PathSpec) /\ Len(args) \in Nat /\ arg \in 1..(Len(args) + 1)
         /\ walk.at \in {"path", "folder", "probe", "number"} /\ walk.pos \in Nat
         /\ walk \in Places /\ (walk.at # "path" => arg <= Len(args))
BY ArgWalkAssumption DEF ArgWalkAssumption, WalkOK, WalkTypeOK, WalkShape, Places

LEMMA HereIsOfPath ==
  ASSUME WalkOK, walk.at \in {"folder", "number"}
  PROVE  Here \subseteq Slots(ThePath, arg)
<1>1. CASE walk.at = "folder"
  BY <1>1 DEF Here, InFolderSoFar, Slots
<1>2. CASE walk.at = "number"
  <2>1. arg <= Len(args) /\ walk.pos \in 1..(Len(ThePath.files) + 1)
    BY <1>2, PlaceOf DEF WalkOK, WalkShape
  <2>2. ThePath.files \in Seq(Files)
    BY <2>1, ThePathType DEF WalkOK, PathSpec
  <2>3. 1..(walk.pos - IF cur = NoFile THEN 1 ELSE 2) \subseteq DOMAIN ThePath.files
    BY <2>1, <2>2
  <2> QED BY <1>2, <2>3 DEF Here, InSequenceSoFar, Slots
<1> QED BY <1>1, <1>2

LEMMA PassedIsPart == ASSUME WalkOK PROVE Passed \subseteq All
<1>1. /\ Len(args) \in Nat /\ arg \in 1..(Len(args) + 1)
      /\ walk.at \notin {"folder", "number"} => Here = {}
      /\ walk.at \in {"folder", "number"} => arg <= Len(args)
  BY PlaceOf DEF Here
<1>2. Before(arg) \subseteq All
  BY <1>1, BeforeGrows DEF All
<1>3. CASE walk.at \in {"folder", "number"}
  <2>1. Before(arg + 1) \subseteq All
    BY <1>1, <1>3, BeforeGrows DEF All
  <2>2. Before(arg + 1) = Before(arg) \cup Slots(ThePath, arg)
    BY <1>1, BeforeNext DEF ThePath
  <2> QED BY <1>3, <2>1, <2>2, HereIsOfPath DEF Passed
<1> QED BY <1>1, <1>2, <1>3 DEF Passed

LEMMA SamePaths ==
  ASSUME UNCHANGED <<disk, args>>
  PROVE  \A n : Before(n)' = Before(n)
BY SameBytes DEF Before

\* At the end of a path all its slots have been passed, as far as they will be.
LEMMA PathPassed ==
  ASSUME WalkOK, arg <= Len(args), NEW res, NextPath(res), UNCHANGED <<disk, args>>
  PROVE  /\ Quiet' /\ Passed' = Before(arg) \cup Slots(ThePath, arg) /\ Passed' \subseteq All
         /\ overall' = "OK" => res = "OK" /\ overall = "OK"
<1>1. walk' = Idle /\ arg' = arg + 1 /\ Idle.at = "path" /\ Idle.may = {}
  BY DEF NextPath, Idle
<1>2. Quiet' /\ Here' = {}
  BY <1>1 DEF Quiet, Here
<1>3. Before(arg)' = Before(arg + 1)
  BY <1>1, SameBytes DEF Before
<1>4. Before(arg + 1) = Before(arg) \cup Slots(ThePath, arg)
  <2>1. arg \in Nat \ {0}
    BY PlaceOf
  <2> QED BY <2>1, BeforeNext DEF ThePath
<1>5. overall' = "OK" => res = "OK" /\ overall = "OK"
  BY DEF NextPath
<1>6. Passed' = Before(arg)' \cup Here'
  BY DEF Passed
<1>7. Before(arg + 1) \subseteq All
  <2>1. arg + 1 \in Nat /\ Len(args) + 1 \in Nat /\ arg + 1 <= Len(args) + 1
    BY PlaceOf
  <2> QED BY <2>1, BeforeGrows DEF All
<1> QED BY <1>2, <1>3, <1>4, <1>5, <1>6, <1>7

\* A step of the walk passes nothing unless it finds an error.
LEMMA WalkPasses ==
  ASSUME WalkOK, Quiet, Walk
  PROVE  /\ cur = NoFile /\ Quiet' /\ Passed \subseteq Passed' /\ Passed' \subseteq All
         /\ overall' = "OK" => overall = "OK" /\ Passed' = Passed
<1>0. /\ UNCHANGED <<disk, args>> /\ WalkShape /\ WalkTypeOK
      /\ Len(args) \in Nat /\ arg \in 1..(Len(args) + 1)
      /\ walk \in Places /\ walk.pos \in Nat /\ (walk.at # "path" => arg <= Len(args))
      /\ \A p : Present(p)' = Present(p)
      /\ \A n : Before(n)' = Before(n)
  BY PlaceOf, WalkKeepsArgs, SameBytes, SamePaths DEF WalkOK, diskVars
\* Steps that end the path at hand.
<1>1. ASSUME arg <= Len(args), NEW res, NextPath(res), cur = NoFile,
             res = "OK" => Here = Slots(ThePath, arg)
      PROVE  /\ Quiet' /\ Passed \subseteq Passed' /\ Passed' \subseteq All
             /\ overall' = "OK" => overall = "OK" /\ Passed' = Passed
  <2>1. /\ Quiet' /\ Passed' = Before(arg) \cup Slots(ThePath, arg) /\ Passed' \subseteq All
        /\ overall' = "OK" => res = "OK" /\ overall = "OK"
    BY <1>0, <1>1, PathPassed
  <2>2. Here \subseteq Slots(ThePath, arg)
    BY HereIsOfPath DEF Here
  <2> QED BY <1>1, <2>1, <2>2 DEF Passed
\* Steps that stay at the path and in the part of it that has been passed.
<1>2. ASSUME UNCHANGED <<arg, overall>>, Here' = Here, Quiet'
      PROVE  /\ Quiet' /\ Passed \subseteq Passed' /\ Passed' \subseteq All
             /\ overall' = "OK" => overall = "OK" /\ Passed' = Passed
  <2>1. Before(arg)' = Before(arg)
    BY <1>0, <1>2, SameBytes DEF Before
  <2> QED BY <1>2, <2>1, PassedIsPart DEF Passed
<1>3. CASE MissingPath
  <2>1. arg <= Len(args) /\ NextPath("NO_SUCH_FILE") /\ cur = NoFile
    BY <1>3 DEF MissingPath
  <2> QED BY <1>1, <2>1
<1>4. CASE IgnorePath
  <2>1. arg <= Len(args) /\ NextPath("OK") /\ cur = NoFile /\ ThePath.kind = "other"
        /\ walk.at = "path"
    BY <1>4 DEF IgnorePath
  <2>2. ThePath.files = <<>> /\ ThePath.below = {}
    BY <1>0, <2>1, ThePathType
  <2>3. Slots(ThePath, arg) = {}
    BY <2>2 DEF Slots, Present
  <2>4. Here = {}
    BY <2>1 DEF Here
  <2> QED BY <1>1, <2>1, <2>3, <2>4
<1>5. CASE BeginFile
  <2>1. UNCHANGED <<arg, walk, overall>> /\ walk.at = "path" /\ cur = NoFile
    BY <1>5 DEF BeginFile
  <2>2. Here' = Here /\ Quiet'
    BY <2>1 DEF Here, Quiet
  <2> QED BY <1>2, <2>1, <2>2
<1>6. CASE BeginFolder
  <2>1. /\ UNCHANGED <<arg, cur, overall>> /\ walk.at = "path" /\ cur = NoFile
        /\ walk' = InFolder(Present(ThePath)) /\ ThePath' = ThePath
    BY <1>0, <1>6 DEF BeginFolder, Present, ThePath
  <2>2. /\ walk'.at = "folder" /\ walk'.must = Present(ThePath) /\ walk'.may = {}
    BY <2>1 DEF InFolder, Idle
  <2>3. Present(ThePath)' = Present(ThePath)
    BY <1>0, <2>1 DEF Present, Exists
  <2>4. Quiet'
    BY <2>1, <2>2, <2>3 DEF Quiet
  <2>5. Here = {} /\ Here' = {}
    BY <2>1, <2>2, <2>3 DEF Here, InFolderSoFar
  <2> QED BY <1>2, <2>1, <2>4, <2>5
<1>7. CASE VisitEntry
  <2>1. PICK f \in walk.must \cup walk.may :
          cur' = f /\ walk' = [walk EXCEPT !.must = @ \ {f}, !.may = @ \ {f}]
    BY <1>7 DEF VisitEntry
  <2>2. /\ UNCHANGED <<arg, overall>> /\ walk.at = "folder" /\ cur = NoFile
        /\ ThePath' = ThePath
    BY <1>0, <1>7 DEF VisitEntry, ThePath
  <2>3. f \in walk.must /\ walk.must \subseteq Present(ThePath) /\ walk.may = {}
    BY <2>1, <2>2 DEF Quiet
  <2>4. walk'.at = "folder" /\ walk'.must = walk.must \ {f} /\ walk'.may = {}
    BY <1>0, <2>1, <2>2, <2>3 DEF Places
  <2>5. Present(ThePath)' = Present(ThePath)
    BY <1>0, <2>2 DEF Present, Exists
  <2>6. Quiet'
    BY <2>1, <2>3, <2>4, <2>5 DEF Quiet
  <2>7. NoFile \notin Present(ThePath)
    <3>1. ThePath \in PathSpec
      BY <1>0, <2>2, ThePathType
    <3> QED BY <3>1, ArgWalkAssumption DEF ArgWalkAssumption, PathSpec, Present
  <2>8. (Present(ThePath) \ (walk.must \cup {cur}))' = Present(ThePath) \ (walk.must \cup {cur})
    BY <2>1, <2>2, <2>3, <2>4, <2>5, <2>7
  <2>9. Here' = Here
    BY <2>2, <2>4, <2>8 DEF Here, InFolderSoFar
  <2> QED BY <1>2, <2>2, <2>6, <2>9
<1>8. CASE EndFolder
  <2>1. arg <= Len(args) /\ NextPath("OK") /\ cur = NoFile /\ walk.at = "folder"
        /\ walk.must = {}
    BY <1>0, <1>8 DEF EndFolder
  <2>2. ThePath \in PathSpec /\ ThePath.files = <<>>
    BY <1>0, <2>1, ThePathType DEF WalkShape
  <2>3. NoFile \notin Present(ThePath)
    BY <2>2, ArgWalkAssumption DEF ArgWalkAssumption, PathSpec, Present
  <2>4. Here = Slots(ThePath, arg)
    BY <2>1, <2>2, <2>3 DEF Here, InFolderSoFar, Slots
  <2> QED BY <1>1, <2>1, <2>4
<1>9. CASE FolderFails
  <2>1. arg <= Len(args) /\ NextPath("IO_ERROR") /\ cur = NoFile
    BY <1>0, <1>9 DEF FolderFails
  <2> QED BY <1>1, <2>1
<1>10. CASE BeginSequence
  <2>1. UNCHANGED <<arg, cur, overall>> /\ walk.at = "path" /\ cur = NoFile /\ walk' = Probing
    BY <1>10 DEF BeginSequence
  <2>2. walk'.at = "probe" /\ walk'.may = {}
    BY <2>1 DEF Probing, Idle
  <2>3. Here' = Here /\ Quiet'
    BY <2>1, <2>2 DEF Here, Quiet
  <2> QED BY <1>2, <2>1, <2>3
<1>11. CASE ProbeNumber
  <2>1. UNCHANGED <<arg, cur, overall>> /\ walk.at = "probe" /\ cur = NoFile
        /\ walk'.at = "probe" /\ walk'.may = walk.may
    BY <1>0, <1>11 DEF ProbeNumber, WalkShape, Places
  <2>2. Here' = Here /\ Quiet'
    BY <2>1 DEF Here, Quiet
  <2> QED BY <1>2, <2>1, <2>2
<1>12. CASE ProbesDone
  <2>1. walk.at = "probe" /\ cur = NoFile /\ cur' = NoFile /\ arg <= Len(args)
    BY <1>0, <1>12 DEF ProbesDone, WalkShape
  <2>2. CASE walk.gap
    BY <1>1, <1>12, <2>1, <2>2 DEF ProbesDone
  <2>3. CASE ~walk.gap
    <3>1. UNCHANGED <<arg, overall>> /\ walk' = Numbering
      BY <1>12, <2>3 DEF ProbesDone
    <3>2. walk'.at = "number" /\ walk'.pos = 1 /\ walk'.may = {}
      BY <3>1 DEF Numbering, Idle
    <3>3. Here = {} /\ Here' = {} /\ Quiet'
      BY <2>1, <3>2 DEF Here, InSequenceSoFar, Quiet
    <3> QED BY <1>2, <2>1, <3>1, <3>3
  <2> QED BY <2>2, <2>3
<1>13. CASE VisitNumber
  <2>1. /\ UNCHANGED <<arg, overall>> /\ walk.at = "number" /\ cur = NoFile
        /\ walk.pos <= Len(ThePath.files) /\ cur' = ThePath.files[walk.pos]
        /\ walk' = [walk EXCEPT !.pos = @ + 1] /\ ThePath' = ThePath
    BY <1>0, <1>13 DEF VisitNumber, ThePath
  <2>2. walk'.at = "number" /\ walk'.pos = walk.pos + 1 /\ walk'.may = walk.may
    BY <1>0, <2>1 DEF Places
  <2>3. walk.pos >= 1 /\ ThePath.files \in Seq(Files)
    BY <1>0, <2>1, ThePathType DEF WalkShape, PathSpec
  <2>4. cur' \in Files /\ cur' # NoFile
    BY <1>0, <2>1, <2>3, ArgWalkAssumption DEF ArgWalkAssumption
  <2>5. (walk.pos - IF cur = NoFile THEN 1 ELSE 2)' = walk.pos - IF cur = NoFile THEN 1 ELSE 2
    BY <1>0, <2>1, <2>2, <2>4
  <2>6. Here' = Here /\ Quiet'
    BY <2>1, <2>2, <2>5 DEF Here, InSequenceSoFar, Quiet
  <2> QED BY <1>2, <2>1, <2>6
<1>14. CASE EndSequence
  <2>1. arg <= Len(args) /\ NextPath("OK") /\ cur = NoFile /\ walk.at = "number"
        /\ walk.pos > Len(ThePath.files)
    BY <1>0, <1>14 DEF EndSequence
  <2>2. /\ ThePath.files \in Seq(Files) /\ ThePath.below = {}
        /\ walk.pos \in 1..(Len(ThePath.files) + 1)
    BY <1>0, <2>1, ThePathType DEF WalkShape, PathSpec
  <2>3. 1..(walk.pos - IF cur = NoFile THEN 1 ELSE 2) = DOMAIN ThePath.files
    BY <2>1, <2>2
  <2>4. Present(ThePath) = {}
    BY <2>2 DEF Present
  <2>5. Here = Slots(ThePath, arg)
    BY <2>1, <2>3, <2>4 DEF Here, InSequenceSoFar, Slots
  <2> QED BY <1>1, <2>1, <2>5
<1>15. CASE RefuseSequence
  <2>1. arg <= Len(args) /\ NextPath("INVALID_SEQUENCE") /\ cur = NoFile
    BY <1>15 DEF RefuseSequence
  <2> QED BY <1>1, <2>1
<1>16. cur = NoFile
  BY <1>0 DEF Walk, MissingPath, IgnorePath, BeginFile, BeginFolder, VisitEntry, EndFolder,
              FolderFails, RefuseSequence, BeginSequence, ProbeNumber, ProbesDone,
              VisitNumber, EndSequence, WalkShape
<1> QED BY <1>3, <1>4, <1>5, <1>6, <1>7, <1>8, <1>9, <1>10, <1>11, <1>12, <1>13, <1>14, <1>15,
           <1>16 DEF Walk

\* The file at hand has a slot of its own, which has not been passed.
LEMMA CurSlotIs ==
  ASSUME WalkOK, Quiet, cur # NoFile
  PROVE  /\ CurSlot \notin Passed /\ CurSlot \in All /\ CurSlot[3] = cur
         /\ CurSlot \in Slots(ThePath, arg)
         /\ walk.at = "path" => Slots(ThePath, arg) = {CurSlot}
         /\ walk.at \in {"path", "folder", "number"} /\ arg <= Len(args)
<1>0. /\ WalkShape /\ WalkTypeOK
      /\ Len(args) \in Nat /\ arg \in 1..(Len(args) + 1) /\ arg \in Nat
      /\ walk \in Places /\ walk.pos \in Nat /\ arg <= Len(args)
      /\ walk.at \in {"path", "folder", "number"}
      /\ CurSlot[1] = arg /\ CurSlot[3] = cur
  BY PlaceOf DEF WalkOK, WalkShape, CurSlot
<1>1. ThePath \in PathSpec /\ ThePath.files \in Seq(Files)
  BY <1>0, ThePathType DEF PathSpec
<1>2. CurSlot \notin Before(arg)
  BY <1>0, SlotsBefore
<1>3. CurSlot \notin Here
  <2>1. CASE walk.at = "path"
    BY <2>1 DEF Here
  <2>2. CASE walk.at = "folder"
    BY <2>2 DEF Here, InFolderSoFar, CurSlot
  <2>3. CASE walk.at = "number"
    BY <1>0, <2>3 DEF Here, InSequenceSoFar, CurSlot
  <2> QED BY <1>0, <2>1, <2>2, <2>3
<1>4. CurSlot \in Slots(ThePath, arg) /\ (walk.at = "path" => Slots(ThePath, arg) = {CurSlot})
  <2>1. CASE walk.at = "path"
    <3>1. ThePath.kind = "file" /\ cur = ThePath.files[1]
      BY <1>0, <2>1 DEF WalkShape
    <3>2. Len(ThePath.files) = 1 /\ ThePath.below = {}
      BY <1>0, <3>1, ThePathType
    <3>3. DOMAIN ThePath.files = {1} /\ Present(ThePath) = {}
      BY <1>1, <3>2 DEF Present
    <3> QED BY <2>1, <3>1, <3>3 DEF Slots, CurSlot
  <2>2. CASE walk.at = "folder"
    BY <2>2 DEF Slots, CurSlot, Quiet
  <2>3. CASE walk.at = "number"
    <3>1. /\ walk.pos \in 1..(Len(ThePath.files) + 1) /\ walk.pos > 1
          /\ cur = ThePath.files[walk.pos - 1]
      BY <1>0, <2>3 DEF WalkShape
    <3>2. walk.pos - 1 \in DOMAIN ThePath.files
      BY <1>1, <3>1
    <3> QED BY <2>3, <3>1, <3>2 DEF Slots, CurSlot
  <2> QED BY <1>0, <2>1, <2>2, <2>3
<1>5. Slots(ThePath, arg) \subseteq All
  BY <1>0 DEF All, Before, ThePath
<1> QED BY <1>0, <1>2, <1>3, <1>4, <1>5 DEF Passed

\* This slot is passed when its callback returns.
LEMMA CallbackPasses ==
  ASSUME WalkOK, Quiet, cur # NoFile, NEW res, CallbackReturns(res), UNCHANGED diskVars
  PROVE  /\ Quiet' /\ CurSlot \notin Passed /\ CurSlot[3] = cur
         /\ Passed \cup {CurSlot} \subseteq Passed' /\ Passed' \subseteq All
         /\ overall' = "OK" => /\ res = "OK" /\ overall = "OK"
                               /\ Passed' = Passed \cup {CurSlot}
<1>0. /\ UNCHANGED <<disk, args>> /\ WalkShape /\ WalkTypeOK /\ cur' = NoFile
      /\ Len(args) \in Nat /\ arg \in 1..(Len(args) + 1) /\ arg \in Nat
      /\ walk \in Places /\ walk.pos \in Nat /\ arg <= Len(args)
      /\ walk.at \in {"path", "folder", "number"}
  BY PlaceOf, CurSlotIs DEF WalkOK, diskVars, CallbackReturns
<1>1. ThePath \in PathSpec
  BY <1>0, ThePathType
<1>2. /\ CurSlot \notin Passed /\ CurSlot \in All /\ CurSlot[3] = cur
      /\ CurSlot \in Slots(ThePath, arg)
      /\ walk.at = "path" => Slots(ThePath, arg) = {CurSlot}
  BY CurSlotIs
<1>3. Here \subseteq Slots(ThePath, arg)
  BY HereIsOfPath DEF Here
<1>4. ASSUME NextPath(res), res = "OK" => walk.at = "path"
      PROVE  /\ Quiet' /\ Passed \cup {CurSlot} \subseteq Passed' /\ Passed' \subseteq All
             /\ overall' = "OK" => /\ res = "OK" /\ overall = "OK"
                                   /\ Passed' = Passed \cup {CurSlot}
  <2>1. /\ Quiet' /\ Passed' = Before(arg) \cup Slots(ThePath, arg) /\ Passed' \subseteq All
        /\ overall' = "OK" => res = "OK" /\ overall = "OK"
    BY <1>0, <1>4, PathPassed
  <2>2. walk.at = "path" => Here = {}
    BY DEF Here
  <2> QED BY <1>2, <1>3, <1>4, <2>1, <2>2 DEF Passed
<1>5. ASSUME UNCHANGED <<arg, walk, overall>>, res = "OK", walk.at # "path"
      PROVE  /\ Quiet' /\ Passed \cup {CurSlot} \subseteq Passed' /\ Passed' \subseteq All
             /\ overall' = "OK" => /\ res = "OK" /\ overall = "OK"
                                   /\ Passed' = Passed \cup {CurSlot}
  <2>1. ThePath' = ThePath /\ Present(ThePath)' = Present(ThePath)
    BY <1>0, <1>5 DEF ThePath, Present, Exists
  <2>2. Before(arg)' = Before(arg)
    BY <1>0, <1>5, SameBytes DEF Before
  <2>3. Quiet'
    BY <1>0, <1>5, <2>1 DEF Quiet
  <2>4. Here' = Here \cup {CurSlot}
    <3>1. CASE walk.at = "folder"
      <4>1. NoFile \notin Present(ThePath)
        BY <1>1, ArgWalkAssumption DEF ArgWalkAssumption, PathSpec, Present
      <4>2. cur \in Present(ThePath) \ walk.must
        BY <3>1 DEF Quiet
      <4>3. Present(ThePath) \ (walk.must \cup {NoFile}) =
              (Present(ThePath) \ (walk.must \cup {cur})) \cup {cur}
        BY <4>1, <4>2
      <4>4. Here' = {<<arg, 0, f>> : f \in Present(ThePath) \ (walk.must \cup {NoFile})}
        BY <1>0, <1>5, <2>1, <3>1 DEF Here, InFolderSoFar
      <4>5. Here = {<<arg, 0, f>> : f \in Present(ThePath) \ (walk.must \cup {cur})}
            /\ CurSlot = <<arg, 0, cur>>
        BY <3>1 DEF Here, InFolderSoFar, CurSlot
      <4> QED BY ONLY <4>3, <4>4, <4>5
    <3>2. CASE walk.at = "number"
      <4>1. walk.pos > 1 /\ cur = ThePath.files[walk.pos - 1]
        BY <1>0, <3>2 DEF WalkShape
      <4>2. 1..(walk.pos - 1) = (1..(walk.pos - 2)) \cup {walk.pos - 1}
        BY <1>0, <4>1
      <4>3. Here' = {<<arg, k, ThePath.files[k]>> : k \in 1..(walk.pos - 1)}
        BY <1>0, <1>5, <2>1, <3>2 DEF Here, InSequenceSoFar
      <4>4. Here = {<<arg, k, ThePath.files[k]>> : k \in 1..(walk.pos - 2)}
            /\ CurSlot = <<arg, walk.pos - 1, ThePath.files[walk.pos - 1]>>
        BY <1>0, <3>2, <4>1 DEF Here, InSequenceSoFar, CurSlot
      <4> QED BY ONLY <4>2, <4>3, <4>4
    <3> QED BY <1>0, <1>5, <3>1, <3>2
  <2> QED BY <1>2, <1>5, <2>2, <2>3, <2>4, PassedIsPart DEF Passed
<1>6. \/ NextPath(res) /\ (res = "OK" => walk.at = "path")
      \/ UNCHANGED <<arg, walk, overall>> /\ res = "OK" /\ walk.at # "path"
  BY DEF CallbackReturns
<1> QED BY <1>2, <1>4, <1>5, <1>6

(***************************************************************************)
(* The steps of the program.                                               *)
(***************************************************************************)
LEMMA PassedStays ==
  ASSUME UNCHANGED <<disk, args, arg, walk, cur>>
  PROVE  Passed' = Passed /\ All' = All /\ (Quiet <=> Quiet')
<1>1. ThePath' = ThePath /\ Present(ThePath)' = Present(ThePath)
  BY DEF ThePath, Present, Exists
<1>2. Before(arg)' = Before(arg)
  BY SameBytes DEF Before
<1>3. Here' = Here
  BY <1>1 DEF Here, InFolderSoFar, InSequenceSoFar
<1>4. All' = All
  BY SamePaths DEF All
<1>5. Quiet <=> Quiet'
  BY <1>1 DEF Quiet
<1> QED BY <1>2, <1>3, <1>4, <1>5 DEF Passed

LEMMA AllStays == ASSUME UNCHANGED <<disk, args>> PROVE All' = All
BY SamePaths DEF All

LEMMA CurSlotAdded ==
  ASSUME WalkOK, Quiet, cur \in Files, NEW res, CallbackReturns(res), UNCHANGED diskVars,
         IsFiniteSet(Bytes(Passed))
  PROVE  /\ Quiet' /\ Size(cur) \in Nat
         /\ Cardinality(Bytes(Passed)) \in Nat
         /\ IsFiniteSet(Bytes(Passed \cup {CurSlot}))
         /\ Cardinality(Bytes(Passed \cup {CurSlot})) = Cardinality(Bytes(Passed)) + Size(cur)
         /\ Passed \cup {CurSlot} \subseteq Passed' /\ Passed' \subseteq All
         /\ overall' = "OK" => /\ res = "OK" /\ overall = "OK"
                               /\ Passed' = Passed \cup {CurSlot}
<1>1. cur # NoFile
  BY ArgWalkAssumption DEF ArgWalkAssumption
<1>2. Size(cur) \in Nat
  BY SizeIsNumber DEF WalkOK
<1>3. CurSlot \notin Passed /\ CurSlot[3] = cur
  BY <1>1, CallbackPasses
<1>4. Cardinality(Bytes(Passed)) \in Nat
  BY FS_CardinalityType
<1>5. IsFiniteSet(Bytes(Passed \cup {CurSlot}))
      /\ Cardinality(Bytes(Passed \cup {CurSlot})) = Cardinality(Bytes(Passed)) + Size(cur)
  <2>1. Size(CurSlot[3]) \in Nat /\ Size(CurSlot[3]) = Size(cur)
    BY <1>2, <1>3
  <2> QED BY <1>3, <2>1, SlotAdded
<1> QED BY <1>1, <1>2, <1>4, <1>5, CallbackPasses

\* The first pass adds up the sizes.
LEMMA SizesAdded ==
  ASSUME HashTypes, SizesSoFar, SizePass PROVE SizesSoFar'
<1>1. /\ pass = "size" /\ WalkOK /\ Quiet /\ processed' = 0 /\ UNCHANGED diskVars
      /\ cur \in Files \cup {NoFile} /\ UNCHANGED disk /\ total \in Nat
  BY WalkKeepsArgs DEF SizePass, HashTypes, HashTypeOK, Working, WalkOK, WalkTypeOK, SizesSoFar,
     SizeFile, diskVars
<1>2. CASE Walk /\ UNCHANGED total
  <2>1. /\ Quiet' /\ (overall' = "OK" => overall = "OK" /\ Passed' = Passed)
    BY <1>1, <1>2, WalkPasses
  <2>2. ASSUME overall' = "OK"
        PROVE  IsFiniteSet(Bytes(Passed)') /\ total' = Cardinality(Bytes(Passed)')
    <3>1. Bytes(Passed)' = Bytes(Passed)
      BY <1>1, <2>1, <2>2, SameBytes DEF Bytes
    <3> QED BY <1>1, <1>2, <2>1, <2>2, <3>1 DEF SizesSoFar
  <2> QED BY <1>1, <2>1, <2>2 DEF SizesSoFar
<1>3. CASE SizeFile /\ total' = total + IF Exists(cur) THEN SizeOf[disk[cur]] ELSE 0
  <2>1. PICK res : CallbackReturns(res)
    BY <1>3 DEF SizeFile
  <2>2. cur \in Files /\ cur # NoFile /\ total' = total + Size(cur)
    BY <1>1, <1>3 DEF SizeFile, Size
  <2>3. Quiet' /\ (overall' = "OK" => overall = "OK")
    BY <1>1, <2>1, <2>2, CallbackPasses
  <2>4. ASSUME overall' = "OK"
        PROVE  IsFiniteSet(Bytes(Passed)') /\ total' = Cardinality(Bytes(Passed)')
    <3>1. IsFiniteSet(Bytes(Passed)) /\ total = Cardinality(Bytes(Passed))
      BY <1>1, <2>3, <2>4 DEF SizesSoFar
    <3>2. /\ IsFiniteSet(Bytes(Passed \cup {CurSlot}))
          /\ Cardinality(Bytes(Passed \cup {CurSlot})) = Cardinality(Bytes(Passed)) + Size(cur)
          /\ Passed' = Passed \cup {CurSlot}
      BY <1>1, <2>1, <2>2, <2>4, <3>1, CurSlotAdded
    <3>3. Bytes(Passed)' = Bytes(Passed \cup {CurSlot})
      BY <1>1, <3>2, SameBytes DEF Bytes
    <3> QED BY <2>2, <3>1, <3>2, <3>3
  <2> QED BY <1>1, <2>3, <2>4 DEF SizesSoFar
<1> QED BY <1>2, <1>3, <1>1 DEF SizePass

\* The types the total is multiplied for, and those counted for the file at
\* hand.
LEMMA TypesCounted ==
  ASSUME NEW ts \in SUBSET Types, NEW ds \in SUBSET ts
  PROVE  LET ms == ds \ {"xxhash64be"}
         IN /\ TimesRead(ts) \in Nat
            /\ Cardinality(ms) \in Nat /\ Cardinality(ms) <= TimesRead(ts)
            /\ \A t \in ts \ ds :
                 Cardinality((ds \cup {t}) \ {"xxhash64be"}) =
                   Cardinality(ms) + IF t = "xxhash64be" THEN 0 ELSE 1
<1> DEFINE ms == ds \ {"xxhash64be"}
           ns == ts \ {"xxhash64be"}
<1>1. TimesRead(ts) = Cardinality(ns) /\ TimesRead(ts) \in Nat
  BY TimesReadType DEF TimesRead
<1>2. IsFiniteSet(ns)
  <2> DEFINE few == ((({} \cup {"md5"}) \cup {"sha1"}) \cup {"xxhash"}) \cup {"xxhash64"}
  <2>1. IsFiniteSet({} \cup {"md5"})
    BY FS_EmptySet, FS_AddElement
  <2>2. IsFiniteSet(({} \cup {"md5"}) \cup {"sha1"})
    BY <2>1, FS_AddElement
  <2>3. IsFiniteSet((({} \cup {"md5"}) \cup {"sha1"}) \cup {"xxhash"})
    BY <2>2, FS_AddElement
  <2>4. IsFiniteSet(few)
    BY <2>3, FS_AddElement
  <2>5. ns \in SUBSET few
    BY TheTypes
  <2> QED BY <2>4, <2>5, FS_Subset
<1>3. ms \in SUBSET ns
  OBVIOUS
<1>4. IsFiniteSet(ms) /\ Cardinality(ms) \in Nat /\ Cardinality(ms) <= Cardinality(ns)
  BY <1>2, <1>3, FS_Subset, FS_CardinalityType
<1>5. ASSUME NEW t \in ts \ ds
      PROVE  Cardinality((ds \cup {t}) \ {"xxhash64be"}) =
               Cardinality(ms) + IF t = "xxhash64be" THEN 0 ELSE 1
  <2>1. CASE t = "xxhash64be"
    <3>1. (ds \cup {t}) \ {"xxhash64be"} = ms
      BY <2>1
    <3>2. Cardinality((ds \cup {t}) \ {"xxhash64be"}) = Cardinality(ms)
      BY <3>1
    <3> HIDE DEF ms
    <3> QED BY <1>4, <2>1, <3>2
  <2>2. CASE t # "xxhash64be"
    <3>1. (ds \cup {t}) \ {"xxhash64be"} = ms \cup {t} /\ t \notin ms
      BY <2>2
    <3> QED BY <1>4, <2>2, <3>1, FS_AddElement
  <2> QED BY <2>1, <2>2
<1> QED BY <1>1, <1>4, <1>5

LEMMA ProductGrows ==
  ASSUME NEW a \in Nat, NEW b \in Nat, NEW t \in Nat, a <= b
  PROVE  a * t <= b * t /\ a * t \in Nat /\ b * t \in Nat
<1>1. PICK d \in Nat : b = a + d
  <2>1. b - a \in Nat /\ b = a + (b - a)
    OBVIOUS
  <2> QED BY <2>1
<1>2. b * t = a * t + d * t
  BY <1>1
<1>3. d * t \in Nat /\ a * t \in Nat
  BY ProductType
<1> QED BY <1>2, <1>3

\* What the invariant says in the second pass, in numbers.
LEMMA SumsAre ==
  ASSUME HashTypes, TypesSoFar, SumsSoFar, Plain, pass = "hash"
  PROVE  /\ WalkOK /\ Quiet /\ Passed \subseteq All
         /\ order.types \in SUBSET Types
         /\ \A t \in order.types : \A n : BytesCounted(t, n) = IF t = "xxhash64be" THEN 0 ELSE n
         /\ done \in SUBSET order.types /\ (cur = NoFile => done = {})
         /\ IsFiniteSet(Bytes(Passed)) /\ IsFiniteSet(Bytes(All))
         /\ Cardinality(Bytes(Passed)) \in Nat /\ TimesRead(order.types) \in Nat
         /\ Cardinality(DoneAndCounted) \in Nat /\ Cardinality(DoneAndCounted) <= TimesRead(order.types)
         /\ processed \in Nat /\ cur \in Files \cup {NoFile}
         /\ cur # NoFile => cur \in Files /\ Size(cur) \in Nat
<1>1. /\ WalkOK /\ Quiet /\ IsFiniteSet(Bytes(All)) /\ order.mode = "calculate"
      /\ order \in Orders /\ done \in SUBSET order.types /\ (cur = NoFile => done = {})
      /\ processed \in Nat /\ cur \in Files \cup {NoFile} /\ WalkTypeOK
  BY DEF HashTypes, HashTypeOK, Working, WalkOK, WalkTypeOK, TypesSoFar, SumsSoFar
<1>2. /\ order.types \in SUBSET Types
      /\ \A t \in order.types : \A n : BytesCounted(t, n) = IF t = "xxhash64be" THEN 0 ELSE n
  BY <1>1, OrderShape, CountedIs
<1>3. Passed \subseteq All
  BY <1>1, PassedIsPart
<1>4. IsFiniteSet(Bytes(Passed)) /\ Cardinality(Bytes(Passed)) \in Nat
  BY <1>1, <1>3, FewerSlots
<1>5. /\ TimesRead(order.types) \in Nat /\ Cardinality(DoneAndCounted) \in Nat
      /\ Cardinality(DoneAndCounted) <= TimesRead(order.types)
  BY <1>1, <1>2, TypesCounted DEF DoneAndCounted
<1>6. cur # NoFile => cur \in Files /\ Size(cur) \in Nat
  BY <1>1, SizeIsNumber
<1> QED BY <1>1, <1>2, <1>3, <1>4, <1>5, <1>6

\* The second pass begins.
LEMMA SumsBegin ==
  ASSUME HashTypes, TypesSoFar, SizesSoFar, Plain, EndSizePass, pass' = "hash"
  PROVE  SumsSoFar'
<1>1. /\ pass = "size" /\ WalkDone /\ RestartWalk /\ UNCHANGED <<diskVars, order, done, processed>>
      /\ total' = total * TimesRead(order.types) /\ overall = "OK"
  BY DEF EndSizePass, Exit
<1>2. /\ WalkOK /\ done = {} /\ processed = 0 /\ order.mode = "calculate" /\ cur = NoFile
      /\ IsFiniteSet(Bytes(Passed)) /\ total = Cardinality(Bytes(Passed))
      /\ UNCHANGED <<disk, args, cur>>
  BY <1>1 DEF HashTypes, HashTypeOK, Working, WalkOK, TypesSoFar, SizesSoFar, WalkDone, RestartWalk,
     diskVars
<1>3. Passed = All
  <2>1. arg = Len(args) + 1
    BY <1>1, <1>2, PlaceOf DEF WalkDone
  <2>2. Here = {}
    BY <1>1 DEF WalkDone, Here, Idle
  <2> QED BY <2>1, <2>2 DEF Passed, All
<1>4. Bytes(All)' = Bytes(All)
  BY <1>2, AllStays, SameBytes DEF Bytes
<1>5. walk' = Idle /\ arg' = 1 /\ Idle.at = "path" /\ Idle.may = {}
  BY <1>1 DEF RestartWalk, Idle
<1>6. Passed' = {} /\ Quiet'
  <2>1. Here' = {} /\ Quiet'
    BY <1>5 DEF Here, Quiet
  <2>2. Before(arg)' = {}
    BY <1>5 DEF Before
  <2> QED BY <2>1, <2>2 DEF Passed
<1>7. Due' = 0
  <2>1. Cardinality(Bytes(Passed)') = 0
    BY <1>6, NoBytes DEF Bytes
  <2>2. InHand' = 0
    BY <1>2 DEF InHand
  <2>3. TimesRead(order.types)' \in Nat
    BY <1>1, <1>2, OrderShape, TimesReadType DEF HashTypes, HashTypeOK
  <2> QED BY <2>1, <2>2, <2>3 DEF Due
<1>8. processed' = 0
  BY <1>1, <1>2
<1>9. IsFiniteSet(Bytes(All)') /\ total' = Cardinality(Bytes(All)') * TimesRead(order.types)'
  BY <1>1, <1>2, <1>3, <1>4
<1> QED BY <1>6, <1>7, <1>8, <1>9 DEF SumsSoFar

\* The walk reads nothing.
LEMMA SumsWalked ==
  ASSUME HashTypes, TypesSoFar, SumsSoFar, Plain, HashWalk
  PROVE  SumsSoFar'
<1>1. /\ pass = "hash" /\ Walk /\ UNCHANGED hashVars /\ UNCHANGED <<disk, args>>
  BY WalkKeepsArgs DEF HashWalk, diskVars
<1>2. /\ UNCHANGED <<order, done, total, processed>>
  BY <1>1 DEF hashVars
<1>3. /\ cur = NoFile /\ Quiet' /\ Passed \subseteq Passed' /\ Passed' \subseteq All
      /\ overall' = "OK" => overall = "OK" /\ Passed' = Passed
  BY <1>1, SumsAre, WalkPasses
<1>4. done = {}
  BY <1>1, <1>3, SumsAre
<1>5. /\ InHand = 0 /\ InHand' = 0
  <2>1. Cardinality(DoneAndCounted) = 0 /\ Cardinality(DoneAndCounted') = 0
    <3>1. DoneAndCounted = {} /\ DoneAndCounted' = {}
      BY <1>2, <1>4 DEF DoneAndCounted
    <3> QED BY <3>1, FS_EmptySet
  <2>2. cur' # NoFile => cur' \in Files /\ Size(cur)' \in Nat
    <3>1. WalkOK'
      BY <1>1, SumsAre, WalkStepOK
    <3>2. cur' \in Files \cup {NoFile} /\ disk' \in [Files -> Contents \cup {Absent}]
      BY <3>1 DEF WalkOK, WalkTypeOK
    <3> QED BY <3>2, SizeType DEF Size, Exists
  <2> QED BY <1>2, <1>3, <1>4, <2>1, <2>2 DEF InHand
<1>6. /\ Bytes(All)' = Bytes(All) /\ Bytes(Passed)' = Bytes(Passed')
  BY <1>1, AllStays, SameBytes DEF Bytes
<1> DEFINE t == TimesRead(order.types)
           c == Cardinality(Bytes(Passed))
           d == Cardinality(Bytes(Passed)')
<1>7. c \in Nat /\ d \in Nat /\ c <= d /\ t \in Nat
  <2>1. c \in Nat /\ t \in Nat /\ IsFiniteSet(Bytes(All))
    BY <1>1, SumsAre
  <2>2. IsFiniteSet(Bytes(Passed'))
    BY <1>3, <2>1, FewerSlots
  <2> QED BY <1>3, <1>6, <2>1, <2>2, FewerSlots
<1>8. processed <= c * t /\ (overall = "OK" => processed = c * t)
  BY <1>1, <1>5, <1>7, ProductType DEF SumsSoFar, Due
<1>9. Due' = d * t
  BY <1>2, <1>5, <1>7, ProductType DEF Due
<1>10. overall' = "OK" => d = c
  BY <1>3, <1>6, SameBytes
<1> HIDE DEF c, d, t
<1>11. processed \in Nat
  BY <1>1, SumsAre
<1>12. processed <= d * t /\ (overall' = "OK" => processed = d * t)
  <2>1. c * t <= d * t /\ c * t \in Nat /\ d * t \in Nat
    BY <1>7, ProductGrows
  <2> QED BY ONLY <1>3, <1>8, <1>10, <1>11, <2>1
<1>13. IsFiniteSet(Bytes(All)') /\ total' = Cardinality(Bytes(All)') * TimesRead(order.types)'
  BY <1>1, <1>2, <1>6 DEF SumsSoFar
<1> QED BY <1>2, <1>3, <1>9, <1>12, <1>13 DEF SumsSoFar

\* What has been read of a file counts with its slot when the callback returns:
\* all of its types, or less and an error.
LEMMA SumsReturned ==
  ASSUME HashTypes, TypesSoFar, SumsSoFar, Plain, HashCallback,
         NEW res, CallbackEnds(res), NEW x \in Nat, processed' = processed + x,
         Cardinality(DoneAndCounted) * Size(cur) + x <= Size(cur) * TimesRead(order.types),
         res = "OK" => x = 0 /\ Cardinality(DoneAndCounted) = TimesRead(order.types)
  PROVE  SumsSoFar'
<1> DEFINE t == TimesRead(order.types)
           c == Cardinality(Bytes(Passed))
           e == Cardinality(Bytes(Passed \cup {CurSlot}))
           d == Cardinality(Bytes(Passed)')
           s == Size(cur)
           n == Cardinality(DoneAndCounted)
<1>1. /\ pass = "hash" /\ pass' = "hash" /\ cur \in Files /\ CallbackReturns(res)
      /\ cur # NoFile /\ cur' = NoFile /\ UNCHANGED diskVars
      /\ UNCHANGED <<disk, args, order, total>>
  BY DEF HashCallback, CallbackEnds, CallbackReturns, HashTypes, HashTypeOK, WalkTypeOK, diskVars
<1>2. /\ WalkOK /\ Quiet /\ IsFiniteSet(Bytes(Passed)) /\ IsFiniteSet(Bytes(All))
      /\ t \in Nat /\ n \in Nat /\ processed \in Nat
  BY <1>1, SumsAre
<1>3. /\ Quiet' /\ s \in Nat /\ c \in Nat /\ e = c + s
      /\ IsFiniteSet(Bytes(Passed \cup {CurSlot}))
      /\ Passed \cup {CurSlot} \subseteq Passed' /\ Passed' \subseteq All
      /\ overall' = "OK" => res = "OK" /\ overall = "OK" /\ Passed' = Passed \cup {CurSlot}
  BY <1>1, <1>2, CurSlotAdded
<1>4. /\ Bytes(All)' = Bytes(All) /\ Bytes(Passed)' = Bytes(Passed')
  BY <1>1, AllStays, SameBytes DEF Bytes
<1>5. d \in Nat /\ e <= d /\ (overall' = "OK" => d = e)
  <2>1. IsFiniteSet(Bytes(Passed'))
    BY <1>2, <1>3, FewerSlots
  <2>2. e <= d /\ d \in Nat
    BY <1>3, <1>4, <2>1, FewerSlots
  <2> QED BY <1>3, <1>4, <2>2
<1>6. Due' = d * t
  <2>1. InHand' = 0
    BY <1>1 DEF InHand
  <2>2. d * t \in Nat
    BY <1>2, <1>5, ProductType
  <2> QED BY <1>1, <2>1, <2>2 DEF Due
<1>7. Due = c * t + n * s
  BY <1>1 DEF Due, InHand
<1>8. processed <= c * t + n * s /\ (overall = "OK" => processed = c * t + n * s)
  BY <1>1, <1>7 DEF SumsSoFar
<1>9. n * s + x <= s * t /\ (res = "OK" => x = 0 /\ n = t) /\ processed' = processed + x
  OBVIOUS
<1> HIDE DEF t, c, d, e, s, n
<1>10. processed' <= d * t /\ (overall' = "OK" => processed' = d * t)
  <2>1. /\ c * t \in Nat /\ n * s \in Nat /\ s * t \in Nat
        /\ e * t <= d * t /\ e * t \in Nat /\ d * t \in Nat
    BY ONLY <1>2, <1>3, <1>5, ProductType, ProductGrows
  <2>2. e * t = c * t + s * t
    BY ONLY <1>2, <1>3
  <2>3. n = t => n * s = s * t
    BY ONLY <1>2, <1>3
  <2> DEFINE ct == c * t
             ns == n * s
             st == s * t
             et == e * t
             dt == d * t
  <2> HIDE DEF ct, ns, st, et, dt
  <2>4. /\ ct \in Nat /\ ns \in Nat /\ st \in Nat /\ et \in Nat /\ dt \in Nat /\ et <= dt
        /\ et = ct + st /\ (n = t => ns = st) /\ ns + x <= st
        /\ processed <= ct + ns /\ (overall = "OK" => processed = ct + ns)
        /\ (d = e => dt = et)
    BY ONLY <1>8, <1>9, <2>1, <2>2, <2>3 DEF ct, ns, st, et, dt
  <2>5. processed' <= dt /\ (overall' = "OK" => processed' = dt)
    BY ONLY <1>2, <1>3, <1>5, <1>9, <2>4, x \in Nat
  <2> QED BY ONLY <2>5 DEF dt
<1>11. IsFiniteSet(Bytes(All)') /\ total' = Cardinality(Bytes(All)') * TimesRead(order.types)'
  BY <1>1, <1>4 DEF SumsSoFar
<1> QED BY <1>3, <1>6, <1>10, <1>11 DEF SumsSoFar

\* The type at hand is one more that has been read.
LEMMA SumsPrinted ==
  ASSUME HashTypes, TypesSoFar, SumsSoFar, TrueStream, touched = {}, Plain, PrintSum
  PROVE  SumsSoFar'
<1> DEFINE t == TimesRead(order.types)
           c == Cardinality(Bytes(Passed))
           s == Size(cur)
           n == Cardinality(DoneAndCounted)
           x == IF NextType = "xxhash64be" THEN 0 ELSE s
           y == IF NextType = "xxhash64be" THEN 0 ELSE 1
<1>1. /\ pass = "hash" /\ cur \in Files /\ cur # NoFile /\ stream # {} /\ WalkTypeOK
      /\ UNCHANGED <<disk, args, arg, walk, cur, order, total, overall>>
      /\ done' = done \cup {NextType} /\ stream \subseteq Contents
  BY DEF PrintSum, HashCallback, HashTypes, HashTypeOK, WalkTypeOK, StreamTypeOK, diskVars, walkVars
<1>2. /\ order.types \in SUBSET Types
      /\ \A u \in order.types : \A k : BytesCounted(u, k) = IF u = "xxhash64be" THEN 0 ELSE k
      /\ done \in SUBSET order.types /\ t \in Nat /\ n \in Nat /\ s \in Nat /\ c \in Nat
      /\ IsFiniteSet(Bytes(Passed)) /\ processed \in Nat
  BY <1>1, SumsAre
<1>3. NextType \in order.types \ done
  <2>1. done # order.types
    BY <1>1 DEF HashTypes, Working
  <2> QED BY <1>2, <2>1, NextTypeIsSelected
<1>4. processed' = processed + x
  <2>1. PICK f \in stream : processed' = processed + BytesCounted(NextType, SizeOf[f])
    BY DEF PrintSum
  <2>2. stream = {disk[cur]}
    BY <1>1 DEF TrueStream
  <2>3. disk[cur] # Absent
    BY <1>1, <2>2, ArgWalkAssumption DEF ArgWalkAssumption
  <2>4. SizeOf[f] = s
    BY <2>1, <2>2, <2>3 DEF Size, Exists
  <2> QED BY <1>3, <1>2, <2>1, <2>4
<1>5. Cardinality(DoneAndCounted') = n + y
  BY <1>3, <1>1, <1>2, TypesCounted DEF DoneAndCounted
<1>6. /\ Passed' = Passed /\ Quiet' /\ All' = All
  BY <1>1, <1>2, PassedStays, SumsAre
<1>7. Bytes(Passed)' = Bytes(Passed) /\ Bytes(All)' = Bytes(All) /\ Size(cur)' = s
  <2>1. Size(cur)' = Size(cur)
    BY <1>1 DEF Size, Exists
  <2> QED BY <1>1, <1>6, <2>1, SameBytes DEF Bytes
<1>8. Due = c * t + n * s /\ Due' = c * t + (n + y) * s
  BY <1>1, <1>5, <1>7 DEF Due, InHand
<1>9. processed <= c * t + n * s /\ (overall = "OK" => processed = c * t + n * s)
  BY <1>1, <1>8 DEF SumsSoFar
<1>10. IsFiniteSet(Bytes(All)') /\ total' = Cardinality(Bytes(All)') * TimesRead(order.types)'
  BY <1>1, <1>7 DEF SumsSoFar
<1>11. x \in Nat /\ y \in {0, 1} /\ (y = 0 => x = 0) /\ (y = 1 => x = s)
  BY <1>2
<1> HIDE DEF t, c, s, n, x, y
<1>12. (n + y) * s = n * s + x /\ n * s \in Nat /\ c * t \in Nat
  <2>1. CASE y = 0
    BY ONLY <1>2, <1>11, <2>1, ProductType
  <2>2. CASE y = 1
    BY ONLY <1>2, <1>11, <2>2, ProductType
  <2> QED BY <1>11, <2>1, <2>2
<1>13. processed' <= c * t + (n + y) * s
       /\ (overall = "OK" => processed' = c * t + (n + y) * s)
  BY ONLY <1>2, <1>4, <1>9, <1>12, <1>11
<1> QED BY <1>1, <1>6, <1>8, <1>10, <1>13 DEF SumsSoFar

LEMMA ProgressInit == ASSUME PipeInit PROVE ProgressInv
<1>1. /\ HashInit /\ WalkInit /\ arg = 1 /\ walk = Idle /\ cur = NoFile /\ stream = {}
      /\ total = 0 /\ processed = 0 /\ pass \in {"size", "check"}
  BY DEF PipeInit, HashInit, WalkInit, StreamInit
<1>2. Passed = {} /\ Quiet
  BY <1>1 DEF Passed, Before, Here, Quiet, Idle
<1>3. SizesSoFar
  BY <1>1, <1>2, NoBytes DEF SizesSoFar
<1> QED BY <1>1, <1>3 DEF ProgressInv, SumsSoFar, CheckSoFar, SizesAfterwards

\* After the last path of the second pass all bytes have been read.
LEMMA SumsEnd ==
  ASSUME HashTypes, TypesSoFar, SumsSoFar, Plain, EndHashPass
  PROVE  SizesAfterwards'
<1>1. /\ pass = "hash" /\ WalkDone /\ pass' = "exited" /\ status' = overall
      /\ UNCHANGED <<total, processed>>
  BY DEF EndHashPass, Exit
<1>2. /\ WalkOK /\ done = {}
  BY <1>1, SumsAre DEF WalkDone
<1>3. Passed = All
  <2>1. arg = Len(args) + 1
    BY <1>1, <1>2, PlaceOf DEF WalkDone
  <2>2. Here = {}
    BY <1>1 DEF WalkDone, Here, Idle
  <2> QED BY <2>1, <2>2 DEF Passed, All
<1>4. Due = total
  <2>1. InHand = 0
    BY <1>1 DEF WalkDone, InHand
  <2>2. Cardinality(Bytes(All)) * TimesRead(order.types) \in Nat
    BY <1>1, <1>3, SumsAre, ProductType
  <2> QED BY <1>1, <1>3, <2>1, <2>2 DEF Due, SumsSoFar
<1> QED BY <1>1, <1>4 DEF SumsSoFar, SizesAfterwards

\* The check of one file with -h.
LEMMA CheckReads ==
  ASSUME HashTypes, CheckSoFar, Plain,
         BeginCheck \/ OpenForCheck \/ CompareSum \/ CheckReadFails
  PROVE  CheckSoFar' /\ SizesAfterwards'
<1>1. /\ pass = "check" /\ pass' \in {"check", "exited"} /\ UNCHANGED disk /\ processed = 0
      /\ WalkTypeOK /\ order \in Orders /\ order.mode = "check" /\ cur \in Files \cup {NoFile}
  BY DEF BeginCheck, OpenForCheck, CompareSum, CheckReadFails, CheckEnds, Exit, HashTypes,
         HashTypeOK, WalkTypeOK, Working, CheckSoFar, diskVars
<1>2. \A f : Size(f)' = Size(f) /\ Exists(f)' = Exists(f)
  BY <1>1, SameBytes
<1>3. CASE BeginCheck
  <2>1. CASE pass' = "exited" /\ status' # "OK"
    BY <2>1 DEF CheckSoFar, SizesAfterwards
  <2>2. CASE /\ cur' = order.file /\ total' = SizeOf[disk[order.file]] /\ UNCHANGED pass
             /\ Exists(order.file)
    <3>1. cur = NoFile /\ UNCHANGED <<stream, processed>> /\ pass' = "check"
      BY <1>1, <1>3, <2>2 DEF BeginCheck
    <3>2. stream = {}
      BY <1>1, <3>1 DEF CheckSoFar
    <3>3. total' = Size(cur')
      BY <2>2 DEF Size
    <3>4. Size(cur)' = Size(cur')
      BY <1>1 DEF Size, Exists
    <3> QED BY <1>1, <3>1, <3>2, <3>3, <3>4 DEF CheckSoFar, SizesAfterwards
  <2> QED BY <1>3, <2>1, <2>2 DEF BeginCheck, Exit
<1>4. CASE OpenForCheck
  <2>1. CASE OpenStream /\ UNCHANGED <<pass, status>>
    <3>1. UNCHANGED <<cur, total, processed>> /\ cur # NoFile /\ pass' = "check"
      BY <1>1, <1>4, <2>1 DEF OpenForCheck, walkVars
    <3>2. stream' = {disk[cur]} /\ Exists(cur)
      BY <2>1 DEF OpenStream
    <3>3. Size(cur)' = Size(cur) /\ Exists(cur)' = Exists(cur)
      BY <1>1, <3>1 DEF Size, Exists
    <3> QED BY <1>1, <3>1, <3>2, <3>3 DEF CheckSoFar, SizesAfterwards
  <2>2. CASE CheckEnds("NO_SUCH_FILE")
    BY <2>2 DEF CheckSoFar, SizesAfterwards, CheckEnds, Exit
  <2> QED BY <1>4, <2>1, <2>2 DEF OpenForCheck
<1>5. CASE CompareSum
  <2>1. PICK c \in stream : processed' = processed + SizeOf[c]
    BY <1>1, <1>5, CountedIs DEF CompareSum
  <2>2. /\ pass' = "exited" /\ UNCHANGED total /\ stream # {}
    BY <1>5 DEF CompareSum, CheckEnds, Exit
  <2>3. cur # NoFile /\ c = disk[cur] /\ Exists(cur) /\ total = SizeOf[disk[cur]]
    BY <1>1, <2>1, <2>2 DEF CheckSoFar, Size
  <2>4. SizeOf[disk[cur]] \in Nat
    BY <1>1, <2>3, SizeType DEF WalkTypeOK, Exists
  <2>5. processed' = total'
    BY <1>1, <2>1, <2>2, <2>3, <2>4
  <2> QED BY <2>2, <2>5 DEF CheckSoFar, SizesAfterwards
<1>6. CASE CheckReadFails
  BY <1>6 DEF CheckReadFails, CheckSoFar, SizesAfterwards, CheckEnds, Exit
<1> QED BY <1>3, <1>4, <1>5, <1>6

\* The error of a read leaves a type unread, and no more than the file was read.
LEMMA ReadFailsCounts ==
  ASSUME HashTypes, TypesSoFar, SumsSoFar, TrueStream, touched = {}, Plain, ReadFails
  PROVE  SumsSoFar'
<1> DEFINE t == TimesRead(order.types)
           s == Size(cur)
           n == Cardinality(DoneAndCounted)
<1>1. /\ pass = "hash" /\ HashCallback /\ cur \in Files /\ stream # {} /\ WalkTypeOK
      /\ CallbackEnds("IO_ERROR")
  BY DEF ReadFails, ReadError, HashCallback, HashTypes, HashTypeOK, WalkTypeOK
<1>2. /\ order.types \in SUBSET Types /\ done \in SUBSET order.types
      /\ \A u \in order.types : \A k : BytesCounted(u, k) = IF u = "xxhash64be" THEN 0 ELSE k
      /\ t \in Nat /\ n \in Nat /\ n <= t /\ s \in Nat /\ cur # NoFile
  BY <1>1, SumsAre, ArgWalkAssumption DEF ArgWalkAssumption
<1>3. NextType \in order.types \ done
  <2>1. done # order.types
    BY <1>1 DEF HashTypes, Working
  <2> QED BY <1>2, <2>1, NextTypeIsSelected
<1>4. PICK x \in Nat :
        x <= s /\ processed' = processed + x /\ (NextType = "xxhash64be" => x = 0)
  <2>1. PICK c \in stream : \E k \in 0..SizeOf[c] :
          processed' = processed + BytesCounted(NextType, k)
    BY DEF ReadFails
  <2>2. stream = {disk[cur]} /\ stream \subseteq Contents
    BY <1>1 DEF TrueStream, HashTypes, HashTypeOK, StreamTypeOK
  <2>3. SizeOf[c] = s
    BY <2>1, <2>2, ArgWalkAssumption DEF ArgWalkAssumption, Size, Exists
  <2>4. PICK k \in 0..s : processed' = processed + BytesCounted(NextType, k)
    BY <2>1, <2>3
  <2>5. BytesCounted(NextType, k) = IF NextType = "xxhash64be" THEN 0 ELSE k
    BY <1>3, <1>2
  <2> QED BY <1>2, <2>4, <2>5
<1>5. NextType # "xxhash64be" => n + 1 <= t
  <2> DEFINE more == done \cup {NextType}
  <2>1. more \in SUBSET order.types
    BY <1>3, <1>2
  <2>2. Cardinality(more \ {"xxhash64be"}) <= t
    BY <1>2, <2>1, TypesCounted
  <2>3. NextType # "xxhash64be" => Cardinality(more \ {"xxhash64be"}) = n + 1
    BY <1>3, <1>2, TypesCounted DEF DoneAndCounted
  <2> QED BY <2>2, <2>3
<1>6. CASE NextType = "xxhash64be"
  <2> HIDE DEF n, s, t
  <2>1. n * s <= t * s /\ n * s \in Nat /\ t * s \in Nat /\ t * s = s * t
    BY ONLY <1>2, ProductGrows
  <2>2. n * s + x <= s * t
    BY ONLY <1>4, <1>6, <2>1
  <2> QED BY <1>1, <1>4, <2>2, SumsReturned DEF n, s, t
<1>7. CASE NextType # "xxhash64be"
  <2> HIDE DEF n, s, t
  <2>1. (n + 1) * s <= t * s /\ (n + 1) * s \in Nat /\ t * s \in Nat
    <3>1. n + 1 \in Nat
      BY ONLY <1>2
    <3> QED BY ONLY <1>2, <1>5, <1>7, <3>1, ProductGrows
  <2>2. (n + 1) * s = n * s + s /\ n * s \in Nat /\ t * s = s * t
    BY ONLY <1>2, ProductType
  <2>3. n * s + x <= s * t
    BY ONLY <1>2, <1>4, <2>1, <2>2
  <2> QED BY <1>1, <1>4, <2>3, SumsReturned DEF n, s, t
<1> QED BY <1>6, <1>7

LEMMA ProgressInvStep ==
  ASSUME TypeInv, ListInv, PrintInv, ProgressInv, [Next]_vars PROVE ProgressInv'
<1> SUFFICES ASSUME touched' = {}, Plain'
             PROVE  SizesSoFar' /\ SumsSoFar' /\ CheckSoFar' /\ SizesAfterwards'
  BY DEF ProgressInv
<1>0. /\ touched = {} /\ Plain /\ HashTypes /\ TypesSoFar /\ TrueStream
      /\ SizesSoFar /\ SumsSoFar /\ CheckSoFar /\ SizesAfterwards
  <2>1. touched = {} /\ order' = order
    BY StepStays DEF Stays
  <2> QED BY <2>1 DEF Plain, ProgressInv, TypeInv, PrintInv, ListInv, PassSums
\* Steps that stay in the second pass.
<1>1. ASSUME pass' = "hash", SumsSoFar' PROVE SizesSoFar' /\ CheckSoFar' /\ SizesAfterwards'
  BY <1>1 DEF SizesSoFar, CheckSoFar, SizesAfterwards
<1>2. ASSUME NEW res, HashCallback, CallbackEnds(res) PROVE pass' = "hash"
  BY <1>2 DEF HashCallback, CallbackEnds
\* Steps that read nothing and do not walk.
<1>3. ASSUME UNCHANGED <<disk, args, arg, walk, cur, overall, pass, order, done, stream,
                         total, processed, status>>
      PROVE  SizesSoFar' /\ SumsSoFar' /\ CheckSoFar' /\ SizesAfterwards'
  <2>1. /\ Passed' = Passed /\ All' = All /\ (Quiet <=> Quiet')
    BY <1>3, PassedStays
  <2>2. /\ Bytes(Passed)' = Bytes(Passed) /\ Bytes(All)' = Bytes(All)
        /\ Size(cur)' = Size(cur) /\ Exists(cur)' = Exists(cur)
    BY <1>3, <2>1, SameBytes DEF Bytes, Size, Exists
  <2>3. Due' = Due
    BY <1>3, <2>2 DEF Due, InHand, DoneAndCounted
  <2>4. SizesSoFar' /\ CheckSoFar' /\ SizesAfterwards'
    BY <1>0, <1>3, <2>1, <2>2 DEF SizesSoFar, CheckSoFar, SizesAfterwards
  <2>5. SumsSoFar'
    BY <1>0, <1>3, <2>1, <2>2, <2>3 DEF SumsSoFar
  <2> QED BY <2>4, <2>5
<1>4. CASE SizePass
  <2>1. pass' = "size"
    BY <1>4 DEF SizePass
  <2> QED BY <1>0, <1>4, <2>1, SizesAdded DEF SumsSoFar, CheckSoFar, SizesAfterwards
<1>5. CASE EndSizePass
  <2>1. CASE pass' = "hash"
    BY <1>0, <1>1, <1>5, <2>1, SumsBegin
  <2>2. CASE pass' = "exited" /\ status' # "OK"
    BY <2>2 DEF SizesSoFar, SumsSoFar, CheckSoFar, SizesAfterwards
  <2> QED BY <1>5, <2>1, <2>2 DEF EndSizePass, Exit
<1>6. CASE HashWalk
  <2>1. pass' = "hash"
    BY <1>6 DEF HashWalk, hashVars
  <2> QED BY <1>0, <1>1, <1>6, <2>1, SumsWalked
<1>7. CASE OpenForHash
  <2>1. CASE CallbackEnds("NO_SUCH_FILE") /\ ~Exists(cur) /\ UNCHANGED processed
    <3>1. HashCallback /\ pass = "hash" /\ cur # NoFile
      BY <1>7 DEF OpenForHash, HashCallback
    <3>2. Size(cur) = 0 /\ Cardinality(DoneAndCounted) \in Nat /\ TimesRead(order.types) \in Nat
          /\ processed \in Nat
      BY <1>0, <2>1, <3>1, SumsAre DEF Size
    <3>3. /\ Cardinality(DoneAndCounted) * Size(cur) + 0 <= Size(cur) * TimesRead(order.types)
          /\ processed' = processed + 0
      BY <2>1, <3>2
    <3>4. SumsSoFar'
      BY <1>0, <2>1, <3>1, <3>3, SumsReturned
    <3> QED BY <1>1, <1>2, <2>1, <3>1, <3>4
  <2>2. CASE OpenStream /\ UNCHANGED <<diskVars, walkVars, order, pass, done, lines, total,
                                       processed, status>>
    <3>1. /\ pass = "hash" /\ pass' = "hash"
          /\ UNCHANGED <<disk, args, arg, walk, cur, overall, order, done, total, processed>>
      BY <1>7, <2>2 DEF OpenForHash, HashCallback, diskVars, walkVars
    <3>2. /\ Passed' = Passed /\ All' = All /\ (Quiet <=> Quiet')
      BY <3>1, PassedStays
    <3>3. /\ Bytes(Passed)' = Bytes(Passed) /\ Bytes(All)' = Bytes(All)
          /\ Size(cur)' = Size(cur)
      BY <3>1, <3>2, SameBytes DEF Bytes, Size, Exists
    <3>4. Due' = Due
      BY <3>1, <3>3 DEF Due, InHand, DoneAndCounted
    <3>5. SumsSoFar'
      BY <1>0, <3>1, <3>2, <3>3, <3>4 DEF SumsSoFar
    <3> QED BY <1>1, <3>1, <3>5
  <2> QED BY <1>7, <2>1, <2>2 DEF OpenForHash
<1>8. CASE PrintSum
  <2>1. pass' = "hash"
    BY <1>8 DEF PrintSum, HashCallback
  <2> QED BY <1>0, <1>1, <1>8, <2>1, SumsPrinted
<1>9. CASE ReadFails
  <2>1. pass' = "hash"
    BY <1>2, <1>9 DEF ReadFails
  <2> QED BY <1>0, <1>1, <1>9, <2>1, ReadFailsCounts
<1>10. CASE AllPrinted
  <2>1. /\ HashCallback /\ CallbackEnds("OK") /\ UNCHANGED processed /\ done = order.types
        /\ pass = "hash" /\ cur # NoFile
    BY <1>10 DEF AllPrinted, HashCallback
  <2>2. /\ Size(cur) \in Nat /\ processed \in Nat /\ Cardinality(DoneAndCounted) \in Nat
    BY <1>0, <2>1, SumsAre
  <2>3. Cardinality(DoneAndCounted) = TimesRead(order.types)
    BY <2>1 DEF DoneAndCounted, TimesRead
  <2>4. /\ Cardinality(DoneAndCounted) * Size(cur) + 0 <= Size(cur) * TimesRead(order.types)
        /\ processed' = processed + 0
    <3>1. Cardinality(DoneAndCounted) * Size(cur) = Size(cur) * Cardinality(DoneAndCounted)
          /\ Cardinality(DoneAndCounted) * Size(cur) \in Nat
      BY <2>2, ProductType
    <3> QED BY <2>1, <2>2, <2>3, <3>1
  <2>5. SumsSoFar'
    BY <1>0, <2>1, <2>3, <2>4, SumsReturned
  <2> QED BY <1>1, <1>2, <2>1, <2>5
<1>11. CASE EndHashPass
  <2>1. pass' = "exited"
    BY <1>11 DEF EndHashPass, Exit
  <2> QED BY <1>0, <1>11, <2>1, SumsEnd DEF SizesSoFar, SumsSoFar, CheckSoFar
<1>12. CASE BeginCheck \/ OpenForCheck \/ CompareSum \/ CheckReadFails
  <2>1. pass' \in {"check", "exited"}
    <3>1. pass = "check"
      BY <1>12 DEF BeginCheck, OpenForCheck, CompareSum, CheckReadFails
    <3> QED BY <1>12, <3>1
            DEF BeginCheck, OpenForCheck, CompareSum, CheckReadFails, CheckEnds, Exit
  <2> QED BY <1>0, <1>12, <2>1, CheckReads DEF SizesSoFar, SumsSoFar
<1>13. CASE Flush \/ ReadLine \/ EndInput \/ CreateList \/ UNCHANGED vars
  BY <1>3, <1>13 DEF Flush, ReadLine, EndInput, CreateList, vars, diskVars, walkVars, hashVars
<1>14. CASE BrokenPipe \/ KillHash
  BY <1>14 DEF BrokenPipe, KillHash, SizesSoFar, SumsSoFar, CheckSoFar, SizesAfterwards
<1>15. CASE FileChanges
  <2>1. PICK f \in Files, c \in Contents \cup {Absent} : Edit(f, c)
    BY <1>15 DEF FileChanges, HashFileChanges, EditSeenByStream
  <2> QED BY <2>1 DEF Edit
<1> QED BY <1>4, <1>5, <1>6, <1>7, <1>8, <1>9, <1>10, <1>11, <1>12, <1>13, <1>14, <1>15
        DEF Next, HashStep, HashProgram, FileProgram, Stopped

\* Within the second pass the bytes due are some of all bytes: the file at hand
\* has not been passed yet.
LEMMA DueFits ==
  ASSUME HashTypes, TypesSoFar, SumsSoFar, Plain, pass = "hash" PROVE Due <= total
<1> DEFINE t == TimesRead(order.types)
           c == Cardinality(Bytes(Passed))
           a == Cardinality(Bytes(All))
           n == Cardinality(DoneAndCounted)
<1>1. /\ WalkOK /\ Quiet /\ Passed \subseteq All /\ IsFiniteSet(Bytes(Passed))
      /\ IsFiniteSet(Bytes(All)) /\ c \in Nat /\ t \in Nat /\ n \in Nat /\ n <= t
      /\ cur # NoFile => cur \in Files /\ Size(cur) \in Nat
  BY SumsAre
<1>2. total = a * t
  BY DEF SumsSoFar
<1>3. CASE cur = NoFile
  <2>1. Due = c * t
    <3>1. c * t \in Nat
      BY <1>1, ProductType
    <3> QED BY <1>3, <3>1 DEF Due, InHand
  <2>2. a \in Nat /\ c <= a
    BY <1>1, FewerSlots
  <2> HIDE DEF a, c, t
  <2> QED BY <1>1, <1>2, <2>1, <2>2, ProductGrows
<1>4. CASE cur # NoFile
  <2> DEFINE s == Size(cur)
             e == Cardinality(Bytes(Passed \cup {CurSlot}))
  <2>1. CurSlot \notin Passed /\ CurSlot \in All /\ CurSlot[3] = cur /\ s \in Nat
    BY <1>1, <1>4, CurSlotIs
  <2>2. e = c + s
    <3>1. Size(CurSlot[3]) = s
      BY <2>1
    <3> QED BY <1>1, <2>1, <3>1, SlotAdded
  <2>3. a \in Nat /\ e <= a
    <3>1. Passed \cup {CurSlot} \subseteq All
      BY <1>1, <2>1
    <3> QED BY <1>1, <3>1, FewerSlots
  <2>4. Due = c * t + n * s
    BY <1>4 DEF Due, InHand
  <2> HIDE DEF a, c, t, n, s, e
  <2>5. /\ e \in Nat /\ e * t <= a * t /\ n * s <= t * s
    BY ONLY <1>1, <2>1, <2>2, <2>3, ProductGrows
  <2>6. e * t = c * t + t * s /\ c * t \in Nat /\ n * s \in Nat /\ t * s \in Nat /\ a * t \in Nat
    BY ONLY <1>1, <2>1, <2>2, <2>3, ProductType
  <2> DEFINE et == e * t
             ct == c * t
             ts == t * s
             ns == n * s
             at == a * t
  <2> HIDE DEF et, ct, ts, ns, at
  <2>7. /\ et <= at /\ ns <= ts /\ et = ct + ts /\ ct \in Nat /\ ts \in Nat /\ ns \in Nat
        /\ at \in Nat /\ total = at /\ Due = ct + ns
    BY ONLY <1>2, <2>4, <2>5, <2>6 DEF et, ct, ts, ns, at
  <2> QED BY ONLY <2>7
<1> QED BY <1>3, <1>4

LEMMA ProgressSuffices ==
  ASSUME TypeInv, PrintInv, ProgressInv PROVE ProgressFits
<1> SUFFICES ASSUME touched = {}, Plain
             PROVE  /\ pass \in {"hash", "check"} => processed <= total
                    /\ pass = "exited" /\ status = "OK" => processed = total
  BY DEF ProgressFits, Plain
<1>1. /\ HashTypes /\ TypesSoFar /\ SumsSoFar /\ CheckSoFar /\ SizesAfterwards
      /\ total \in Nat /\ processed \in Nat
  BY DEF ProgressInv, TypeInv, PrintInv, HashTypes, HashTypeOK
<1>2. ASSUME pass = "hash" PROVE processed <= total
  <2>1. processed <= Due /\ Due <= total
    BY <1>1, <1>2, DueFits DEF SumsSoFar
  <2>2. Due \in Nat
    <3>1. /\ Cardinality(Bytes(Passed)) \in Nat /\ TimesRead(order.types) \in Nat
          /\ Cardinality(DoneAndCounted) \in Nat /\ (cur # NoFile => Size(cur) \in Nat)
      BY <1>1, <1>2, SumsAre
    <3>2. Cardinality(Bytes(Passed)) * TimesRead(order.types) \in Nat /\ InHand \in Nat
      BY <3>1, ProductType DEF InHand
    <3> QED BY <3>2 DEF Due
  <2> QED BY <1>1, <2>1, <2>2
<1>3. pass = "check" => processed <= total
  BY <1>1 DEF CheckSoFar
<1> QED BY <1>1, <1>2, <1>3 DEF SizesAfterwards

\* The sizes that are added up for the progress messages: no more is processed
\* than was announced, and all of it if all goes well, for any command line,
\* any files and all options but those with which xxhash64be is counted in one
\* of the two sums only.
THEOREM ProgressIsRight == Spec => []ProgressFits
<1>1. Spec => [](TypeInv /\ ListInv)
  BY ListInvAlways
<1>2. Spec => []PrintInv
  BY <1>1, PrintInvInit, PrintInvStep, PTL DEF Spec
<1>3. Spec => []ProgressInv
  BY <1>1, <1>2, ProgressInit, ProgressInvStep, PTL DEF Spec
<1>4. TypeInv /\ PrintInv /\ ProgressInv => ProgressFits
  BY ProgressSuffices
<1> QED BY <1>1, <1>2, <1>3, <1>4, PTL
====
