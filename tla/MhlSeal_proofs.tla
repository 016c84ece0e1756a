--------------------------- MODULE MhlSeal_proofs ---------------------------
(***************************************************************************)
(* Theorems about 'mhl seal', for any number of files, paths, output       *)
(* folders and hash types, and any number of changes by other programs:    *)
(* its type invariant, its safety properties, and that it implements       *)
(* ListRace for one program.                                               *)
(***************************************************************************)
EXTENDS MhlSeal, ArgWalk_proofs, FiniteSetTheorems

LEMMA CodesAreCodes ==
  {"OK", "NO_SUCH_FILE", "IO_ERROR", "GAP_IN_SEQUENCE", "WRONG_FILE_LOCATION",
   "UNKNOWN_ERROR"}
    \subseteq Codes
BY DEF Codes

\* What the program keeps of the hash types, and what the sums look like.
LEMMA KeptSelected == Kept \subseteq Selected
BY DEF Kept

LEMMA StreamDigests ==
  ASSUME StreamTypeOK PROVE DigestsOfStream \subseteq Digests
BY DEF StreamTypeOK, DigestsOfStream, Digests

LEMMA NoSumsType == \E ts \in SUBSET Selected : NoSums \in [ts -> Digests]
<1>1. NoSums \in [{} -> Digests]
  BY DEF NoSums
<1> QED BY <1>1

(***************************************************************************)
(* Type correctness.  TypeOK alone is not inductive: the walk begins the   *)
(* next path only while there is one (WalkShape).                          *)
(***************************************************************************)
TypeInv == TypeOK /\ WalkShape

LEMMA TypeInvInit == ASSUME Init PROVE TypeInv
<1>1. WalkOK
  BY WalkInitOK DEF Init
<1>2. outs \in Seq(OutSpec) /\ Len(outs) \in Nat
  BY SealAssumption DEF SealAssumption, Init
<1>3. StreamTypeOK /\ \E ts \in SUBSET Selected : sums \in [ts -> Digests]
  BY NoSumsType DEF Init, StreamInit, StreamTypeOK
<1>4. entries \in Seq(Entry) /\ refs \in [DOMAIN outs -> Seq(Nat)]
  BY DEF Init
<1>5. \A o \in DOMAIN outs : \A i \in DOMAIN refs[o] : refs[o][i] \in DOMAIN entries
  BY DEF Init
<1>6. out \in [DOMAIN outs -> OutState]
  BY DEF Init, NotOpened, OutState
<1>7. owner \in [ListPaths -> {-1, 0} \cup DOMAIN outs]
  BY DEF Init
<1>8. at \in 1..(Len(outs) + 1)
  BY <1>2 DEF Init
<1>9. /\ pass = "size" /\ outs \in OutputLists /\ clean \in BOOLEAN
      /\ full \in BOOLEAN /\ wasFull \in BOOLEAN /\ result \in Codes
  BY CodesAreCodes DEF Init
<1>10. TypeOK
  BY <1>1, <1>3, <1>4, <1>5, <1>6, <1>7, <1>8, <1>9 DEF WalkOK, TypeOK
<1> QED BY <1>1, <1>10 DEF WalkOK, TypeInv

\* The callback's end, for the types.
LEMMA HashCallbackReturnsType ==
  ASSUME TypeInv, HashCallback, NEW res \in Codes, HashCallbackReturns(res),
         entries' \in Seq(Entry), refs' \in [DOMAIN outs -> Seq(Nat)],
         \A o \in DOMAIN outs : \A i \in DOMAIN refs'[o] : refs'[o][i] \in DOMAIN entries'
  PROVE  TypeInv'
<1>1. WalkOK'
  BY CallbackReturnsOK DEF TypeInv, TypeOK, WalkOK, HashCallback, HashCallbackReturns
<1>2. StreamTypeOK' /\ \E ts \in SUBSET Selected : sums' \in [ts -> Digests]
  BY NoSumsType DEF HashCallbackReturns, StreamTypeOK
<1>3. TypeOK'
  BY <1>1, <1>2 DEF TypeInv, TypeOK, WalkOK, HashCallbackReturns, createVars
<1> QED BY <1>1, <1>3 DEF WalkOK, TypeInv

\* A new entry is well-typed, and so are the references to it.
LEMMA AddEntryType ==
  ASSUME TypeInv, AddEntry
  PROVE  /\ entries' \in Seq(Entry)
         /\ Len(entries') = Len(entries) + 1
         /\ \A i \in DOMAIN entries : entries'[i] = entries[i]
         /\ entries'[Len(entries) + 1].file = cur
         /\ refs' \in [DOMAIN outs -> Seq(Nat)]
         /\ \A o \in DOMAIN outs :
              refs'[o] = IF Exists(cur) /\ cur \in outs[o].covers
                           THEN Append(refs[o], Len(entries) + 1) ELSE refs[o]
         /\ \A o \in DOMAIN outs : \A i \in DOMAIN refs'[o] : refs'[o][i] \in DOMAIN entries'
<1> DEFINE entry == [file |-> cur,
                     size |-> IF Exists(cur) THEN SizeOf[disk[cur]] ELSE 0,
                     sums |-> [t \in Kept |-> sums[t]],
                     clean |-> clean]
<1>1. cur \in Files /\ clean \in BOOLEAN
  BY DEF AddEntry, HashCallback, TypeInv, TypeOK, WalkTypeOK
<1>2. (IF Exists(cur) THEN SizeOf[disk[cur]] ELSE 0) \in Nat
  BY <1>1, ArgWalkAssumption DEF ArgWalkAssumption, TypeInv, TypeOK, WalkTypeOK, Exists
<1>3. [t \in Kept |-> sums[t]] \in [Kept -> Digests]
  <2>1. sums \in [Selected -> Digests]
    BY DEF AddEntry, TypeInv, TypeOK
  <2> QED BY <2>1, KeptSelected
<1>4. entry \in Entry
  BY <1>1, <1>2, <1>3 DEF Entry
<1>5. entries \in Seq(Entry) /\ entries' = Append(entries, entry)
  BY DEF AddEntry, TypeInv, TypeOK
<1> HIDE DEF entry
<1>6. /\ entries' \in Seq(Entry) /\ Len(entries') = Len(entries) + 1
      /\ \A i \in DOMAIN entries : entries'[i] = entries[i]
      /\ entries'[Len(entries) + 1] = entry
      /\ Len(entries) \in Nat /\ DOMAIN entries' = 1..(Len(entries) + 1)
      /\ DOMAIN entries = 1..Len(entries)
  BY <1>4, <1>5
<1>7. entry.file = cur
  BY DEF entry
<1>8. refs' = [o \in DOMAIN outs |->
                 IF Exists(cur) /\ cur \in outs[o].covers
                   THEN Append(refs[o], Len(entries) + 1) ELSE refs[o]]
  BY DEF AddEntry, NewIndex
<1>9. refs \in [DOMAIN outs -> Seq(Nat)]
  BY DEF TypeInv, TypeOK
<1>10. refs' \in [DOMAIN outs -> Seq(Nat)]
  <2>1. \A o \in DOMAIN outs : Append(refs[o], Len(entries) + 1) \in Seq(Nat)
    BY <1>6, <1>9
  <2> QED BY <1>8, <1>9, <2>1
<1>11. ASSUME NEW o \in DOMAIN outs, NEW i \in DOMAIN refs'[o]
       PROVE  refs'[o][i] \in DOMAIN entries'
  <2>1. refs[o] \in Seq(Nat) /\ \A j \in DOMAIN refs[o] : refs[o][j] \in DOMAIN entries
    BY <1>9 DEF TypeInv, TypeOK
  <2>2. CASE refs'[o] = refs[o]
    BY <1>6, <1>11, <2>1, <2>2
  <2>3. CASE refs'[o] = Append(refs[o], Len(entries) + 1)
    <3>1. i \in DOMAIN refs[o] \/ refs'[o][i] = Len(entries) + 1
      BY <1>6, <1>11, <2>1, <2>3
    <3>2. i \in DOMAIN refs[o] => refs'[o][i] = refs[o][i]
      BY <1>6, <2>1, <2>3
    <3> QED BY <1>6, <2>1, <3>1, <3>2
  <2> QED BY <1>8, <2>2, <2>3
<1> QED BY <1>6, <1>7, <1>8, <1>10, <1>11

\* What the creation of the lists does to the state of a list.
LEMMA OutUpdates ==
  ASSUME NEW w \in OutState, NEW st \in {"none", "checked", "open"},
         NEW n \in Nat, NEW m \in Nat, NEW b \in BOOLEAN
  PROVE  /\ [w EXCEPT !.stage = st] \in OutState
         /\ [w EXCEPT !.printed = n] \in OutState
         /\ [w EXCEPT !.flushed = m, !.torn = b] \in OutState
<1>1. [w EXCEPT !.stage = st] \in OutState
  BY DEF OutState
<1>2. [w EXCEPT !.printed = n] \in OutState
  BY DEF OutState
<1>3. [w EXCEPT !.flushed = m, !.torn = b] \in OutState
  BY DEF OutState
<1> QED BY <1>1, <1>2, <1>3

LEMMA OutType ==
  ASSUME TypeOK, NEW o \in DOMAIN outs, NEW st \in {"none", "checked", "open"},
         \/ out' = [out EXCEPT ![o].stage = st]
         \/ out' = [out EXCEPT ![o].printed = @ + 1]
         \/ out' = [out EXCEPT ![o].flushed = @ + 1, ![o].torn = @ \/ full]
  PROVE  out' \in [DOMAIN outs -> OutState]
<1> DEFINE torn == out[o].torn \/ full
<1>1. /\ out \in [DOMAIN outs -> OutState] /\ out[o] \in OutState
      /\ out[o].printed + 1 \in Nat /\ out[o].flushed + 1 \in Nat /\ torn \in BOOLEAN
  BY DEF TypeOK, OutState
<1>2. \/ out' = [out EXCEPT ![o] = [out[o] EXCEPT !.stage = st]]
      \/ out' = [out EXCEPT ![o] = [out[o] EXCEPT !.printed = out[o].printed + 1]]
      \/ out' = [out EXCEPT ![o] = [out[o] EXCEPT !.flushed = out[o].flushed + 1,
                                                  !.torn = torn]]
  BY <1>1
<1> HIDE DEF torn
<1>3. /\ [out[o] EXCEPT !.stage = st] \in OutState
      /\ [out[o] EXCEPT !.printed = out[o].printed + 1] \in OutState
      /\ [out[o] EXCEPT !.flushed = out[o].flushed + 1, !.torn = torn] \in OutState
  BY <1>1, OutUpdates
<1> QED BY <1>1, <1>2, <1>3

\* The list at hand is one of the lists.
LEMMA CreatingAt ==
  ASSUME TypeOK, NEW st, Creating(st) PROVE at \in DOMAIN outs
BY SealAssumption DEF SealAssumption, Creating, TypeOK

\* Steps that leave the files and the walk alone.
LEMMA WalkUntouched ==
  ASSUME WalkOK, UNCHANGED <<diskVars, walkVars>> PROVE WalkOK'
BY DEF WalkOK, WalkTypeOK, WalkShape, ThePath, diskVars, walkVars

LEMMA TypeInvStep == ASSUME TypeInv, [Next]_vars PROVE TypeInv'
<1>0. WalkOK
  BY DEF TypeInv, TypeOK, WalkOK
<1> USE DEF TypeInv
<1>1. CASE SizePass
  <2>1. WalkOK'
    <3>1. CASE Walk
      BY <1>0, <3>1, WalkStepOK
    <3>2. CASE SizeFile
      BY <1>0, <3>2, CallbackReturnsOK, CodesAreCodes DEF SizeFile
    <3> QED BY <1>1, <3>1, <3>2 DEF SizePass
  <2> QED BY <1>1, <2>1 DEF SizePass, TypeOK, WalkOK, StreamTypeOK, hashVars, createVars
<1>2. CASE EndSizePass
  <2>1. WalkOK'
    BY <1>0, <1>2, RestartWalkOK, WalkUntouched DEF EndSizePass, WalkDone
  <2>2. pass' \in {"hash", "close"} /\ result' \in Codes
    BY <1>2 DEF EndSizePass, TypeOK, WalkTypeOK
  <2> QED BY <1>2, <2>1, <2>2
          DEF EndSizePass, TypeOK, WalkOK, StreamTypeOK, hashVars, createVars
<1>3. CASE HashWalk
  <2>1. WalkOK'
    BY <1>0, <1>3, WalkStepOK DEF HashWalk
  <2> QED BY <1>3, <2>1 DEF HashWalk, TypeOK, WalkOK, StreamTypeOK, hashVars, createVars
<1>4. CASE EndHashPass
  <2>1. WalkOK'
    BY <1>0, <1>4, WalkUntouched DEF EndHashPass
  <2>2. pass' \in {"create", "close"} /\ result' \in Codes
    BY <1>4 DEF EndHashPass, TypeOK, WalkTypeOK
  <2> QED BY <1>4, <2>1, <2>2
          DEF EndHashPass, TypeOK, WalkOK, StreamTypeOK, hashVars, createVars
<1>5. CASE OpenForHash
  <2>1. CASE Exists(cur)
    <3>1. WalkOK'
      BY <1>0, <1>5, <2>1, WalkUntouched DEF OpenForHash
    <3>2. stream' \in SUBSET Contents
      BY <1>5, <2>1 DEF OpenForHash, OpenStream, HashCallback, Exists, TypeOK, WalkTypeOK
    <3> QED BY <1>5, <2>1, <3>1, <3>2
            DEF OpenForHash, TypeOK, WalkOK, StreamTypeOK, createVars
  <2>2. CASE ~Exists(cur)
    BY <1>5, <2>2, HashCallbackReturnsType, CodesAreCodes DEF OpenForHash, TypeOK
  <2> QED BY <2>1, <2>2
<1>6. CASE FinishHash
  <2>1. WalkOK'
    BY <1>0, <1>6, WalkUntouched DEF FinishHash
  <2>2. PICK t \in Selected, d \in DigestsOfStream :
          sums' = [u \in DOMAIN sums \cup {t} |-> IF u = t THEN d ELSE sums[u]]
    BY <1>6 DEF FinishHash
  <2>3. PICK ts \in SUBSET Selected : sums \in [ts -> Digests]
    BY DEF TypeOK
  <2>4. d \in Digests
    BY StreamDigests DEF TypeOK
  <2>5. sums' \in [ts \cup {t} -> Digests] /\ ts \cup {t} \in SUBSET Selected
    BY <2>2, <2>3, <2>4
  <2>6. stream' \in SUBSET Contents
    BY <1>6 DEF FinishHash
  <2> QED BY <1>6, <2>1, <2>5, <2>6 DEF FinishHash, TypeOK, WalkOK, StreamTypeOK, createVars
<1>7. CASE ReadFails
  BY <1>7, HashCallbackReturnsType, CodesAreCodes DEF ReadFails, TypeOK
<1>8. CASE AddEntry
  <2>1. PICK res \in Codes : HashCallbackReturns(res) /\ HashCallback
    BY <1>8, CodesAreCodes DEF AddEntry, AddResult
  <2> QED BY <1>8, <2>1, AddEntryType, HashCallbackReturnsType
<1>9. CASE CheckMhl
  <2>1. WalkOK'
    BY <1>0, <1>9, WalkUntouched DEF CheckMhl
  <2>2. pass' \in {"create", "close"} /\ result' \in Codes
    BY <1>9, CodesAreCodes DEF CheckMhl, Creating, GiveUp, TypeOK
  <2>3. out' \in [DOMAIN outs -> OutState]
    BY <1>9, CreatingAt, OutType DEF CheckMhl, TypeOK
  <2> QED BY <1>9, <2>1, <2>2, <2>3
          DEF CheckMhl, TypeOK, WalkOK, StreamTypeOK, hashVars
<1>10. CASE OpenMhl
  <2>1. WalkOK'
    BY <1>0, <1>10, WalkUntouched DEF OpenMhl
  <2>2. pass' \in {"create", "close"} /\ result' \in Codes
    BY <1>10, CodesAreCodes DEF OpenMhl, Creating, GiveUp, TypeOK
  <2>3. out' \in [DOMAIN outs -> OutState]
    BY <1>10, CreatingAt, OutType DEF OpenMhl, TypeOK
  <2>4. at \in DOMAIN outs
    BY <1>10, CreatingAt DEF OpenMhl
  <2>5. owner' \in [ListPaths -> {-1, 0} \cup DOMAIN outs]
    BY <1>10, <2>4 DEF OpenMhl, TypeOK
  <2> QED BY <1>10, <2>1, <2>2, <2>3, <2>5
          DEF OpenMhl, TypeOK, WalkOK, StreamTypeOK, hashVars
<1>11. CASE PrintPiece
  <2>1. WalkOK'
    BY <1>0, <1>11, WalkUntouched DEF PrintPiece
  <2>2. out' \in [DOMAIN outs -> OutState]
    BY <1>11, CreatingAt, OutType DEF PrintPiece, TypeOK
  <2> QED BY <1>11, <2>1, <2>2 DEF PrintPiece, TypeOK, WalkOK, StreamTypeOK, hashVars
<1>12. CASE PrintCreatorFails
  <2>1. WalkOK'
    BY <1>0, <1>12, WalkUntouched DEF PrintCreatorFails
  <2>2. out' \in [DOMAIN outs -> OutState]
    <3>1. at \in DOMAIN outs /\ out \in [DOMAIN outs -> OutState] /\ out[at] \in OutState
      BY <1>12, CreatingAt DEF PrintCreatorFails, TypeOK
    <3>2. [out[at] EXCEPT !.printed = 2] \in OutState
      BY <3>1, OutUpdates
    <3>3. [[out[at] EXCEPT !.printed = 2] EXCEPT !.flushed = 2, !.torn = TRUE] \in OutState
      BY <3>2, OutUpdates
    <3>4. [out[at] EXCEPT !.printed = 2, !.flushed = 2, !.torn = TRUE] \in OutState
      BY <3>1, <3>3
    <3>5. out' = [out EXCEPT ![at] = [out[at] EXCEPT !.printed = 2, !.flushed = 2,
                                                     !.torn = TRUE]]
      BY <1>12, <3>1 DEF PrintCreatorFails
    <3> QED BY <3>1, <3>4, <3>5
  <2>3. pass' = "close" /\ result' \in Codes
    BY <1>12, CodesAreCodes DEF PrintCreatorFails, GiveUp
  <2> QED BY <1>12, <2>1, <2>2, <2>3
          DEF PrintCreatorFails, TypeOK, WalkOK, StreamTypeOK, hashVars
<1>13. CASE EndList
  <2>1. WalkOK'
    BY <1>0, <1>13, WalkUntouched DEF EndList
  <2>2. at' \in 1..(Len(outs) + 1)
    BY <1>13, SealAssumption DEF SealAssumption, EndList, Creating, TypeOK
  <2> QED BY <1>13, <2>1, <2>2 DEF EndList, TypeOK, WalkOK, StreamTypeOK, hashVars
<1>14. CASE EndCreate
  <2>1. WalkOK'
    BY <1>0, <1>14, WalkUntouched DEF EndCreate
  <2> QED BY <1>14, <2>1, CodesAreCodes
          DEF EndCreate, GiveUp, TypeOK, WalkOK, StreamTypeOK, hashVars, createVars
<1>15. ASSUME NEW o \in DOMAIN outs, Flush(o) PROVE TypeInv'
  <2>1. WalkOK'
    BY <1>0, <1>15, WalkUntouched DEF Flush
  <2>2. out' \in [DOMAIN outs -> OutState]
    BY <1>15, OutType DEF Flush
  <2> QED BY <1>15, <2>1, <2>2 DEF Flush, TypeOK, WalkOK, StreamTypeOK, hashVars
<1>16. CASE Exit
  <2>1. WalkOK'
    BY <1>0, <1>16, WalkUntouched DEF Exit
  <2> QED BY <1>16, <2>1 DEF Exit, TypeOK, WalkOK, StreamTypeOK, hashVars, createVars
<1>17. CASE FileChanges
  <2>1. PICK f \in Files, c \in Contents \cup {Absent} :
          EditSeenByStream(f, c) /\ clean' = (clean /\ ~(pass = "hash" /\ f = cur))
    BY <1>17 DEF FileChanges
  <2>2. WalkOK'
    BY <1>0, <2>1, EditOK DEF EditSeenByStream
  <2>3. stream' \in SUBSET Contents
    BY <2>1 DEF EditSeenByStream, TypeOK, StreamTypeOK
  <2>4. clean' \in BOOLEAN
    BY <2>1
  <2> QED BY <1>17, <2>2, <2>3, <2>4 DEF FileChanges, TypeOK, WalkOK, StreamTypeOK, createVars
<1>18. CASE VolumeChanges
  <2>1. WalkOK'
    BY <1>0, <1>18, WalkUntouched DEF VolumeChanges
  <2> QED BY <1>18, <2>1 DEF VolumeChanges, TypeOK, WalkOK, StreamTypeOK, hashVars
<1>19. CASE Kill
  <2>1. WalkOK'
    BY <1>0, <1>19, WalkUntouched DEF Kill
  <2> QED BY <1>19, <2>1 DEF Kill, TypeOK, WalkOK, StreamTypeOK, hashVars, createVars
<1>20. CASE CreatorUnknown
  <2>1. WalkOK'
    BY <1>0, <1>20, WalkUntouched DEF CreatorUnknown
  <2>2. pass' = "close" /\ result' \in Codes
    BY <1>20, CodesAreCodes DEF CreatorUnknown, GiveUp
  <2> QED BY <1>20, <2>1, <2>2
          DEF CreatorUnknown, TypeOK, WalkOK, StreamTypeOK, hashVars, createVars
<1>21. CASE UNCHANGED vars
  <2>1. WalkOK'
    BY <1>0, <1>21, WalkUntouched DEF vars
  <2> QED BY <1>21, <2>1 DEF vars, TypeOK, WalkOK, StreamTypeOK, hashVars, createVars
<1> QED BY <1>1, <1>2, <1>3, <1>4, <1>5, <1>6, <1>7, <1>8, <1>9, <1>10, <1>11, <1>12,
           <1>13, <1>14, <1>15, <1>16, <1>17, <1>18, <1>19, <1>20, <1>21
        DEF Next, Program, Stopped

\* The types of all variables, and that the walk of the command line never
\* goes past the last path.
THEOREM TypeCorrect == Spec => []TypeOK
<1>1. Init => TypeInv
  BY TypeInvInit
<1>2. TypeInv /\ [Next]_vars => TypeInv'
  BY TypeInvStep
<1>3. TypeInv => TypeOK
  BY DEF TypeInv
<1> QED BY <1>1, <1>2, <1>3, PTL DEF Spec

(***************************************************************************)
(* Errors are remembered.                                                  *)
(***************************************************************************)
LEMMA SizeFileRemembers ==
  ASSUME TypeInv, ErrorsAreRemembered, SizeFile PROVE ErrorsAreRemembered'
BY CallbackRemembers, CodesAreCodes DEF TypeInv, TypeOK, WalkOK, SizeFile

LEMMA HashCallbackRemembers ==
  ASSUME TypeInv, ErrorsAreRemembered, cur # NoFile,
         NEW res \in Codes, HashCallbackReturns(res)
  PROVE  ErrorsAreRemembered'
BY CallbackRemembers DEF TypeInv, TypeOK, WalkOK, HashCallbackReturns

\* The second pass begins without errors; no other step of the program, and
\* no change from outside, touches the result or the counters.
THEOREM SealRemembersErrors == Spec => []ErrorsAreRemembered
<1>1. Init => ErrorsAreRemembered
  BY DEF Init, WalkInit, ErrorsAreRemembered, NoCount
<1>2. TypeInv /\ ErrorsAreRemembered /\ [Next]_vars => ErrorsAreRemembered'
  <2> SUFFICES ASSUME TypeInv, ErrorsAreRemembered, [Next]_vars
               PROVE  ErrorsAreRemembered'
    OBVIOUS
  <2>1. WalkOK
    BY DEF TypeInv, TypeOK, WalkOK
  <2>2. CASE UNCHANGED <<args, arg, overall, count>>
    BY <2>2 DEF ErrorsAreRemembered
  <2>3. CASE Walk
    BY <2>1, <2>3, WalkRemembers
  <2>4. CASE SizeFile
    BY <2>4, SizeFileRemembers
  <2>5. CASE RestartWalk
    BY <2>5 DEF RestartWalk, ErrorsAreRemembered, NoCount
  <2>6. CASE HashCallback /\ \E res \in Codes : HashCallbackReturns(res)
    BY <2>6, HashCallbackRemembers DEF HashCallback
  <2>7. CASE OpenForHash
    BY <2>2, <2>6, <2>7, CodesAreCodes DEF OpenForHash, walkVars
  <2>8. CASE AddEntry
    BY <2>6, <2>8, CodesAreCodes DEF AddEntry, AddResult
  <2>9. CASE ReadFails
    BY <2>6, <2>9, CodesAreCodes DEF ReadFails
  <2>10. CASE SizePass \/ EndSizePass \/ HashWalk \/ EndHashPass \/ FinishHash
    BY <2>2, <2>3, <2>4, <2>5, <2>10
       DEF SizePass, EndSizePass, HashWalk, EndHashPass, FinishHash, walkVars
  <2>11. CASE \/ CheckMhl \/ OpenMhl \/ PrintPiece \/ CreatorUnknown \/ PrintCreatorFails \/ EndList
              \/ EndCreate \/ (\E o \in DOMAIN outs : Flush(o)) \/ Exit
    BY <2>2, <2>11 DEF CheckMhl, OpenMhl, PrintPiece, CreatorUnknown, PrintCreatorFails, EndList,
                       EndCreate, Flush, Exit, walkVars
  <2>12. CASE FileChanges \/ VolumeChanges \/ Kill \/ UNCHANGED vars
    BY <2>2, <2>12 DEF FileChanges, EditSeenByStream, Edit, VolumeChanges, Kill,
                       vars, walkVars
  <2> QED BY <2>7, <2>8, <2>9, <2>10, <2>11, <2>12 DEF Next, Program, Stopped
<1> QED BY <1>1, <1>2, TypeInvInit, TypeInvStep, PTL DEF Spec

(***************************************************************************)
(* The lists are created one after another: those before "at" are printed, *)
(* those after it have not been touched, and the one at "at" is open only  *)
(* while it is being printed, unless its volume was full.                  *)
(***************************************************************************)
NothingCreatedYet ==
  pass \in {"size", "hash"} => at = 1 /\ \A o \in DOMAIN outs : out[o] = NotOpened

InOrder ==
  \A o \in DOMAIN outs :
    /\ o < at => out[o].stage = "open" /\ out[o].printed = TextLen(o)
    /\ o > at => out[o] = NotOpened

CheckedIsFree == Creating("checked") => owner[outs[at].path] = 0

TornIfFull == ~wasFull => ~full /\ \A o \in DOMAIN outs : ~out[o].torn

GivenUp ==
  pass \in {"close", "exited"} =>
    /\ at \in DOMAIN outs /\ out[at].stage = "open" =>
         wasFull \/ result = "UNKNOWN_ERROR"
    /\ result = "OK" => at > Len(outs)

Closed ==
  pass = "exited" => \A o \in DOMAIN outs : out[o].flushed = out[o].printed

ListInv ==
  NothingCreatedYet /\ InOrder /\ CheckedIsFree /\ TornIfFull /\ GivenUp /\ Closed

LEMMA ListInvInit == ASSUME Init PROVE ListInv
<1>1. outs \in Seq(OutSpec) /\ Len(outs) \in Nat /\ DOMAIN outs = 1..Len(outs)
  BY SealAssumption DEF SealAssumption, Init
<1> QED BY <1>1 DEF Init, ListInv, NothingCreatedYet, InOrder, CheckedIsFree, Creating,
                    TornIfFull, GivenUp, Closed, NotOpened

LEMMA Outs == ASSUME TypeOK PROVE Len(outs) \in Nat /\ DOMAIN outs = 1..Len(outs)
BY SealAssumption DEF SealAssumption, TypeOK

\* The fields of the lists after a step that changes one of them.
OthersSame(o) == \A x \in DOMAIN outs \ {o} : out'[x] = out[x]

LEMMA StageSet ==
  ASSUME TypeOK, NEW o \in DOMAIN outs, NEW st, out' = [out EXCEPT ![o].stage = st]
  PROVE  /\ OthersSame(o)
         /\ out'[o].stage = st /\ out'[o].printed = out[o].printed
         /\ out'[o].flushed = out[o].flushed /\ out'[o].torn = out[o].torn
BY DEF TypeOK, OutState, OthersSame

LEMMA PiecePrinted ==
  ASSUME TypeOK, NEW o \in DOMAIN outs, out' = [out EXCEPT ![o].printed = @ + 1]
  PROVE  /\ OthersSame(o)
         /\ out'[o].stage = out[o].stage /\ out'[o].torn = out[o].torn
BY DEF TypeOK, OutState, OthersSame

LEMMA PieceFlushed ==
  ASSUME TypeOK, NEW o \in DOMAIN outs,
         out' = [out EXCEPT ![o].flushed = @ + 1, ![o].torn = @ \/ full]
  PROVE  /\ OthersSame(o)
         /\ out'[o].stage = out[o].stage /\ out'[o].printed = out[o].printed
         /\ out'[o].torn = (out[o].torn \/ full)
<1> DEFINE torn == out[o].torn \/ full
<1>1. out \in [DOMAIN outs -> OutState] /\ out[o] \in OutState
  BY DEF TypeOK
<1>2. out' = [out EXCEPT ![o] = [out[o] EXCEPT !.flushed = out[o].flushed + 1, !.torn = torn]]
  BY <1>1
<1> HIDE DEF torn
<1>3. OthersSame(o)
  BY <1>1, <1>2 DEF OthersSame
<1>4. out'[o] = [out[o] EXCEPT !.flushed = out[o].flushed + 1, !.torn = torn]
  BY <1>1, <1>2
<1>5. /\ out'[o].stage = out[o].stage /\ out'[o].printed = out[o].printed
      /\ out'[o].torn = torn
  BY <1>1, <1>4 DEF OutState
<1> QED BY <1>3, <1>5 DEF torn

LEMMA CreatorTorn ==
  ASSUME TypeOK, NEW o \in DOMAIN outs,
         out' = [out EXCEPT ![o].printed = 2, ![o].flushed = 2, ![o].torn = TRUE]
  PROVE  OthersSame(o)
<1>1. out \in [DOMAIN outs -> OutState]
  BY DEF TypeOK
<1> QED BY <1>1 DEF OthersSame

\* Up to the end of the second pass nothing is created.
LEMMA BeforeCreate ==
  ASSUME TypeOK, ListInv, pass \in {"size", "hash"},
         UNCHANGED <<outs, createVars>>,
         \/ pass' \in {"size", "hash", "create", "killed"}
         \/ pass' = "close" /\ result' # "OK"
  PROVE  ListInv'
<1>1. at = 1 /\ \A o \in DOMAIN outs : out[o] = NotOpened
  BY DEF ListInv, NothingCreatedYet
<1>2. Len(outs) \in Nat /\ DOMAIN outs = 1..Len(outs)
  BY Outs
<1>3. NothingCreatedYet' /\ InOrder' /\ CheckedIsFree'
  BY <1>1, <1>2 DEF NothingCreatedYet, InOrder, CheckedIsFree, Creating, createVars, NotOpened
<1>4. TornIfFull' /\ GivenUp' /\ Closed'
  BY <1>1, <1>2 DEF ListInv, TornIfFull, GivenUp, Closed, createVars, NotOpened
<1> QED BY <1>3, <1>4 DEF ListInv

LEMMA ListInvStep == ASSUME TypeOK, ListInv, [Next]_vars PROVE ListInv'
<1>0. Len(outs) \in Nat /\ DOMAIN outs = 1..Len(outs)
  BY Outs
<1>1. CASE pass \in {"size", "hash"}
  <2>1. UNCHANGED <<outs, createVars>>
    BY <1>1 DEF Next, Program, SizePass, EndSizePass, HashWalk, OpenForHash, FinishHash,
       ReadFails, AddEntry, HashCallbackReturns, EndHashPass, CheckMhl, OpenMhl,
       PrintPiece, CreatorUnknown, PrintCreatorFails, EndList, EndCreate, Flush, Exit, Creating,
       FileChanges, VolumeChanges, Kill, Stopped, vars
  <2>2. \/ pass' \in {"size", "hash", "create", "killed"}
        \/ pass' = "close" /\ result' # "OK"
    BY <1>1 DEF Next, Program, SizePass, EndSizePass, HashWalk, OpenForHash, FinishHash,
       ReadFails, AddEntry, HashCallbackReturns, EndHashPass, CheckMhl, OpenMhl,
       PrintPiece, CreatorUnknown, PrintCreatorFails, EndList, EndCreate, Flush, Exit, Creating,
       FileChanges, VolumeChanges, Kill, Stopped, vars
  <2> QED BY <1>1, <2>1, <2>2, BeforeCreate
<1>2. CASE CheckMhl
  <2>1. at \in DOMAIN outs /\ pass = "create" /\ out[at].stage = "none"
    BY <1>2, CreatingAt DEF CheckMhl, Creating
  <2>2. CASE GiveUp("IO_ERROR") /\ UNCHANGED out
    BY <1>0, <1>2, <2>1, <2>2
       DEF CheckMhl, GiveUp, ListInv, NothingCreatedYet, InOrder, CheckedIsFree, Creating,
           TornIfFull, GivenUp, Closed, hashVars, TextLen, OthersSame
  <2>3. CASE /\ owner[outs[at].path] = 0 /\ UNCHANGED <<pass, result>>
             /\ out' = [out EXCEPT ![at].stage = "checked"]
    <3>1. /\ OthersSame(at)
          /\ out'[at].torn = out[at].torn /\ out'[at].stage = "checked"
      BY <2>1, <2>3, StageSet
    <3> QED BY <1>0, <1>2, <2>1, <2>3, <3>1
       DEF CheckMhl, ListInv, NothingCreatedYet, InOrder, CheckedIsFree, Creating,
           TornIfFull, GivenUp, Closed, hashVars, TextLen, OthersSame
  <2> QED BY <1>2, <2>2, <2>3 DEF CheckMhl
<1>3. CASE OpenMhl
  <2>1. at \in DOMAIN outs /\ pass = "create" /\ out[at].stage = "checked"
    BY <1>3, CreatingAt DEF OpenMhl, Creating
  <2>2. CASE GiveUp("IO_ERROR") /\ UNCHANGED <<out, owner>>
    BY <1>0, <1>3, <2>1, <2>2
       DEF OpenMhl, GiveUp, ListInv, NothingCreatedYet, InOrder, CheckedIsFree, Creating,
           TornIfFull, GivenUp, Closed, hashVars, TextLen, OthersSame
  <2>3. CASE out' = [out EXCEPT ![at].stage = "open"] /\ UNCHANGED <<pass, result>>
    <3>1. /\ OthersSame(at)
          /\ out'[at].torn = out[at].torn /\ out'[at].stage = "open"
      BY <2>1, <2>3, StageSet
    <3> QED BY <1>0, <1>3, <2>1, <2>3, <3>1
       DEF OpenMhl, ListInv, NothingCreatedYet, InOrder, CheckedIsFree, Creating,
           TornIfFull, GivenUp, Closed, hashVars, TextLen, OthersSame
  <2> QED BY <1>3, <2>2, <2>3 DEF OpenMhl
<1>4. CASE PrintPiece
  <2>1. at \in DOMAIN outs /\ pass = "create" /\ out[at].stage = "open"
    BY <1>4, CreatingAt DEF PrintPiece, Creating
  <2>2. /\ OthersSame(at)
        /\ out'[at].torn = out[at].torn /\ out'[at].stage = "open"
    BY <1>4, <2>1, PiecePrinted DEF PrintPiece
  <2> QED BY <1>0, <1>4, <2>1, <2>2
     DEF PrintPiece, ListInv, NothingCreatedYet, InOrder, CheckedIsFree, Creating,
         TornIfFull, GivenUp, Closed, hashVars, TextLen, OthersSame
<1>5. CASE PrintCreatorFails
  <2>1. at \in DOMAIN outs /\ pass = "create" /\ full /\ wasFull
    BY <1>5, CreatingAt DEF PrintCreatorFails, Creating, ListInv, TornIfFull
  <2>2. OthersSame(at)
    BY <1>5, <2>1, CreatorTorn DEF PrintCreatorFails
  <2>3. /\ pass' = "close" /\ result' = "IO_ERROR" /\ wasFull' = wasFull
        /\ UNCHANGED <<at, outs, refs>>
    BY <1>5 DEF PrintCreatorFails, GiveUp, hashVars
  <2>4. NothingCreatedYet' /\ CheckedIsFree' /\ TornIfFull' /\ GivenUp' /\ Closed'
    BY <2>1, <2>3
       DEF NothingCreatedYet, CheckedIsFree, Creating, TornIfFull, GivenUp, Closed
  <2>5. InOrder'
    <3>1. at \in Nat /\ DOMAIN outs \subseteq Nat
      BY <1>0 DEF TypeOK
    <3>2. ASSUME NEW o \in DOMAIN outs, o # at PROVE out'[o] = out[o]
      BY <2>2, <3>2 DEF OthersSame
    <3> QED BY <2>3, <3>1, <3>2 DEF ListInv, InOrder, TextLen
  <2> QED BY <2>4, <2>5 DEF ListInv
<1>6. CASE EndList
  <2>1. at \in DOMAIN outs /\ pass = "create"
    BY <1>6, CreatingAt DEF EndList, Creating
  <2> QED BY <1>0, <1>6, <2>1
     DEF EndList, ListInv, NothingCreatedYet, InOrder, CheckedIsFree, Creating,
         TornIfFull, GivenUp, Closed, hashVars, TextLen, OthersSame, NotOpened
<1>7. CASE EndCreate
  BY <1>0, <1>7
     DEF EndCreate, GiveUp, ListInv, NothingCreatedYet, InOrder, CheckedIsFree, Creating,
         TornIfFull, GivenUp, Closed, hashVars, createVars, TextLen
<1>8. ASSUME NEW o \in DOMAIN outs, Flush(o) PROVE ListInv'
  <2>1. OthersSame(o)
    BY <1>8, PieceFlushed DEF Flush
  <2>2. /\ out'[o].stage = out[o].stage /\ out'[o].printed = out[o].printed
        /\ out'[o].torn = (out[o].torn \/ full)
    BY <1>8, PieceFlushed DEF Flush
  <2>3. out[o].printed # 0
    BY <1>8 DEF Flush, TypeOK, OutState
  <2>4. o <= at
    BY <1>0, <2>3 DEF ListInv, InOrder, NotOpened, TypeOK
  <2> QED BY <1>0, <1>8, <2>1, <2>2, <2>4
     DEF Flush, ListInv, NothingCreatedYet, InOrder, CheckedIsFree, Creating,
         TornIfFull, GivenUp, Closed, hashVars, TextLen, OthersSame, TypeOK
<1>9. CASE Exit
  BY <1>9 DEF Exit, ListInv, NothingCreatedYet, InOrder, CheckedIsFree, Creating,
              TornIfFull, GivenUp, Closed, hashVars, createVars, TextLen
<1>10. CASE VolumeChanges
  BY <1>10 DEF VolumeChanges, ListInv, NothingCreatedYet, InOrder, CheckedIsFree, Creating,
               TornIfFull, GivenUp, Closed, hashVars, createVars, TextLen
<1>11. CASE Kill /\ pass \notin {"size", "hash"}
  BY <1>11 DEF Kill, ListInv, NothingCreatedYet, InOrder, CheckedIsFree, Creating,
               TornIfFull, GivenUp, Closed, hashVars, createVars, TextLen
<1>12. CASE UNCHANGED vars
  BY <1>12 DEF vars, ListInv, NothingCreatedYet, InOrder, CheckedIsFree, Creating,
               TornIfFull, GivenUp, Closed, hashVars, createVars, TextLen
<1>13. CASE CreatorUnknown
  BY <1>0, <1>13
     DEF CreatorUnknown, Creating, GiveUp, ListInv, NothingCreatedYet, InOrder,
         CheckedIsFree, TornIfFull, GivenUp, Closed, hashVars, createVars, TextLen
<1>14. CASE pass \notin {"size", "hash"}
  BY <1>2, <1>3, <1>4, <1>5, <1>6, <1>7, <1>8, <1>9, <1>10, <1>11, <1>12, <1>13, <1>14
     DEF Next, Program, SizePass, EndSizePass, HashWalk, OpenForHash, FinishHash,
         ReadFails, AddEntry, HashCallback, EndHashPass, FileChanges, Stopped
<1> QED BY <1>1, <1>14

\* An MHL that exists is never opened for writing: between the search for it
\* and fopen the program itself creates none.
THEOREM SealNeverOverwrites == Spec => NeverOverwrites
<1>1. TypeOK /\ ListInv /\ [Next]_vars =>
        [\A p \in ListPaths : owner[p] # 0 => owner'[p] = owner[p]]_vars
  <2> SUFFICES ASSUME TypeOK, ListInv, Next, NEW p \in ListPaths, owner[p] # 0
               PROVE  owner'[p] = owner[p]
    OBVIOUS
  <2>1. CASE owner' = owner
    BY <2>1
  <2>2. CASE OpenMhl
    <3>1. at \in DOMAIN outs /\ owner[outs[at].path] = 0
      BY <2>2, CreatingAt DEF OpenMhl, Creating, ListInv, CheckedIsFree
    <3> QED BY <2>2, <3>1 DEF OpenMhl, TypeOK
  <2>3. CASE ~OpenMhl
    BY <2>1, <2>3 DEF Next, Program, SizePass, EndSizePass, HashWalk, OpenForHash,
       FinishHash, ReadFails, AddEntry, HashCallbackReturns, EndHashPass, CheckMhl,
       PrintPiece, CreatorUnknown, PrintCreatorFails, EndList, EndCreate, Flush, Exit,
       FileChanges, VolumeChanges, Kill, Stopped, vars, createVars
  <2> QED BY <2>2, <2>3
<1>2. TypeInv => TypeOK
  BY DEF TypeInv
<1> QED BY <1>1, <1>2, TypeInvInit, TypeInvStep, ListInvInit, ListInvStep, PTL
        DEF Spec, NeverOverwrites

\* A program that exits has closed all lists, and those it opened are
\* complete, unless the volume was full.
THEOREM SealLeavesNoHalfWrittenLists == Spec => []NoHalfWrittenLists
<1>1. TypeOK /\ ListInv => NoHalfWrittenLists
  <2> SUFFICES ASSUME TypeOK, ListInv, pass = "exited", ~wasFull, NEW o \in DOMAIN outs
               PROVE  /\ out[o].stage = "open" =>
                           WellFormed(o) \/ (o = at /\ result = "UNKNOWN_ERROR")
                      /\ result = "OK" => WellFormed(o)
    BY DEF NoHalfWrittenLists
  <2>1. Len(outs) \in Nat /\ DOMAIN outs = 1..Len(outs) /\ at \in Nat
    BY Outs DEF TypeOK
  <2>2. out[o].stage = "open" => o < at \/ (o = at /\ result = "UNKNOWN_ERROR")
    BY <2>1 DEF ListInv, InOrder, NotOpened, GivenUp
  <2>3. o < at => WellFormed(o)
    BY DEF ListInv, InOrder, Closed, TornIfFull, WellFormed
  <2>4. result = "OK" => o < at
    BY <2>1 DEF ListInv, GivenUp
  <2> QED BY <2>2, <2>3, <2>4
<1>2. TypeInv => TypeOK
  BY DEF TypeInv
<1> QED BY <1>1, <1>2, TypeInvInit, TypeInvStep, ListInvInit, ListInvStep, PTL DEF Spec

(***************************************************************************)
(* What a step can never do: take a reference back, or change a file that  *)
(* nobody touched.                                                         *)
(***************************************************************************)
Growth ==
  /\ outs' = outs /\ args' = args
  /\ touched \subseteq touched'
  /\ \A f \in Files \ touched' : disk'[f] = disk[f]
  /\ \A o \in DOMAIN outs : FilesSealedIn(o) \subseteq FilesSealedIn(o)'

\* A new entry stays with those that were there.
LEMMA AddEntryGrows ==
  ASSUME TypeInv, AddEntry
  PROVE  /\ \A o \in DOMAIN outs : FilesSealedIn(o) \subseteq FilesSealedIn(o)'
         /\ \A o \in DOMAIN outs :
              Exists(cur) /\ cur \in outs[o].covers => cur \in FilesSealedIn(o)'
<1> USE AddEntryType
<1>1. refs \in [DOMAIN outs -> Seq(Nat)] /\ entries \in Seq(Entry) /\ Len(entries) \in Nat
  BY DEF TypeInv, TypeOK
<1>2. ASSUME NEW o \in DOMAIN outs, NEW f \in FilesSealedIn(o)
      PROVE  f \in FilesSealedIn(o)'
  <2>1. PICK i \in DOMAIN refs[o] : f = entries[refs[o][i]].file
    BY <1>2 DEF FilesSealedIn
  <2>2. refs[o][i] \in DOMAIN entries /\ refs[o] \in Seq(Nat)
    BY <1>1, <2>1 DEF TypeInv, TypeOK
  <2>3. i \in DOMAIN refs'[o] /\ refs'[o][i] = refs[o][i]
    <3>1. refs'[o] = refs[o] \/ refs'[o] = Append(refs[o], Len(entries) + 1)
      OBVIOUS
    <3>2. i \in 1..Len(refs[o]) /\ Len(entries) + 1 \in Nat /\ Len(refs[o]) \in Nat
      BY <1>1, <2>1, <2>2
    <3>3. CASE refs'[o] = Append(refs[o], Len(entries) + 1)
      BY <2>2, <3>2, <3>3
    <3> QED BY <2>1, <3>1, <3>3
  <2>4. entries'[refs'[o][i]].file = f
    BY <2>1, <2>2, <2>3
  <2> QED BY <2>3, <2>4 DEF FilesSealedIn
<1>3. ASSUME NEW o \in DOMAIN outs, Exists(cur), cur \in outs[o].covers
      PROVE  cur \in FilesSealedIn(o)'
  <2>1. refs[o] \in Seq(Nat) /\ refs'[o] = Append(refs[o], Len(entries) + 1)
    BY <1>1, <1>3
  <2>2. Len(refs[o]) + 1 \in DOMAIN refs'[o] /\ refs'[o][Len(refs[o]) + 1] = Len(entries) + 1
    BY <1>1, <2>1
  <2>3. entries'[refs'[o][Len(refs[o]) + 1]].file = cur
    BY <2>2
  <2> QED BY <2>2, <2>3 DEF FilesSealedIn
<1> QED BY <1>2, <1>3

LEMMA StepGrows == ASSUME TypeInv, [Next]_vars PROVE Growth
<1>1. outs' = outs /\ args' = args
  BY DEF Next, Program, SizePass, SizeFile, Walk, MissingPath, IgnorePath, BeginFile,
     BeginFolder, VisitEntry, EndFolder, FolderFails, RefuseSequence, BeginSequence, ProbeNumber,
     ProbesDone, VisitNumber, EndSequence, EndSizePass, RestartWalk, HashWalk,
     OpenForHash, FinishHash, ReadFails, AddEntry, HashCallbackReturns, CallbackReturns,
     EndHashPass, CheckMhl, OpenMhl, PrintPiece, CreatorUnknown, PrintCreatorFails, EndList, EndCreate,
     Flush, Exit, FileChanges, EditSeenByStream, Edit, VolumeChanges, Kill, Stopped,
     vars, walkVars
<1>2. CASE AddEntry
  <2>1. UNCHANGED diskVars
    BY <1>2 DEF AddEntry, HashCallbackReturns
  <2> QED BY <1>1, <1>2, <2>1, AddEntryGrows DEF Growth, diskVars
<1>3. CASE FileChanges
  <2>1. PICK f \in Files, c \in Contents \cup {Absent} : Edit(f, c)
    BY <1>3 DEF FileChanges, EditSeenByStream
  <2>2. touched' = touched \cup {f} /\ disk' = [disk EXCEPT ![f] = c]
    BY <2>1 DEF Edit
  <2>3. disk \in [Files -> Contents \cup {Absent}]
    BY DEF TypeInv, TypeOK, WalkTypeOK
  <2> QED BY <1>1, <1>3, <2>2, <2>3 DEF Growth, FileChanges, FilesSealedIn
<1>4. CASE UNCHANGED <<diskVars, entries, refs>>
  BY <1>1, <1>4 DEF Growth, FilesSealedIn, diskVars
<1>5. CASE ~AddEntry /\ ~FileChanges
  <2>1. UNCHANGED <<diskVars, entries, refs>>
    BY <1>5 DEF Next, Program, SizePass, SizeFile, Walk, MissingPath, IgnorePath, BeginFile,
     BeginFolder, VisitEntry, EndFolder, FolderFails, RefuseSequence, BeginSequence, ProbeNumber,
     ProbesDone, VisitNumber, EndSequence, EndSizePass, HashWalk,
     OpenForHash, FinishHash, ReadFails, HashCallbackReturns,
     EndHashPass, CheckMhl, OpenMhl, PrintPiece, CreatorUnknown, PrintCreatorFails, EndList, EndCreate,
     Flush, Exit, VolumeChanges, Kill, Stopped, vars, hashVars
  <2> QED BY <1>4, <2>1
<1> QED BY <1>2, <1>3, <1>5

(***************************************************************************)
(* Completeness.  A path is sealed if none of the files it names, and none *)
(* of the stable files below it, is missing from the data the lists are    *)
(* printed from.  The walk seals the paths one after another, and in a     *)
(* folder or a sequence file after file.                                   *)
(***************************************************************************)
FileSealed(f) ==
  /\ \E o \in DOMAIN outs : f \in outs[o].covers
  /\ \A o \in DOMAIN outs : f \in outs[o].covers => f \in FilesSealedIn(o)

PathSealed(p) ==
  /\ p.readable
  /\ \A j \in DOMAIN p.files : FileSealed(p.files[j])
  /\ \A f \in FilesOf(p) \ touched :
       /\ Exists(f) => FileSealed(f)
       /\ p.kind # "folder" => Exists(f)

PathsSoFar ==
  pass = "hash" /\ overall = "OK" => \A i \in 1..(arg - 1) : PathSealed(args[i])

FolderSoFar ==
  pass = "hash" /\ walk.at = "folder" =>
    \A f \in ThePath.below \ touched :
      Exists(f) => FileSealed(f) \/ f \in walk.must \/ f = cur

NumbersSoFar ==
  pass = "hash" /\ walk.at = "number" =>
    \A j \in 1..(walk.pos - 1) :
      LET f == ThePath.files[j]
      IN f = cur \/ (FileSealed(f) /\ (f \notin touched => Exists(f)))

AllSealed == \A i \in DOMAIN args : PathSealed(args[i])

ListsAfterwards ==
  pass = "create" \/ (\E o \in DOMAIN outs : out[o].stage # "none") => AllSealed

SealInv == PathsSoFar /\ FolderSoFar /\ NumbersSoFar /\ ListsAfterwards

\* What SealInv speaks of: no other variable matters to it.
LEMMA SealInvStays ==
  ASSUME SealInv,
         UNCHANGED <<disk, touched, args, arg, walk, cur, overall, pass, out, outs, entries,
                     refs>>
  PROVE  SealInv'
<1>1. \A f : FileSealed(f)' = FileSealed(f) /\ Exists(f)' = Exists(f)
  BY DEF FileSealed, FilesSealedIn, Exists
<1>2. \A p : PathSealed(p)' = PathSealed(p)
  BY <1>1 DEF PathSealed
<1>3. AllSealed' = AllSealed
  BY <1>2 DEF AllSealed
<1>4. PathsSoFar'
  BY <1>2 DEF SealInv, PathsSoFar
<1>5. FolderSoFar'
  BY <1>1 DEF SealInv, FolderSoFar, ThePath
<1>6. NumbersSoFar'
  BY <1>1 DEF SealInv, NumbersSoFar, ThePath
<1>7. ListsAfterwards'
  BY <1>3 DEF SealInv, ListsAfterwards
<1> QED BY <1>4, <1>5, <1>6, <1>7 DEF SealInv

LEMMA FileSealedStays ==
  ASSUME Growth, NEW f \in Files, FileSealed(f) PROVE FileSealed(f)'
BY DEF Growth, FileSealed

LEMMA ExistsStays ==
  ASSUME Growth, NEW f \in Files, f \notin touched' PROVE Exists(f)' = Exists(f)
BY DEF Growth, Exists

LEMMA FilesOfPath == ASSUME NEW p \in PathSpec PROVE FilesOf(p) \subseteq Files
<1>1. p.below \subseteq Files /\ p.files \in Seq(Files)
  BY DEF PathSpec
<1> QED BY <1>1 DEF FilesOf

LEMMA PathSealedStays ==
  ASSUME Growth, NEW p \in PathSpec, PathSealed(p) PROVE PathSealed(p)'
<1>1. ASSUME NEW j \in DOMAIN p.files PROVE FileSealed(p.files[j])'
  <2>1. p.files[j] \in Files /\ FileSealed(p.files[j])
    BY DEF PathSpec, PathSealed
  <2>2. PICK f \in Files : f = p.files[j]
    BY <2>1
  <2>3. FileSealed(f)'
    BY <2>1, <2>2, FileSealedStays
  <2> QED BY <2>2, <2>3
<1>2. ASSUME NEW f \in FilesOf(p) \ touched'
      PROVE  /\ Exists(f)' => FileSealed(f)'
             /\ p.kind # "folder" => Exists(f)'
  <2>1. f \in Files /\ f \in FilesOf(p) \ touched
    BY <1>2, FilesOfPath DEF Growth
  <2>2. Exists(f)' = Exists(f)
    BY <1>2, <2>1, ExistsStays
  <2> QED BY <2>1, <2>2, FileSealedStays DEF PathSealed
<1> QED BY <1>1, <1>2 DEF PathSealed

LEMMA PathsAreSpecs ==
  ASSUME TypeOK PROVE /\ args \in Seq(PathSpec) /\ Len(args) \in Nat
                      /\ arg \in 1..(Len(args) + 1)
                      /\ \A i \in DOMAIN args : args[i] \in PathSpec
                      /\ DOMAIN args = 1..Len(args)
BY ArgWalkAssumption DEF ArgWalkAssumption, TypeOK, WalkTypeOK

\* The paths before the one at hand stay sealed.
LEMMA PathsStaySealed ==
  ASSUME TypeOK, Growth, NEW n \in 1..(Len(args) + 1),
         \A i \in 1..(n - 1) : PathSealed(args[i])
  PROVE  \A i \in 1..(n - 1) : PathSealed(args[i])'
<1>1. SUFFICES ASSUME NEW i \in 1..(n - 1) PROVE PathSealed(args[i])'
  OBVIOUS
<1>2. args[i] \in PathSpec /\ PathSealed(args[i]) /\ args' = args
  BY <1>1, PathsAreSpecs DEF Growth
<1> DEFINE p == args[i]
<1>3. PathSealed(p)'
  BY <1>2, PathSealedStays
<1> QED BY <1>2, <1>3

\* The walk's own steps seal nothing and forget nothing.
LEMMA WalkSeals ==
  ASSUME TypeInv, SealInv, Growth, Walk, pass = "hash", pass' = "hash",
         UNCHANGED <<out, entries, refs, disk, touched>>
  PROVE  PathsSoFar' /\ FolderSoFar' /\ NumbersSoFar'
<1>0. /\ args' = args /\ outs' = outs /\ args \in Seq(PathSpec) /\ Len(args) \in Nat
      /\ arg \in 1..(Len(args) + 1) /\ \A i \in DOMAIN args : args[i] \in PathSpec
      /\ TypeOK /\ WalkTypeOK /\ WalkShape
  BY PathsAreSpecs DEF Growth, TypeInv, TypeOK
<1>1. ASSUME NEW f PROVE FileSealed(f)' = FileSealed(f) /\ Exists(f)' = Exists(f)
  BY <1>0 DEF FileSealed, FilesSealedIn, Exists
<1>2. ASSUME NEW p PROVE PathSealed(p)' = PathSealed(p)
  BY <1>1 DEF PathSealed
<1>3. ASSUME UNCHANGED <<arg, overall>> PROVE PathsSoFar'
  BY <1>0, <1>2, <1>3 DEF SealInv, PathsSoFar
\* The end of a path: it has failed, or it is sealed.
<1>4. ASSUME NEW res, NextPath(res), arg <= Len(args),
             res = "OK" => PathSealed(ThePath)
      PROVE  PathsSoFar' /\ FolderSoFar' /\ NumbersSoFar'
  <2>1. walk'.at = "path" /\ arg' = arg + 1
    BY <1>4 DEF NextPath, Idle
  <2>2. PathsSoFar'
    <3> SUFFICES ASSUME overall' = "OK", NEW i \in 1..arg PROVE PathSealed(args[i])
      BY <1>0, <1>2, <2>1 DEF PathsSoFar
    <3>1. res = "OK" /\ overall = "OK"
      BY <1>4 DEF NextPath
    <3>2. CASE i = arg
      BY <1>4, <3>1, <3>2 DEF ThePath
    <3>3. CASE i \in 1..(arg - 1)
      BY <3>1, <3>3 DEF SealInv, PathsSoFar
    <3> QED BY <1>0, <3>2, <3>3
  <2>3. FolderSoFar' /\ NumbersSoFar'
    BY <2>1 DEF FolderSoFar, NumbersSoFar
  <2> QED BY <2>2, <2>3
<1>5. CASE MissingPath
  <2>1. NextPath("NO_SUCH_FILE") /\ arg <= Len(args)
    BY <1>5 DEF MissingPath
  <2> QED BY <1>4, <2>1
<1>6. CASE IgnorePath
  <2>1. NextPath("OK") /\ arg <= Len(args) /\ ThePath.kind = "other"
    BY <1>6 DEF IgnorePath
  <2>2. PathSealed(ThePath)
    <3>1. FilesOf(ThePath) = {} /\ ThePath.files = <<>> /\ ThePath.readable
      BY <1>0, <2>1, ThePathType DEF FilesOf
    <3> QED BY <2>1, <3>1 DEF PathSealed
  <2> QED BY <1>4, <2>1, <2>2
<1>7. CASE BeginFile
  <2>1. UNCHANGED <<arg, overall, walk>> /\ walk.at = "path"
    BY <1>7 DEF BeginFile
  <2> QED BY <1>3, <2>1 DEF FolderSoFar, NumbersSoFar
<1>8. CASE BeginFolder
  <2>1. /\ UNCHANGED <<arg, overall>>
        /\ walk'.at = "folder" /\ walk'.must = {f \in ThePath.below : Exists(f)}
    BY <1>8 DEF BeginFolder, InFolder, Idle
  <2>2. ThePath' = ThePath
    BY <1>0, <2>1 DEF ThePath
  <2>3. FolderSoFar'
    BY <1>1, <2>1, <2>2 DEF FolderSoFar
  <2> QED BY <1>3, <2>1, <2>3 DEF NumbersSoFar
<1>9. CASE VisitEntry
  <2>1. PICK f \in walk.must \cup walk.may :
          cur' = f /\ walk' = [walk EXCEPT !.must = @ \ {f}, !.may = @ \ {f}]
    BY <1>9 DEF VisitEntry
  <2>2. /\ UNCHANGED <<arg, overall>> /\ walk.at = "folder" /\ cur = NoFile
        /\ walk'.at = "folder" /\ walk'.must = walk.must \ {f} /\ ThePath' = ThePath
    BY <1>0, <1>9, <2>1 DEF VisitEntry, WalkTypeOK, Places, ThePath
  <2>3. ThePath.below \subseteq Files
    BY <1>0, <2>2, ThePathType DEF WalkShape, PathSpec
  <2>4. FolderSoFar'
    <3> SUFFICES ASSUME NEW g \in ThePath.below \ touched, Exists(g)
                 PROVE  FileSealed(g) \/ g \in walk.must \ {f} \/ g = f
      BY <1>1, <2>1, <2>2 DEF FolderSoFar
    <3>1. g # cur
      BY <2>2, <2>3, ArgWalkAssumption DEF ArgWalkAssumption
    <3> QED BY <2>2, <3>1 DEF SealInv, FolderSoFar
  <2> QED BY <1>3, <2>2, <2>4 DEF NumbersSoFar
<1>10. CASE EndFolder
  <2>1. /\ NextPath("OK") /\ arg <= Len(args) /\ ThePath.kind = "folder" /\ ThePath.readable
        /\ walk.at = "folder" /\ walk.must = {} /\ cur = NoFile
    BY <1>0, <1>10 DEF EndFolder, WalkShape
  <2>2. FilesOf(ThePath) = ThePath.below /\ ThePath.below \subseteq Files
        /\ ThePath.files = <<>>
    BY <1>0, <2>1, ThePathType DEF FilesOf, PathSpec
  <2>3. PathSealed(ThePath)
    BY <2>1, <2>2, ArgWalkAssumption DEF ArgWalkAssumption, PathSealed, SealInv, FolderSoFar
  <2> QED BY <1>4, <2>1, <2>3
<1>11. CASE FolderFails
  <2>1. NextPath("IO_ERROR") /\ arg <= Len(args)
    BY <1>0, <1>11 DEF FolderFails, WalkShape
  <2> QED BY <1>4, <2>1
<1>12. CASE BeginSequence
  <2>1. UNCHANGED <<arg, overall>> /\ walk'.at = "probe"
    BY <1>12 DEF BeginSequence, Probing, Idle
  <2> QED BY <1>3, <2>1 DEF FolderSoFar, NumbersSoFar
<1>13. CASE ProbeNumber
  <2>1. UNCHANGED <<arg, overall>> /\ walk'.at = "probe"
    BY <1>0, <1>13 DEF ProbeNumber, WalkTypeOK, Places
  <2> QED BY <1>3, <2>1 DEF FolderSoFar, NumbersSoFar
<1>14. CASE ProbesDone
  <2>1. CASE NextPath("GAP_IN_SEQUENCE") /\ arg <= Len(args)
    BY <1>4, <2>1
  <2>2. CASE walk' = Numbering /\ UNCHANGED <<arg, overall>>
    <3>1. walk'.at = "number" /\ walk'.pos = 1
      BY <2>2 DEF Numbering, Idle
    <3> QED BY <1>3, <2>2, <3>1 DEF FolderSoFar, NumbersSoFar
  <2> QED BY <1>0, <1>14, <2>1, <2>2 DEF ProbesDone, WalkShape
<1>15. CASE VisitNumber
  <2>1. /\ UNCHANGED <<arg, overall>> /\ walk.at = "number" /\ cur = NoFile
        /\ cur' = ThePath.files[walk.pos] /\ walk.pos \in 1..Len(ThePath.files)
        /\ walk'.at = "number" /\ walk'.pos = walk.pos + 1 /\ ThePath' = ThePath
    BY <1>0, <1>15 DEF VisitNumber, WalkTypeOK, WalkShape, Places, ThePath
  <2>2. ThePath.files \in Seq(Files)
    BY <1>0, <2>1, ThePathType DEF WalkShape, PathSpec
  <2>3. NumbersSoFar'
    <3> SUFFICES ASSUME NEW j \in 1..walk.pos
                 PROVE  LET f == ThePath.files[j]
                        IN \/ FileSealed(f) /\ (f \notin touched => Exists(f))
                           \/ f = ThePath.files[walk.pos]
      BY <1>1, <2>1 DEF NumbersSoFar
    <3>1. CASE j = walk.pos
      BY <3>1
    <3>2. CASE j \in 1..(walk.pos - 1)
      <4>1. ThePath.files[j] # cur
        BY <2>1, <2>2, <3>2, ArgWalkAssumption DEF ArgWalkAssumption
      <4> QED BY <2>1, <3>2, <4>1 DEF SealInv, NumbersSoFar
    <3> QED BY <2>1, <3>1, <3>2
  <2> QED BY <1>3, <2>1, <2>3 DEF FolderSoFar
<1>16. CASE EndSequence
  <2>1. /\ NextPath("OK") /\ arg <= Len(args) /\ ThePath.kind = "sequence"
        /\ walk.at = "number" /\ walk.pos > Len(ThePath.files) /\ cur = NoFile
        /\ walk.pos \in Nat /\ ThePath.readable
    BY <1>0, <1>16 DEF EndSequence, WalkShape, WalkTypeOK, Places
  <2>2. /\ ThePath.below = {} /\ ThePath.files \in Seq(Files)
        /\ FilesOf(ThePath) = {ThePath.files[j] : j \in DOMAIN ThePath.files}
    BY <1>0, <2>1, ThePathType DEF FilesOf, PathSpec
  <2>3. ASSUME NEW j \in DOMAIN ThePath.files
        PROVE  LET f == ThePath.files[j]
               IN FileSealed(f) /\ (f \notin touched => Exists(f))
    <3>1. j \in 1..(walk.pos - 1) /\ ThePath.files[j] \in Files
      BY <2>1, <2>2
    <3>2. ThePath.files[j] # cur
      BY <2>1, <3>1, ArgWalkAssumption DEF ArgWalkAssumption
    <3> QED BY <2>1, <3>1, <3>2 DEF SealInv, NumbersSoFar
  <2>4. PathSealed(ThePath)
    BY <2>1, <2>2, <2>3 DEF PathSealed
  <2> QED BY <1>4, <2>1, <2>4
<1>17. CASE RefuseSequence
  <2>1. NextPath("INVALID_SEQUENCE") /\ arg <= Len(args)
    BY <1>17 DEF RefuseSequence
  <2> QED BY <1>4, <2>1
<1> QED BY <1>5, <1>6, <1>7, <1>8, <1>9, <1>10, <1>11, <1>12, <1>13, <1>14, <1>15,
           <1>16, <1>17 DEF Walk

\* A callback that returns "OK" has sealed its file; one that does not ends
\* the path with an error.
LEMMA CallbackSeals ==
  ASSUME TypeInv, SealInv, Growth, NEW res, HashCallback, HashCallbackReturns(res),
         res = "OK" => \A f \in Files : f = cur => Exists(f)' /\ FileSealed(f)'
  PROVE  PathsSoFar' /\ FolderSoFar' /\ NumbersSoFar'
<1>0. /\ args' = args /\ args \in Seq(PathSpec) /\ Len(args) \in Nat
      /\ arg \in 1..(Len(args) + 1) /\ arg <= Len(args)
      /\ TypeOK /\ WalkTypeOK /\ WalkShape /\ cur # NoFile /\ pass = "hash"
      /\ ThePath \in PathSpec /\ DOMAIN args = 1..Len(args)
  BY PathsAreSpecs, ThePathType
     DEF Growth, TypeInv, TypeOK, HashCallback, WalkShape
<1>1. CallbackReturns(res) /\ cur' = NoFile
  BY DEF HashCallbackReturns, CallbackReturns
<1>2. ASSUME res = "OK", NEW f \in Files, f = cur
      PROVE  Exists(f)' /\ FileSealed(f)'
  BY <1>2
<1>3. \A i \in 1..(arg - 1) : overall = "OK" => PathSealed(args[i])'
  BY <1>0, PathsStaySealed DEF SealInv, PathsSoFar
\* The path goes on.
<1>4. CASE UNCHANGED <<arg, walk, overall>> /\ res = "OK" /\ walk.at # "path"
  <2>1. ThePath' = ThePath
    BY <1>0, <1>4 DEF ThePath
  <2>2. PathsSoFar'
    BY <1>0, <1>3, <1>4 DEF PathsSoFar
  <2>3. FolderSoFar'
    <3> SUFFICES ASSUME walk.at = "folder",
                        NEW f \in ThePath.below \ touched', Exists(f)'
                 PROVE  FileSealed(f)' \/ f \in walk.must
      BY <1>4, <2>1 DEF FolderSoFar
    <3>1. f \in Files /\ Exists(f) /\ f \notin touched
      BY <1>0, ExistsStays DEF PathSpec, Growth
    <3>2. FileSealed(f) \/ f \in walk.must \/ f = cur
      BY <1>0, <3>1 DEF SealInv, FolderSoFar
    <3> QED BY <1>2, <1>4, <3>1, <3>2, FileSealedStays
  <2>4. NumbersSoFar'
    <3> SUFFICES ASSUME walk.at = "number", NEW j \in 1..(walk.pos - 1)
                 PROVE  LET f == ThePath.files[j]
                        IN FileSealed(f)' /\ (f \notin touched' => Exists(f)')
      BY <1>4, <2>1 DEF NumbersSoFar
    <3>1. ThePath.files[j] \in Files
      BY <1>0 DEF PathSpec, WalkShape, WalkTypeOK, Places
    <3>2. PICK f \in Files : f = ThePath.files[j]
      BY <3>1
    <3>3. f \notin touched' => f \notin touched
      BY DEF Growth
    <3>4. CASE f = cur
      BY <1>2, <1>4, <2>1, <3>2, <3>4
    <3>5. CASE FileSealed(f) /\ (f \notin touched => Exists(f))
      <4>1. FileSealed(f)' /\ (f \notin touched' => Exists(f)')
        BY <3>3, <3>5, FileSealedStays, ExistsStays
      <4> QED BY <2>1, <3>2, <4>1
    <3> QED BY <1>0, <3>2, <3>4, <3>5 DEF SealInv, NumbersSoFar
  <2> QED BY <2>2, <2>3, <2>4
\* The path ends.
<1>5. CASE NextPath(res) /\ (res = "OK" => walk.at = "path")
  <2>1. walk'.at = "path" /\ arg' = arg + 1
    BY <1>5 DEF NextPath, Idle
  <2>2. PathsSoFar'
    <3> SUFFICES ASSUME overall' = "OK", NEW i \in 1..arg PROVE PathSealed(args[i])'
      BY <1>0, <2>1 DEF PathsSoFar
    <3>1. res = "OK" /\ overall = "OK" /\ walk.at = "path"
      BY <1>5 DEF NextPath
    <3>2. CASE i = arg
      <4> DEFINE p == ThePath
      <4>1. /\ p \in PathSpec /\ p.kind = "file" /\ cur = p.files[1] /\ Len(p.files) = 1
            /\ p.below = {} /\ cur \in Files /\ p.readable
        BY <1>0, <3>1, ThePathType DEF WalkShape, WalkTypeOK
      <4>2. FilesOf(p) = {cur} /\ \A j \in DOMAIN p.files : p.files[j] = cur
        BY <4>1 DEF FilesOf, PathSpec
      <4>3. p = args[i] /\ args[i]' = args[i]
        BY <1>0, <3>2 DEF ThePath
      <4> HIDE DEF p
      <4>4. PathSealed(args[i])'
        BY <1>2, <3>1, <4>1, <4>2, <4>3 DEF PathSealed
      <4> QED BY <4>4
    <3>3. CASE i \in 1..(arg - 1)
      BY <1>3, <3>1, <3>3
    <3> QED BY <1>0, <3>2, <3>3
  <2>3. FolderSoFar' /\ NumbersSoFar'
    BY <2>1 DEF FolderSoFar, NumbersSoFar
  <2> QED BY <2>2, <2>3
<1> QED BY <1>1, <1>4, <1>5 DEF CallbackReturns

LEMMA SealInvInit == ASSUME Init PROVE SealInv
BY DEF Init, SealInv, PathsSoFar, FolderSoFar, NumbersSoFar, ListsAfterwards, NotOpened

\* Other programs' changes concern touched files only.
LEMMA FileChangesSeals ==
  ASSUME TypeInv, SealInv, Growth, FileChanges
  PROVE  PathsSoFar' /\ FolderSoFar' /\ NumbersSoFar'
<1>0. /\ args' = args /\ args \in Seq(PathSpec) /\ Len(args) \in Nat
      /\ arg \in 1..(Len(args) + 1) /\ DOMAIN args = 1..Len(args)
      /\ TypeOK /\ WalkTypeOK /\ WalkShape
  BY PathsAreSpecs DEF Growth, TypeInv, TypeOK
<1>1. PICK f \in Files, c \in Contents \cup {Absent} : Edit(f, c)
  BY DEF FileChanges, EditSeenByStream
<1>2. /\ UNCHANGED <<arg, overall, cur>> /\ pass' = pass /\ touched' = touched \cup {f}
      /\ ThePath' = ThePath
  BY <1>0, <1>1 DEF FileChanges, Edit, ThePath
<1>3. \/ walk' = walk
      \/ walk' = [walk EXCEPT !.must = @ \ {f}, !.may = @ \cup {f}]
  BY <1>1 DEF Edit
<1>4. walk'.at = walk.at /\ walk'.pos = walk.pos /\ walk.must \subseteq walk'.must \cup {f}
  <2>1. CASE walk' = walk
    BY <2>1
  <2>2. CASE walk' = [walk EXCEPT !.must = @ \ {f}, !.may = @ \cup {f}]
    <3>1. walk \in Places
      BY <1>0 DEF WalkTypeOK
    <3>2. walk'.at = walk.at /\ walk'.pos = walk.pos /\ walk'.must = walk.must \ {f}
      BY <2>2, <3>1 DEF Places
    <3> QED BY <3>2
  <2> QED BY <1>3, <2>1, <2>2
<1>5. PathsSoFar'
  BY <1>0, <1>2, PathsStaySealed DEF SealInv, PathsSoFar
<1>6. FolderSoFar'
  <2> SUFFICES ASSUME walk.at = "folder", pass = "hash",
                      NEW g \in ThePath.below \ touched', Exists(g)'
               PROVE  FileSealed(g)' \/ g \in walk'.must \/ g = cur
    BY <1>2, <1>4 DEF FolderSoFar
  <2>1. ThePath.below \subseteq Files
    BY <1>0, ThePathType DEF WalkShape, PathSpec
  <2>2. g \in Files /\ Exists(g) /\ g \notin touched /\ g # f
    BY <1>2, <2>1, ExistsStays
  <2>3. FileSealed(g) \/ g \in walk.must \/ g = cur
    BY <2>2 DEF SealInv, FolderSoFar
  <2> QED BY <1>4, <2>2, <2>3, FileSealedStays
<1>7. NumbersSoFar'
  <2> SUFFICES ASSUME walk.at = "number", pass = "hash", NEW j \in 1..(walk.pos - 1)
               PROVE  LET g == ThePath.files[j]
                      IN g = cur \/ (FileSealed(g)' /\ (g \notin touched' => Exists(g)'))
    BY <1>2, <1>4 DEF NumbersSoFar
  <2>1. ThePath.files[j] \in Files
    BY <1>0, ThePathType DEF WalkShape, WalkTypeOK, Places, PathSpec
  <2>2. PICK g \in Files : g = ThePath.files[j]
    BY <2>1
  <2>3. g \notin touched' => g \notin touched
    BY <1>2
  <2>4. g = cur \/ (FileSealed(g) /\ (g \notin touched => Exists(g)))
    BY <2>2 DEF SealInv, NumbersSoFar
  <2>5. CASE FileSealed(g) /\ (g \notin touched => Exists(g))
    <3>1. FileSealed(g)' /\ (g \notin touched' => Exists(g)')
      BY <2>3, <2>5, FileSealedStays, ExistsStays
    <3> QED BY <1>2, <2>2, <3>1
  <2> QED BY <2>2, <2>4, <2>5
<1> QED BY <1>5, <1>6, <1>7

LEMMA SealInvStep ==
  ASSUME TypeInv, ListInv, SealInv, [Next]_vars PROVE SealInv'
<1>0. Growth /\ TypeOK
  BY StepGrows DEF TypeInv
\* Before the lists are created nothing is claimed of them.
<1>1. ASSUME pass \in {"size", "hash"}, pass' # "create", UNCHANGED <<out, outs>>
      PROVE  ListsAfterwards'
  BY <1>1 DEF ListInv, NothingCreatedYet, NotOpened, ListsAfterwards
<1>2. CASE HashWalk
  <2>1. Walk /\ pass = "hash" /\ pass' = "hash"
        /\ UNCHANGED <<out, outs, entries, refs, disk, touched>>
    BY <1>2 DEF HashWalk, Walk, MissingPath, IgnorePath, BeginFile,
     BeginFolder, VisitEntry, EndFolder, FolderFails, RefuseSequence, BeginSequence, ProbeNumber,
     ProbesDone, VisitNumber, EndSequence, hashVars, createVars, diskVars
  <2> QED BY <1>0, <1>1, <2>1, WalkSeals DEF SealInv
<1>3. ASSUME NEW res, HashCallback, HashCallbackReturns(res),
             res = "OK" => \A f \in Files : f = cur => Exists(f)' /\ FileSealed(f)'
      PROVE  SealInv'
  <2>1. pass = "hash" /\ pass' = "hash" /\ UNCHANGED <<out, outs>>
    BY <1>3 DEF HashCallback, HashCallbackReturns, createVars
  <2> QED BY <1>0, <1>1, <1>3, <2>1, CallbackSeals DEF SealInv
<1>4. CASE ReadFails
  BY <1>3, <1>4 DEF ReadFails
<1>5. CASE AddEntry
  <2>1. HashCallback /\ UNCHANGED <<disk, outs>>
    BY <1>5 DEF AddEntry, HashCallbackReturns, diskVars
  <2>2. ASSUME Exists(cur), {o \in DOMAIN outs : cur \in outs[o].covers} # {},
               NEW f \in Files, f = cur
        PROVE  Exists(f)' /\ FileSealed(f)'
    <3>1. \A o \in DOMAIN outs : f \in outs[o].covers => f \in FilesSealedIn(o)'
      BY <1>5, <2>2, AddEntryGrows
    <3> QED BY <2>1, <2>2, <3>1 DEF Exists, FileSealed
  <2>3. HashCallbackReturns(AddResult({o \in DOMAIN outs : cur \in outs[o].covers}))
    BY <1>5 DEF AddEntry
  <2>4. AddResult({o \in DOMAIN outs : cur \in outs[o].covers}) = "OK"
          => Exists(cur) /\ {o \in DOMAIN outs : cur \in outs[o].covers} # {}
    BY DEF AddResult
  <2> QED BY <1>3, <2>1, <2>2, <2>3, <2>4
<1>6. CASE OpenForHash /\ ~Exists(cur)
  <2>1. HashCallback /\ HashCallbackReturns("NO_SUCH_FILE")
    BY <1>6 DEF OpenForHash
  <2> QED BY <1>3, <2>1
<1>7. CASE FileChanges
  <2>1. UNCHANGED <<pass, out, outs>> /\ pass \in {"size", "hash"}
    BY <1>7 DEF FileChanges, createVars
  <2> QED BY <1>0, <1>1, <1>7, <2>1, FileChangesSeals DEF SealInv
<1>8. CASE (OpenForHash /\ Exists(cur)) \/ FinishHash
  <2>1. /\ pass = "hash" /\ UNCHANGED <<disk, touched, args, arg, walk, cur, overall,
                                         pass, out, outs, entries, refs>>
    BY <1>8 DEF OpenForHash, FinishHash, HashCallback, diskVars, walkVars, createVars
  <2> QED BY <1>0, <2>1, SealInvStays
<1>9. CASE SizePass
  <2>1. pass = "size" /\ UNCHANGED <<pass, out, outs>>
    BY <1>9 DEF SizePass, createVars
  <2> QED BY <1>1, <2>1 DEF SealInv, PathsSoFar, FolderSoFar, NumbersSoFar
<1>10. CASE EndSizePass
  <2>1. pass = "size" /\ pass' \in {"hash", "close"} /\ UNCHANGED <<out, outs>>
    BY <1>10 DEF EndSizePass, createVars
  <2>2. pass' = "hash" => arg' = 1 /\ walk'.at = "path"
    BY <1>10 DEF EndSizePass, RestartWalk, Idle
  <2> QED BY <1>1, <2>1, <2>2 DEF SealInv, PathsSoFar, FolderSoFar, NumbersSoFar
<1>11. CASE EndHashPass
  <2>1. /\ pass = "hash" /\ pass' \in {"create", "close"} /\ arg > Len(args)
        /\ UNCHANGED <<disk, touched, args, out, outs, entries, refs>>
    BY <1>11 DEF EndHashPass, WalkDone, diskVars, walkVars, hashVars, createVars
  <2>2. CASE pass' = "create"
    <3>1. overall = "OK"
      BY <1>11, <2>2 DEF EndHashPass
    <3>2. AllSealed
      BY <1>0, <2>1, <3>1, PathsAreSpecs DEF SealInv, PathsSoFar, AllSealed
    <3>3. AllSealed'
      BY <2>1, <3>2 DEF AllSealed, PathSealed, FileSealed, FilesSealedIn, Exists
    <3> QED BY <2>2, <3>3 DEF SealInv, PathsSoFar, FolderSoFar, NumbersSoFar, ListsAfterwards
  <2> QED BY <1>1, <2>1, <2>2 DEF SealInv, PathsSoFar, FolderSoFar, NumbersSoFar
<1>12. CASE UNCHANGED vars
  <2>1. UNCHANGED <<disk, touched, args, arg, walk, cur, overall, pass, out, outs, entries,
                    refs>>
    BY <1>12 DEF vars, diskVars, walkVars, hashVars, createVars
  <2> QED BY <1>0, <2>1, SealInvStays
\* Once the lists are being created, what they are printed from is fixed.
<1>13. ASSUME pass' \notin {"size", "hash"},
              UNCHANGED <<disk, touched, args, outs, entries, refs>>,
              pass' = "create" => pass = "create",
              \A o \in DOMAIN outs : out'[o].stage # "none" =>
                pass = "create" \/ out[o].stage # "none"
       PROVE  SealInv'
  <2>1. PathsSoFar' /\ FolderSoFar' /\ NumbersSoFar'
    BY <1>13 DEF PathsSoFar, FolderSoFar, NumbersSoFar
  <2>2. AllSealed' = AllSealed
    BY <1>13 DEF AllSealed, PathSealed, FileSealed, FilesSealedIn, Exists
  <2> QED BY <1>13, <2>1, <2>2 DEF SealInv, ListsAfterwards
<1>14. CASE \/ CheckMhl \/ OpenMhl \/ PrintPiece \/ CreatorUnknown \/ PrintCreatorFails \/ EndList
            \/ EndCreate
  <2>1. pass = "create" /\ pass' \in {"create", "close"}
        /\ UNCHANGED <<disk, touched, args, outs, entries, refs>>
    BY <1>14 DEF CheckMhl, OpenMhl, PrintPiece, CreatorUnknown, PrintCreatorFails, EndList, EndCreate,
       Creating, GiveUp, diskVars, walkVars, hashVars
  <2> QED BY <1>13, <2>1
<1>15. ASSUME NEW o \in DOMAIN outs, Flush(o) PROVE SealInv'
  <2>1. /\ pass \in {"create", "close"} /\ pass' = pass
        /\ UNCHANGED <<disk, touched, args, outs, entries, refs>>
    BY <1>15 DEF Flush, diskVars, walkVars, hashVars
  <2>2. \A x \in DOMAIN outs : out'[x].stage = out[x].stage
    BY <1>0, <1>15, PieceFlushed DEF Flush, OthersSame
  <2> QED BY <1>13, <2>1, <2>2
<1>16. CASE Exit \/ VolumeChanges \/ Kill
  <2>1. /\ pass' \notin {"size", "hash"} /\ (pass' = "create" => pass = "create")
        /\ UNCHANGED <<disk, touched, args, outs, entries, refs, out>>
    BY <1>16 DEF Exit, VolumeChanges, Kill, diskVars, walkVars, hashVars, createVars
  <2> QED BY <1>13, <2>1
<1> QED BY <1>2, <1>4, <1>5, <1>6, <1>7, <1>8, <1>9, <1>10, <1>11, <1>12, <1>14, <1>15,
           <1>16 DEF Next, Program, Stopped

\* A list that parses leaves out no file the command line asks for.
THEOREM SealedListsAreComplete == Spec => []CompleteLists
<1>1. TypeInv /\ SealInv => CompleteLists
  <2> SUFFICES ASSUME TypeInv, SealInv, NEW o \in DOMAIN outs, WellFormed(o),
                      NEW i \in DOMAIN args, NEW f \in AskedFor(args[i]),
                      f \in outs[o].covers
               PROVE  f \in FilesSealedIn(o)
    BY DEF CompleteLists
  <2>1. AllSealed
    BY DEF SealInv, ListsAfterwards, WellFormed
  <2>2. FileSealed(f)
    BY <2>1 DEF AllSealed, PathSealed, AskedFor, FilesOf
  <2> QED BY <2>2 DEF FileSealed
<1> QED BY <1>1, TypeInvInit, TypeInvStep, ListInvInit, ListInvStep, SealInvInit,
           SealInvStep, PTL DEF Spec, TypeInv

\* An input that cannot be sealed prevents all lists.
THEOREM SealRefusesBadInput == Spec => []BadInputPreventsLists
<1>1. SealInv => BadInputPreventsLists
  <2> SUFFICES ASSUME SealInv, NEW i \in DOMAIN args, CannotBeSealed(args[i]),
                      NEW o \in DOMAIN outs, out[o].stage # "none"
               PROVE  FALSE
    BY DEF BadInputPreventsLists
  <2>1. PathSealed(args[i])
    BY DEF SealInv, ListsAfterwards, AllSealed
  <2> QED BY <2>1 DEF PathSealed, CannotBeSealed, FileSealed
<1> QED BY <1>1, TypeInvInit, TypeInvStep, ListInvInit, ListInvStep, SealInvInit,
           SealInvStep, PTL DEF Spec, TypeInv

(***************************************************************************)
(* Truthful records.  While the file in the callback is clean, the open    *)
(* stream and all sums calculated so far show its present content.         *)
(***************************************************************************)
NothingRead == stream = {} /\ DOMAIN sums = {} /\ clean

ReadInv ==
  /\ pass = "size" => NothingRead
  /\ pass = "hash" /\ cur = NoFile => NothingRead
  /\ pass = "hash" /\ cur # NoFile /\ clean =>
       /\ \A t \in DOMAIN sums : sums[t] = disk[cur]
       /\ stream \subseteq {disk[cur]}

Truthful(e) ==
  e.clean => \E c \in Contents :
    /\ \A t \in Kept : e.sums[t] = c
    /\ e.size = SizeOf[c]
    /\ e.file \notin touched => disk[e.file] = c

LEMMA TruthfulRecordsDef ==
  TruthfulRecords <=> \A o \in DOMAIN outs : \A i \in DOMAIN refs[o] :
                        Truthful(entries[refs[o][i]])
BY DEF TruthfulRecords, Truthful

LEMMA ReadInvStep == ASSUME TypeInv, ReadInv, [Next]_vars PROVE ReadInv'
<1>0. TypeOK /\ WalkTypeOK
  BY DEF TypeInv, TypeOK
<1>1. ASSUME NEW res, HashCallbackReturns(res) PROVE ReadInv'
  <2>1. NothingRead' /\ cur' = NoFile
    BY <1>1 DEF HashCallbackReturns, CallbackReturns, NothingRead, NoSums
  <2> QED BY <2>1 DEF ReadInv
<1>2. CASE ReadFails \/ AddEntry \/ (OpenForHash /\ ~Exists(cur))
  BY <1>1, <1>2 DEF ReadFails, AddEntry, OpenForHash
<1>3. CASE HashWalk
  <2>1. /\ pass = "hash" /\ cur = NoFile /\ pass' = "hash"
        /\ UNCHANGED <<stream, sums, clean>>
    BY <1>3 DEF HashWalk, hashVars, Walk, MissingPath, IgnorePath, BeginFile,
       BeginFolder, VisitEntry, EndFolder, FolderFails, RefuseSequence, BeginSequence, ProbeNumber,
       ProbesDone, VisitNumber, EndSequence, TypeInv, WalkShape
  <2>2. NothingRead
    BY <2>1 DEF ReadInv
  <2> QED BY <2>1, <2>2 DEF ReadInv, NothingRead
<1>4. CASE OpenForHash /\ Exists(cur)
  <2>1. /\ pass = "hash" /\ cur # NoFile /\ stream' = {disk[cur]}
        /\ UNCHANGED <<pass, cur, disk, sums, clean>>
    BY <1>4 DEF OpenForHash, HashCallback, OpenStream, diskVars, walkVars
  <2> QED BY <2>1 DEF ReadInv
<1>5. CASE FinishHash
  <2>1. PICK t \in Selected, d \in DigestsOfStream :
          sums' = [u \in DOMAIN sums \cup {t} |-> IF u = t THEN d ELSE sums[u]]
    BY <1>5 DEF FinishHash
  <2>2. /\ pass = "hash" /\ cur # NoFile /\ stream # {} /\ stream' = {}
        /\ UNCHANGED <<pass, cur, disk, clean>>
    BY <1>5 DEF FinishHash, HashCallback, diskVars, walkVars
  <2>3. clean => d = disk[cur]
    <3> SUFFICES ASSUME clean PROVE d = disk[cur]
      OBVIOUS
    <3>1. stream = {disk[cur]}
      BY <2>2 DEF ReadInv
    <3>2. Cardinality(stream) = 1
      BY <3>1, FS_Singleton
    <3> QED BY <3>1, <3>2 DEF DigestsOfStream
  <2>4. clean => \A u \in DOMAIN sums' : sums'[u] = disk[cur]
    BY <2>1, <2>2, <2>3 DEF ReadInv
  <2> QED BY <2>2, <2>4 DEF ReadInv
<1>6. CASE FileChanges
  <2>1. PICK f \in Files, c \in Contents \cup {Absent} :
          EditSeenByStream(f, c) /\ clean' = (clean /\ ~(pass = "hash" /\ f = cur))
    BY <1>6 DEF FileChanges
  <2>2. /\ disk' = [disk EXCEPT ![f] = c]
        /\ stream' = IF f = cur /\ stream # {} /\ c # Absent THEN stream \cup {c} ELSE stream
        /\ UNCHANGED <<pass, cur, sums>>
    BY <1>6, <2>1 DEF FileChanges, EditSeenByStream, Edit
  <2>3. CASE pass = "hash" /\ cur # NoFile
    <3> SUFFICES ASSUME clean' PROVE stream' = stream /\ disk'[cur] = disk[cur] /\ clean
      BY <2>2, <2>3 DEF ReadInv
    <3>1. clean /\ f # cur
      BY <2>1, <2>3
    <3>2. disk \in [Files -> Contents \cup {Absent}] /\ cur \in Files
      BY <1>0, <2>3 DEF WalkTypeOK
    <3> QED BY <2>2, <3>1, <3>2
  <2>4. CASE pass = "size" \/ (pass = "hash" /\ cur = NoFile)
    <3>1. NothingRead
      BY <2>4 DEF ReadInv
    <3>2. clean' /\ stream' = {} /\ DOMAIN sums' = {}
      BY <2>1, <2>2, <2>4, <3>1, ArgWalkAssumption DEF ArgWalkAssumption, NothingRead
    <3> QED BY <2>2, <2>4, <3>2 DEF ReadInv, NothingRead
  <2> QED BY <1>6, <2>3, <2>4 DEF FileChanges
<1>7. CASE SizePass
  BY <1>7 DEF SizePass, hashVars, ReadInv, NothingRead
<1>8. CASE EndSizePass
  <2>1. /\ pass = "size" /\ pass' \in {"hash", "close"} /\ cur' = NoFile
        /\ UNCHANGED <<stream, sums, clean>>
    BY <1>8 DEF EndSizePass, WalkDone, RestartWalk, hashVars, walkVars
  <2> QED BY <2>1 DEF ReadInv, NothingRead
<1>9. CASE UNCHANGED vars
  BY <1>9 DEF vars, diskVars, walkVars, hashVars, ReadInv, NothingRead
<1>10. CASE pass' \notin {"size", "hash"}
  BY <1>10 DEF ReadInv
<1>11. CASE \/ EndHashPass \/ CheckMhl \/ OpenMhl \/ PrintPiece \/ CreatorUnknown \/ PrintCreatorFails
            \/ EndList \/ EndCreate \/ (\E o \in DOMAIN outs : Flush(o)) \/ Exit
            \/ VolumeChanges \/ Kill
  <2>1. pass' \notin {"size", "hash"}
    BY <1>11 DEF EndHashPass, CheckMhl, OpenMhl, PrintPiece, CreatorUnknown, PrintCreatorFails, EndList,
       EndCreate, Flush, Exit, VolumeChanges, Kill, Creating, GiveUp
  <2> QED BY <1>10, <2>1
<1> QED BY <1>2, <1>3, <1>4, <1>5, <1>6, <1>7, <1>8, <1>9, <1>11
        DEF Next, Program, Stopped

LEMMA TruthfulStep ==
  ASSUME TypeInv, ReadInv, TruthfulRecords, [Next]_vars PROVE TruthfulRecords'
<1>0. Growth /\ TypeOK /\ WalkTypeOK
  BY StepGrows DEF TypeInv, TypeOK
<1>1. ASSUME NEW e \in Entry, Truthful(e) PROVE Truthful(e)'
  <2>1. e.file \in Files
    BY DEF Entry
  <2> QED BY <1>0, <1>1, <2>1 DEF Truthful, Growth
<1>2. \A o \in DOMAIN outs : \A i \in DOMAIN refs[o] :
        refs[o][i] \in DOMAIN entries /\ entries[refs[o][i]] \in Entry
        /\ Truthful(entries[refs[o][i]])
  BY <1>0, TruthfulRecordsDef DEF TypeOK
<1>3. SUFFICES ASSUME NEW o \in DOMAIN outs, NEW i \in DOMAIN refs'[o]
               PROVE  \E e \in Entry : e = entries'[refs'[o][i]] /\ Truthful(e)'
  BY <1>0, <1>3 DEF Growth, TruthfulRecords, Truthful
<1>4. CASE UNCHANGED <<entries, refs>>
  <2>1. PICK e \in Entry : e = entries[refs[o][i]] /\ Truthful(e)
    BY <1>2, <1>3, <1>4
  <2>2. Truthful(e)'
    BY <1>1, <2>1
  <2> QED BY <1>4, <2>1, <2>2
<1>5. CASE AddEntry
  <2> USE AddEntryType
  <2>1. /\ refs[o] \in Seq(Nat) /\ entries \in Seq(Entry) /\ Len(entries) \in Nat
        /\ HashCallback /\ UNCHANGED <<disk, touched>> /\ DOMAIN sums = Selected
    BY <1>0, <1>5 DEF TypeOK, AddEntry, HashCallbackReturns, diskVars
  <2>2. \/ refs'[o] = refs[o]
        \/ Exists(cur) /\ refs'[o] = Append(refs[o], Len(entries) + 1)
    <3>1. refs'[o] = IF Exists(cur) /\ cur \in outs[o].covers
                       THEN Append(refs[o], Len(entries) + 1) ELSE refs[o]
      BY <1>5
    <3> QED BY <3>1
  <2>3. \/ i \in DOMAIN refs[o] /\ refs'[o][i] = refs[o][i]
        \/ Exists(cur) /\ refs'[o][i] = Len(entries) + 1
    <3>1. CASE refs'[o] = refs[o]
      BY <1>3, <3>1
    <3>2. CASE Exists(cur) /\ refs'[o] = Append(refs[o], Len(entries) + 1)
      BY <1>3, <2>1, <3>2
    <3> QED BY <2>2, <3>1, <3>2
  <2>4. CASE i \in DOMAIN refs[o] /\ refs'[o][i] = refs[o][i]
    <3>1. PICK e \in Entry : e = entries[refs[o][i]] /\ Truthful(e)
      BY <1>2, <2>4
    <3>2. Truthful(e)' /\ entries'[refs'[o][i]] = e
      BY <1>1, <1>2, <1>5, <2>4, <3>1
    <3> QED BY <3>1, <3>2
  <2>5. CASE Exists(cur) /\ refs'[o][i] = Len(entries) + 1
    <3> DEFINE new == [file |-> cur, size |-> IF Exists(cur) THEN SizeOf[disk[cur]] ELSE 0,
                       sums |-> [t \in Kept |-> sums[t]], clean |-> clean]
    <3>1. entries' = Append(entries, new) /\ entries' \in Seq(Entry)
      BY <1>5 DEF AddEntry
    <3>2. entries'[Len(entries) + 1] = new /\ Len(entries) + 1 \in DOMAIN entries'
      BY <1>5, <2>1, <3>1
    <3>3. PICK e \in Entry : e = new
      BY <3>1, <3>2
    <3>4. /\ e.file = cur /\ e.size = SizeOf[disk[cur]] /\ e.clean = clean
          /\ \A t \in Kept : e.sums[t] = sums[t]
      BY <2>5, <3>3
    <3>5. disk[cur] \in Contents
      BY <1>0, <2>1, <2>5 DEF WalkTypeOK, Exists, HashCallback
    <3>6. clean => \A t \in Kept : sums[t] = disk[cur]
      BY <2>1, KeptSelected DEF ReadInv, HashCallback
    <3>7. Truthful(e)'
      BY <2>1, <3>4, <3>5, <3>6 DEF Truthful
    <3> QED BY <2>5, <3>2, <3>3, <3>7
  <2> QED BY <2>3, <2>4, <2>5
<1>6. CASE ~AddEntry
  <2>1. UNCHANGED <<entries, refs>>
    BY <1>6 DEF Next, Program, SizePass, EndSizePass, HashWalk, OpenForHash, FinishHash,
     ReadFails, EndHashPass, CheckMhl, OpenMhl, PrintPiece, CreatorUnknown, PrintCreatorFails, EndList,
     EndCreate, Flush, Exit, FileChanges, VolumeChanges, Kill, Stopped, vars, hashVars
  <2> QED BY <1>4, <2>1
<1> QED BY <1>5, <1>6

\* The record of a file nobody changed while it was processed describes one
\* content of it: all the sums and the size.
THEOREM SealedRecordsAreTruthful == Spec => []TruthfulRecords
<1>1. Init => ReadInv /\ TruthfulRecords
  BY DEF Init, StreamInit, NoSums, ReadInv, NothingRead, TruthfulRecords, WalkInit
<1> QED BY <1>1, TypeInvInit, TypeInvStep, ReadInvStep, TruthfulStep, PTL DEF Spec

(***************************************************************************)
(* 'mhl seal' implements ListRace: every step of MhlSeal is a step of      *)
(* ListRace, seen through the mapping at the end of MhlSeal, or leaves     *)
(* what ListRace speaks of as it is.                                       *)
(***************************************************************************)

(***************************************************************************)
(* What the mapping needs to know besides ListInv.                         *)
(***************************************************************************)
ErrorsEndIt ==
  /\ pass \in {"size", "hash", "create"} => result = "OK"
  /\ pass = "create" => overall = "OK"
  /\ pass \in {"close", "exited"} /\ overall # "OK" => result # "OK"
  /\ pass \notin {"size", "hash"} /\ overall # "OK" => \A o \in DOMAIN outs : out[o] = NotOpened
  /\ result # "OK" /\ overall = "OK" => at \in DOMAIN outs

PiecesInOrder ==
  \A o \in DOMAIN outs :
    /\ out[o].flushed <= out[o].printed /\ out[o].printed <= TextLen(o)
    /\ out[o].stage # "open" => out[o].printed = 0 /\ ~out[o].torn

MapInv == TypeInv /\ ListInv /\ ErrorsEndIt /\ PiecesInOrder

LEMMA PathOfList ==
  ASSUME TypeOK, NEW o \in DOMAIN outs PROVE outs[o].path \in ListPaths /\ o \in Nat \ {0}
<1>1. outs \in Seq(OutSpec)
  BY SealAssumption DEF TypeOK, SealAssumption
<1>2. outs[o] \in OutSpec /\ o \in 1..Len(outs)
  BY <1>1
<1> QED BY <1>1, <1>2 DEF OutSpec

(***************************************************************************)
(* The steps of ListRace in terms of the mapping.                          *)
(***************************************************************************)
SameStages == \A o \in DOMAIN outs : Stage(o)' = Stage(o)
OneStage(i, s) == Stage(i)' = s /\ \A o \in DOMAIN outs \ {i} : Stage(o)' = Stage(o)

LEMMA MapGoTo == ASSUME NEW ph, Phase' = ph PROVE Race!GoTo("seal", ph)
BY DEF Race!GoTo, Self

LEMMA MapGiveUp ==
  ASSUME NEW why, Phase' = "close", Failure' = why PROVE Race!GiveUp("seal", why)
BY DEF Race!GiveUp, Race!GoTo, Self

LEMMA MapStage ==
  ASSUME NEW i \in DOMAIN outs, NEW s, outs' = outs, OneStage(i, s)
  PROVE  Race!Stage("seal", i, s)
BY DEF Race!Stage, Self, OneStage

LEMMA MapLists ==
  ASSUME outs' = outs, SameStages
  PROVE  UNCHANGED [p \in Self |-> [o \in DOMAIN outs |-> Stage(o)]]
BY DEF SameStages

LEMMA MapCreating ==
  ASSUME NEW stages, Phase = "create", at \in DOMAIN outs, Stage(at) \in stages
  PROVE  Race!Creating("seal", stages) /\ Race!ThePath("seal") = outs[at].path
BY DEF Race!Creating, Race!ThePath, Self, Paths

LEMMA MapStutter ==
  ASSUME UNCHANGED <<outs, at, owner, Phase, Failure>>, SameStages
  PROVE  UNCHANGED Race!vars
BY MapLists DEF Race!vars

LEMMA MapDecide ==
  ASSUME UNCHANGED <<outs, at, owner>>, SameStages, Phase = "decide",
         \/ Phase' = "create" /\ Failure' = Failure
         \/ Phase' = "close" /\ Failure' = "input"
  PROVE  Race!Decide("seal")
BY MapLists, MapGoTo, MapGiveUp DEF Race!Decide, Self

LEMMA MapCheck ==
  ASSUME UNCHANGED <<outs, at, owner>>, TypeOK, Phase = "create", at \in DOMAIN outs,
         Stage(at) = "none",
         \/ /\ owner[outs[at].path] # 0
            /\ Phase' = "close" /\ Failure' = "taken" /\ SameStages
         \/ /\ owner[outs[at].path] = 0
            /\ OneStage(at, "checked") /\ UNCHANGED <<Phase, Failure>>
  PROVE  Race!Check("seal")
<1>1. Race!Creating("seal", {"none"}) /\ Race!ThePath("seal") = outs[at].path
  BY MapCreating
<1>2. outs[at].path \in ListPaths
  BY PathOfList
<1>3. TakenBy(owner[outs[at].path]) # {} <=> owner[outs[at].path] # 0
  BY DEF TakenBy, Self
<1> QED BY <1>1, <1>2, <1>3, MapLists, MapGiveUp, MapStage DEF Race!Check, Self

LEMMA MapKill ==
  ASSUME UNCHANGED <<outs, at, owner, Failure>>, SameStages,
         Phase \notin {"exited", "killed"}, Phase' = "killed"
  PROVE  Race!Kill("seal")
BY MapLists, MapGoTo DEF Race!Kill, Self

LEMMA MapEndList ==
  ASSUME UNCHANGED <<outs, owner, Phase, Failure>>, SameStages, Phase = "create",
         at \in DOMAIN outs, Stage(at) \in {"open", "whole", "cut"}, at' = at + 1
  PROVE  Race!EndList("seal")
<1>1. Race!Creating("seal", {"open", "whole", "cut"})
  BY MapCreating
<1> QED BY <1>1, MapLists DEF Race!EndList, Self

LEMMA MapEndCreate ==
  ASSUME UNCHANGED <<outs, at, owner, Failure>>, SameStages, Phase = "create",
         at \notin DOMAIN outs, Phase' = "close"
  PROVE  Race!EndCreate("seal")
BY MapLists, MapGoTo DEF Race!EndCreate, Self, Paths

LEMMA MapPrintFails ==
  ASSUME UNCHANGED <<outs, at, owner>>, Phase = "create", at \in DOMAIN outs,
         Stage(at) \in {"open", "cut"}, SameStages \/ OneStage(at, "cut"),
         Phase' = "close", Failure' = "output"
  PROVE  Race!PrintFails("seal")
<1>1. Race!Creating("seal", {"open", "cut"})
  BY MapCreating
<1> QED BY <1>1, MapLists, MapStage, MapGiveUp DEF Race!PrintFails, Self

LEMMA MapSettle ==
  ASSUME UNCHANGED <<outs, at, owner, Phase, Failure>>, Phase \in {"create", "close"},
         NEW i \in DOMAIN outs, Stage(i) = "open", NEW s \in {"whole", "cut"}, OneStage(i, s)
  PROVE  Race!Settle("seal", i)
<1>1. Race!Stage("seal", i, s)
  BY MapStage
<1> QED BY <1>1 DEF Race!Settle, Self, Paths

LEMMA MapExit ==
  ASSUME UNCHANGED <<outs, at, owner, Failure>>, SameStages, Phase = "close", Phase' = "exited",
         \A i \in DOMAIN outs : Stage(i) = "open" => i = at /\ Failure = "output"
  PROVE  Race!Exit("seal")
BY MapLists, MapGoTo DEF Race!Exit, Self, Paths

LEMMA MapOpen ==
  ASSUME UNCHANGED <<outs, at>>, TypeOK, TypeOK', Phase = "create", at \in DOMAIN outs,
         Stage(at) = "checked", owner[outs[at].path] = 0,
         \/ /\ outs[at].path \in Unwritable
            /\ Phase' = "close" /\ Failure' = "output" /\ SameStages /\ owner' = owner
         \/ /\ outs[at].path \notin Unwritable
            /\ OneStage(at, "open") /\ UNCHANGED <<Phase, Failure>>
            /\ owner' = [owner EXCEPT ![outs[at].path] = at]
  PROVE  Race!Open("seal")
<1>1. Race!Creating("seal", {"checked"}) /\ Race!ThePath("seal") = outs[at].path
  BY MapCreating
<1>2. outs[at].path \in ListPaths /\ at \in Nat \ {0}
  BY PathOfList
<1>3. CASE outs[at].path \in Unwritable
  BY <1>1, <1>3, MapLists, MapGiveUp DEF Race!Open, Self
<1>4. CASE outs[at].path \notin Unwritable
  <2>1. Race!Stage("seal", at, "open")
    BY <1>4, MapStage
  <2>2. [l \in ListPaths |-> TakenBy(owner'[l])] =
          [[l \in ListPaths |-> TakenBy(owner[l])] EXCEPT ![outs[at].path] = @ \cup {"seal"}]
    <3> DEFINE path == outs[at].path
    <3>1. owner \in [ListPaths -> {-1, 0} \cup DOMAIN outs] /\ path \in ListPaths
      BY <1>2 DEF TypeOK
    <3>2. owner'[path] = at /\ \A l \in ListPaths \ {path} : owner'[l] = owner[l]
      BY <1>4, <3>1
    <3>3. TakenBy(owner[path]) = {} /\ TakenBy(owner'[path]) = {"seal"}
      BY <1>2, <3>2 DEF TakenBy, Self
    <3> QED BY <3>1, <3>2, <3>3
  <2> QED BY <1>1, <1>4, <2>1, <2>2 DEF Race!Open, Self
<1> QED BY <1>3, <1>4

(***************************************************************************)
(* The steps of the program, up to the end of the second pass and after.   *)
(***************************************************************************)
Implements ==
  /\ ErrorsEndIt' /\ PiecesInOrder'
  /\ Race!Program("seal") \/ Race!Kill("seal") \/ UNCHANGED Race!vars

LEMMA MapInvInit == ASSUME Init PROVE MapInv /\ Race!Init
<1>1. TypeInv /\ ListInv
  BY TypeInvInit, ListInvInit
<1>2. Len(outs) \in Nat /\ DOMAIN outs = 1..Len(outs)
  BY <1>1, Outs DEF TypeInv
<1>3. ErrorsEndIt /\ PiecesInOrder
  BY <1>2 DEF Init, WalkInit, ErrorsEndIt, PiecesInOrder, NotOpened, TextLen
<1>4. \A o \in DOMAIN outs : Stage(o) = "none"
  BY DEF Init, Stage, NotOpened
<1>5. [p \in Self |-> [o \in DOMAIN outs |-> Stage(o)]] =
        [p \in Self |-> [i \in DOMAIN Paths(outs) |-> "none"]]
  BY <1>4 DEF Paths, Self
<1>6. [l \in ListPaths |-> TakenBy(owner[l])] \in [ListPaths -> {{}, {"earlier"}}]
  BY DEF Init, TakenBy
<1>7. [p \in Self |-> Paths(outs)] \in [Self -> {Paths(l) : l \in OutputLists}]
  BY DEF Init
<1>8. Phase = "decide" /\ Failure = "none" /\ at = 1
  BY DEF Init, Phase, Failure
<1>9. Race!Init
  BY <1>5, <1>6, <1>7, <1>8 DEF Race!Init, Self
<1> QED BY <1>1, <1>3, <1>9 DEF MapInv

LEMMA DecidingStep ==
  ASSUME MapInv, TypeInv', pass \in {"size", "hash"}, [Next]_vars PROVE Implements
<1>1. /\ at = 1 /\ \A o \in DOMAIN outs : out[o] = NotOpened
      /\ result = "OK"
  BY DEF MapInv, ListInv, NothingCreatedYet, ErrorsEndIt
<1>2. UNCHANGED <<outs, createVars>>
  BY DEF Next, Program, SizePass, EndSizePass, HashWalk, OpenForHash, FinishHash,
     ReadFails, AddEntry, HashCallbackReturns, EndHashPass, CheckMhl, OpenMhl,
     PrintPiece, CreatorUnknown, PrintCreatorFails, EndList, EndCreate, Flush, Exit, Creating,
     FileChanges, VolumeChanges, Kill, Stopped, vars
<1>3. \/ pass' \in {"size", "hash"} /\ result' = result
      \/ pass' = "create" /\ overall' = "OK" /\ result' = "OK"
      \/ pass' = "close" /\ overall' # "OK" /\ result' = overall'
      \/ Kill
  BY <1>1 DEF Next, Program, SizePass, EndSizePass, HashWalk, OpenForHash, FinishHash,
     ReadFails, AddEntry, HashCallbackReturns, EndHashPass, CheckMhl, OpenMhl,
     PrintPiece, CreatorUnknown, PrintCreatorFails, EndList, EndCreate, Flush, Exit, Creating,
     FileChanges, VolumeChanges, Stopped, vars, walkVars
<1>4. UNCHANGED <<out, at, owner>>
  BY <1>2 DEF createVars
<1>5. SameStages /\ \A o \in DOMAIN outs : Stage(o) = "none"
  BY <1>1, <1>2, <1>4 DEF SameStages, Stage, NotOpened
<1>6. refs' \in [DOMAIN outs -> Seq(Nat)]
  BY <1>2 DEF TypeInv, TypeOK
<1>7. PiecesInOrder'
  BY <1>1, <1>2, <1>4, <1>6 DEF PiecesInOrder, NotOpened, TextLen
<1>8. Phase = "decide" /\ Failure = "none"
  BY <1>1 DEF Phase, Failure
<1>9. CASE pass' \in {"size", "hash"} /\ result' = result
  <2>1. Phase' = "decide" /\ Failure' = "none"
    BY <1>1, <1>9 DEF Phase, Failure
  <2>2. ErrorsEndIt'
    BY <1>1, <1>9 DEF ErrorsEndIt
  <2> QED BY <1>2, <1>4, <1>5, <1>7, <1>8, <2>1, <2>2, MapStutter DEF Implements
<1>10. CASE pass' = "create" /\ overall' = "OK" /\ result' = "OK"
  <2>1. Phase' = "create" /\ Failure' = "none"
    BY <1>10 DEF Phase, Failure
  <2>2. ErrorsEndIt'
    BY <1>10 DEF ErrorsEndIt
  <2>3. Race!Decide("seal")
    BY <1>2, <1>4, <1>5, <1>8, <2>1, MapDecide
  <2> QED BY <1>7, <2>2, <2>3 DEF Implements, Race!Program
<1>11. CASE pass' = "close" /\ overall' # "OK" /\ result' = overall'
  <2>1. Phase' = "close" /\ Failure' = "input"
    BY <1>11 DEF Phase, Failure
  <2>2. ErrorsEndIt'
    BY <1>1, <1>2, <1>4, <1>11 DEF ErrorsEndIt
  <2>3. Race!Decide("seal")
    BY <1>2, <1>4, <1>5, <1>8, <2>1, MapDecide
  <2> QED BY <1>7, <2>2, <2>3 DEF Implements, Race!Program
<1>12. CASE Kill
  <2>1. pass' = "killed" /\ UNCHANGED <<overall, result>>
    BY <1>12 DEF Kill, walkVars
  <2>2. Phase' = "killed" /\ Failure' = "none"
    BY <1>1, <2>1 DEF Phase, Failure
  <2>3. ErrorsEndIt'
    BY <1>1, <1>2, <1>4, <2>1 DEF ErrorsEndIt
  <2>4. Race!Kill("seal")
    BY <1>2, <1>4, <1>5, <1>8, <2>2, MapKill
  <2> QED BY <1>7, <2>3, <2>4 DEF Implements
<1> QED BY <1>3, <1>9, <1>10, <1>11, <1>12

\* What the updates of out do to the pieces of list o.
LEMMA PieceCounts ==
  ASSUME TypeOK, NEW o \in DOMAIN outs
  PROVE  /\ out' = [out EXCEPT ![o].printed = @ + 1] =>
              out'[o].printed = out[o].printed + 1 /\ out'[o].flushed = out[o].flushed
         /\ out' = [out EXCEPT ![o].flushed = @ + 1, ![o].torn = @ \/ full] =>
              out'[o].flushed = out[o].flushed + 1
         /\ out' = [out EXCEPT ![o].printed = 2, ![o].flushed = 2, ![o].torn = TRUE] =>
              out'[o].printed = 2 /\ out'[o].flushed = 2 /\ out'[o].torn /\ out'[o].stage = out[o].stage
<1>1. out \in [DOMAIN outs -> OutState] /\ out[o] \in OutState
  BY DEF TypeOK
<1>2. ASSUME out' = [out EXCEPT ![o].printed = @ + 1]
      PROVE  out'[o].printed = out[o].printed + 1 /\ out'[o].flushed = out[o].flushed
  BY <1>1, <1>2 DEF OutState
<1>3. ASSUME out' = [out EXCEPT ![o].flushed = @ + 1, ![o].torn = @ \/ full]
      PROVE  out'[o].flushed = out[o].flushed + 1
  <2> DEFINE torn == out[o].torn \/ full
  <2>1. out' = [out EXCEPT ![o] = [out[o] EXCEPT !.flushed = out[o].flushed + 1, !.torn = torn]]
    BY <1>1, <1>3
  <2> HIDE DEF torn
  <2> QED BY <1>1, <2>1 DEF OutState
<1>4. ASSUME out' = [out EXCEPT ![o].printed = 2, ![o].flushed = 2, ![o].torn = TRUE]
      PROVE  out'[o].printed = 2 /\ out'[o].flushed = 2 /\ out'[o].torn /\ out'[o].stage = out[o].stage
  BY <1>1, <1>4 DEF OutState
<1> QED BY <1>2, <1>3, <1>4

\* What stays as it is once the second pass has ended.
Decided == UNCHANGED <<walkVars, outs, hashVars>>

LEMMA ListBounds ==
  ASSUME TypeOK, NEW o \in DOMAIN outs
  PROVE  /\ out[o].printed \in Nat /\ out[o].flushed \in Nat /\ out[o].torn \in BOOLEAN
         /\ TextLen(o) \in Nat /\ TextLen(o) >= 3
<1>1. refs[o] \in Seq(Nat) /\ out[o] \in OutState
  BY DEF TypeOK
<1> QED BY <1>1 DEF OutState, TextLen

LEMMA OneListStep ==
  ASSUME NEW i \in DOMAIN outs, Decided, OthersSame(i), PiecesInOrder,
         out'[i].flushed <= out'[i].printed, out'[i].printed <= TextLen(i),
         out'[i].stage # "open" => out'[i].printed = 0 /\ ~out'[i].torn
  PROVE  /\ PiecesInOrder'
         /\ \A o \in DOMAIN outs \ {i} : Stage(o)' = Stage(o)
<1>1. outs' = outs /\ \A o \in DOMAIN outs : TextLen(o)' = TextLen(o)
  BY DEF Decided, hashVars, TextLen
<1> QED BY <1>1 DEF OthersSame, PiecesInOrder, Stage

LEMMA NoListStep ==
  ASSUME Decided, UNCHANGED out, PiecesInOrder PROVE PiecesInOrder' /\ SameStages
<1>1. outs' = outs /\ \A o \in DOMAIN outs : TextLen(o)' = TextLen(o)
  BY DEF Decided, hashVars, TextLen
<1> QED BY <1>1 DEF PiecesInOrder, Stage, SameStages

LEMMA CheckStep == ASSUME MapInv, CheckMhl PROVE Implements
<1>1. /\ TypeOK /\ at \in DOMAIN outs /\ pass = "create" /\ out[at].stage = "none"
      /\ result = "OK" /\ overall = "OK"
  BY CreatingAt DEF CheckMhl, Creating, MapInv, TypeInv, ErrorsEndIt
<1>2. Decided /\ UNCHANGED <<outs, at, owner, overall>>
  BY DEF CheckMhl, Decided, walkVars
<1>3. Phase = "create" /\ Failure = "none" /\ Stage(at) = "none"
  BY <1>1 DEF Phase, Failure, Stage
<1>4. CASE owner[outs[at].path] # 0 /\ GiveUp("IO_ERROR") /\ UNCHANGED out
  <2>1. PiecesInOrder' /\ SameStages
    BY <1>2, <1>4, NoListStep DEF MapInv
  <2>2. Phase' = "close" /\ Failure' = "taken" /\ ErrorsEndIt'
    BY <1>1, <1>2, <1>4 DEF GiveUp, Phase, Failure, ErrorsEndIt
  <2>3. Race!Check("seal")
    BY <1>1, <1>2, <1>3, <1>4, <2>1, <2>2, MapCheck
  <2> QED BY <2>1, <2>2, <2>3 DEF Implements, Race!Program
<1>5. CASE /\ owner[outs[at].path] = 0 /\ UNCHANGED <<pass, result>>
           /\ out' = [out EXCEPT ![at].stage = "checked"]
  <2>1. /\ OthersSame(at) /\ out'[at].stage = "checked" /\ out'[at].torn = out[at].torn
        /\ out'[at].printed = out[at].printed /\ out'[at].flushed = out[at].flushed
    BY <1>1, <1>5, StageSet
  <2>2. PiecesInOrder' /\ \A o \in DOMAIN outs \ {at} : Stage(o)' = Stage(o)
    BY <1>1, <1>2, <2>1, OneListStep DEF MapInv, PiecesInOrder
  <2>3. OneStage(at, "checked")
    BY <1>2, <2>1, <2>2 DEF OneStage, Stage
  <2>4. Phase' = Phase /\ Failure' = Failure /\ ErrorsEndIt'
    BY <1>1, <1>2, <1>5 DEF Phase, Failure, ErrorsEndIt
  <2>5. Race!Check("seal")
    BY <1>1, <1>2, <1>3, <1>5, <2>3, <2>4, MapCheck
  <2> QED BY <2>2, <2>4, <2>5 DEF Implements, Race!Program
<1> QED BY <1>4, <1>5 DEF CheckMhl

LEMMA OpenStep == ASSUME MapInv, TypeOK', OpenMhl PROVE Implements
<1>1. /\ TypeOK /\ at \in DOMAIN outs /\ pass = "create" /\ out[at].stage = "checked"
      /\ result = "OK" /\ overall = "OK" /\ owner[outs[at].path] = 0
  BY CreatingAt
     DEF OpenMhl, Creating, MapInv, TypeInv, ErrorsEndIt, ListInv, CheckedIsFree
<1>2. Decided /\ UNCHANGED <<outs, at, overall>>
  BY DEF OpenMhl, Decided, walkVars
<1>3. Phase = "create" /\ Failure = "none" /\ Stage(at) = "checked"
  BY <1>1 DEF Phase, Failure, Stage
<1>4. CASE outs[at].path \in Unwritable /\ GiveUp("IO_ERROR") /\ UNCHANGED <<out, owner>>
  <2>1. PiecesInOrder' /\ SameStages
    BY <1>2, <1>4, NoListStep DEF MapInv
  <2>2. Phase' = "close" /\ Failure' = "output" /\ ErrorsEndIt'
    BY <1>1, <1>2, <1>4 DEF GiveUp, Phase, Failure, ErrorsEndIt
  <2>3. Race!Open("seal")
    BY <1>1, <1>2, <1>3, <1>4, <2>1, <2>2, MapOpen
  <2> QED BY <2>1, <2>2, <2>3 DEF Implements, Race!Program
<1>5. CASE /\ outs[at].path \notin Unwritable /\ UNCHANGED <<pass, result>>
           /\ out' = [out EXCEPT ![at].stage = "open"]
           /\ owner' = [owner EXCEPT ![outs[at].path] = at]
  <2>1. /\ OthersSame(at) /\ out'[at].stage = "open" /\ out'[at].torn = out[at].torn
        /\ out'[at].printed = out[at].printed /\ out'[at].flushed = out[at].flushed
    BY <1>1, <1>5, StageSet
  <2>2. PiecesInOrder' /\ \A o \in DOMAIN outs \ {at} : Stage(o)' = Stage(o)
    BY <1>1, <1>2, <2>1, OneListStep DEF MapInv, PiecesInOrder
  <2>3. OneStage(at, "open")
    <3>1. TextLen(at)' = TextLen(at)
      BY <1>2 DEF Decided, hashVars, TextLen
    <3>2. ~out[at].torn /\ out[at].flushed = 0
      BY <1>1, ListBounds DEF MapInv, PiecesInOrder
    <3>3. out'[at].flushed # TextLen(at)
      BY <1>1, <2>1, <3>2, ListBounds
    <3> QED BY <1>2, <2>1, <2>2, <3>1, <3>2, <3>3 DEF OneStage, Stage
  <2>4. Phase' = Phase /\ Failure' = Failure /\ ErrorsEndIt'
    BY <1>1, <1>2, <1>5 DEF Phase, Failure, ErrorsEndIt
  <2>5. Race!Open("seal")
    BY <1>1, <1>2, <1>3, <1>5, <2>3, <2>4, MapOpen
  <2> QED BY <2>2, <2>4, <2>5 DEF Implements, Race!Program
<1> QED BY <1>1, <1>4, <1>5 DEF OpenMhl

LEMMA PrintStep == ASSUME MapInv, PrintPiece PROVE Implements
<1>1. /\ TypeOK /\ at \in DOMAIN outs /\ out[at].stage = "open"
      /\ out[at].printed < TextLen(at) /\ out' = [out EXCEPT ![at].printed = @ + 1]
      /\ PiecesInOrder
  BY CreatingAt DEF PrintPiece, Creating, MapInv, TypeInv
<1>2. Decided /\ UNCHANGED <<outs, at, owner, overall, pass, result>>
  BY DEF PrintPiece, Decided, walkVars
<1>3. /\ OthersSame(at) /\ out'[at].stage = "open" /\ out'[at].torn = out[at].torn
      /\ out'[at].printed = out[at].printed + 1 /\ out'[at].flushed = out[at].flushed
  BY <1>1, PiecePrinted, PieceCounts
<1>4. out'[at].flushed <= out'[at].printed /\ out'[at].printed <= TextLen(at)
  BY <1>1, <1>3, ListBounds DEF PiecesInOrder
<1>5. PiecesInOrder' /\ \A o \in DOMAIN outs \ {at} : Stage(o)' = Stage(o)
  BY <1>1, <1>2, <1>3, <1>4, OneListStep
<1>6. TextLen(at)' = TextLen(at) /\ at' = at
  BY <1>2 DEF Decided, hashVars, TextLen
<1>7. SameStages
  <2>1. Stage(at)' = Stage(at)
    BY <1>1, <1>3, <1>6 DEF Stage
  <2>2. ASSUME NEW o \in DOMAIN outs PROVE Stage(o)' = Stage(o)
    BY <1>5, <1>6, <2>1, <2>2
  <2> QED BY <2>2 DEF SameStages
<1>8. Phase' = Phase /\ Failure' = Failure
  BY <1>1, <1>2, <1>3 DEF Phase, Failure
<1>9. ErrorsEndIt'
  BY <1>2, <1>3 DEF PrintPiece, Creating, MapInv, ErrorsEndIt
<1> QED BY <1>2, <1>5, <1>7, <1>8, <1>9, MapStutter DEF Implements

LEMMA CreatorUnknownStep == ASSUME MapInv, CreatorUnknown PROVE Implements
<1>1. /\ TypeOK /\ at \in DOMAIN outs /\ pass = "create" /\ out[at].stage = "open"
      /\ out[at].printed = 1 /\ overall = "OK" /\ result = "OK" /\ PiecesInOrder
  BY CreatingAt DEF CreatorUnknown, Creating, MapInv, TypeInv, ErrorsEndIt
<1>2. /\ Decided /\ UNCHANGED <<outs, at, owner, out, overall>>
      /\ pass' = "close" /\ result' = "UNKNOWN_ERROR"
  BY DEF CreatorUnknown, GiveUp, Decided, walkVars, createVars
<1>3. PiecesInOrder' /\ SameStages
  BY <1>1, <1>2, NoListStep
<1>4. Phase = "create" /\ Phase' = "close" /\ Failure' = "output" /\ ErrorsEndIt'
  BY <1>1, <1>2 DEF Phase, Failure, ErrorsEndIt
<1>5. Stage(at) \in {"open", "cut"}
  BY <1>1, ListBounds DEF PiecesInOrder, Stage
<1>6. Race!PrintFails("seal")
  BY <1>1, <1>2, <1>3, <1>4, <1>5, MapPrintFails
<1> QED BY <1>3, <1>4, <1>6 DEF Implements, Race!Program

LEMMA CreatorFailsStep == ASSUME MapInv, PrintCreatorFails PROVE Implements
<1>1. /\ TypeOK /\ at \in DOMAIN outs /\ pass = "create" /\ out[at].stage = "open"
      /\ out[at].printed = 1 /\ overall = "OK" /\ result = "OK" /\ PiecesInOrder
      /\ out' = [out EXCEPT ![at].printed = 2, ![at].flushed = 2, ![at].torn = TRUE]
  BY CreatingAt DEF PrintCreatorFails, Creating, MapInv, TypeInv, ErrorsEndIt
<1>2. /\ Decided /\ UNCHANGED <<outs, at, owner, overall>>
      /\ pass' = "close" /\ result' = "IO_ERROR"
  BY DEF PrintCreatorFails, GiveUp, Decided, walkVars
<1>3. /\ OthersSame(at) /\ out'[at].stage = "open" /\ out'[at].torn
      /\ out'[at].printed = 2 /\ out'[at].flushed = 2
  BY <1>1, CreatorTorn, PieceCounts
<1>4. PiecesInOrder' /\ \A o \in DOMAIN outs \ {at} : Stage(o)' = Stage(o)
  <2>1. out'[at].flushed <= out'[at].printed /\ out'[at].printed <= TextLen(at)
    BY <1>1, <1>3, ListBounds
  <2> QED BY <1>1, <1>2, <1>3, <2>1, OneListStep
<1>5. OneStage(at, "cut")
  <2>1. Stage(at)' = "cut"
    BY <1>2, <1>3 DEF Stage
  <2> QED BY <1>2, <1>4, <2>1 DEF OneStage
<1>6. Phase = "create" /\ Phase' = "close" /\ Failure' = "output"
  BY <1>1, <1>2, <1>3 DEF Phase, Failure
<1>7. ErrorsEndIt'
  BY <1>1, <1>2 DEF ErrorsEndIt
<1>8. Stage(at) \in {"open", "cut"}
  BY <1>1, ListBounds DEF PiecesInOrder, Stage
<1>9. Race!PrintFails("seal")
  BY <1>1, <1>2, <1>5, <1>6, <1>8, MapPrintFails
<1> QED BY <1>4, <1>7, <1>9 DEF Implements, Race!Program

LEMMA EndListStep == ASSUME MapInv, EndList PROVE Implements
<1>1. /\ TypeOK /\ at \in DOMAIN outs /\ pass = "create" /\ out[at].stage = "open"
      /\ overall = "OK" /\ result = "OK" /\ PiecesInOrder
  BY CreatingAt DEF EndList, Creating, MapInv, TypeInv, ErrorsEndIt
<1>2. Decided /\ UNCHANGED <<outs, owner, out, overall, pass, result>> /\ at' = at + 1
  BY DEF EndList, Decided, walkVars
<1>3. PiecesInOrder' /\ SameStages
  BY <1>1, <1>2, NoListStep
<1>4. Phase = "create" /\ Phase' = Phase /\ Failure' = Failure /\ ErrorsEndIt'
  BY <1>1, <1>2 DEF Phase, Failure, ErrorsEndIt
<1>5. Stage(at) \in {"open", "whole", "cut"}
  BY <1>1 DEF Stage
<1>6. Race!EndList("seal")
  BY <1>1, <1>2, <1>3, <1>4, <1>5, MapEndList
<1> QED BY <1>3, <1>4, <1>6 DEF Implements, Race!Program

LEMMA EndCreateStep == ASSUME MapInv, EndCreate PROVE Implements
<1>1. /\ TypeOK /\ at \notin DOMAIN outs /\ pass = "create"
      /\ overall = "OK" /\ result = "OK" /\ PiecesInOrder
  BY Outs DEF EndCreate, MapInv, TypeInv, ErrorsEndIt
<1>2. /\ Decided /\ UNCHANGED <<outs, owner, out, overall, at>>
      /\ pass' = "close" /\ result' = "OK"
  BY DEF EndCreate, GiveUp, Decided, walkVars, createVars
<1>3. PiecesInOrder' /\ SameStages
  BY <1>1, <1>2, NoListStep
<1>4. /\ Phase = "create" /\ Phase' = "close"
      /\ Failure' = Failure /\ ErrorsEndIt'
  BY <1>1, <1>2 DEF Phase, Failure, ErrorsEndIt
<1>5. Race!EndCreate("seal")
  BY <1>1, <1>2, <1>3, <1>4, MapEndCreate
<1> QED BY <1>3, <1>4, <1>5 DEF Implements, Race!Program

LEMMA FlushStep == ASSUME MapInv, NEW o \in DOMAIN outs, Flush(o) PROVE Implements
<1>1. /\ TypeOK /\ pass \in {"create", "close"} /\ PiecesInOrder
      /\ out[o].flushed < out[o].printed
      /\ out' = [out EXCEPT ![o].flushed = @ + 1, ![o].torn = @ \/ full]
  BY DEF Flush, MapInv, TypeInv
<1>2. Decided /\ UNCHANGED <<outs, owner, overall, at, pass, result>>
  BY DEF Flush, Decided, walkVars
<1>3. /\ OthersSame(o) /\ out'[o].stage = out[o].stage /\ out'[o].printed = out[o].printed
      /\ out'[o].torn = (out[o].torn \/ full) /\ out'[o].flushed = out[o].flushed + 1
  BY <1>1, PieceFlushed, PieceCounts
<1>4. out[o].stage = "open"
  BY <1>1, ListBounds DEF PiecesInOrder
<1>5. out'[o].flushed <= out'[o].printed /\ out'[o].printed <= TextLen(o)
  BY <1>1, <1>3, ListBounds DEF PiecesInOrder
<1>6. PiecesInOrder' /\ \A x \in DOMAIN outs \ {o} : Stage(x)' = Stage(x)
  BY <1>1, <1>2, <1>3, <1>4, <1>5, OneListStep
<1>7. Phase' = Phase /\ Phase \in {"create", "close"}
  BY <1>1, <1>2 DEF Phase
<1>8. \A x \in DOMAIN outs : out'[x].stage = out[x].stage
  BY <1>3 DEF OthersSame
<1>9. Failure' = Failure
  BY <1>2, <1>8 DEF Failure, MapInv, ErrorsEndIt
<1>10. ErrorsEndIt'
  BY <1>1, <1>2, <1>4, <1>8 DEF ErrorsEndIt, MapInv, NotOpened
<1>11. TextLen(o)' = TextLen(o)
  BY <1>2 DEF Decided, hashVars, TextLen
<1>12. CASE Stage(o)' = Stage(o)
  BY <1>2, <1>6, <1>7, <1>9, <1>10, <1>12, MapStutter DEF SameStages, Implements
<1>13. CASE Stage(o)' # Stage(o)
  <2>1. Stage(o) = "open" /\ Stage(o)' \in {"whole", "cut"}
    BY <1>1, <1>3, <1>4, <1>11, <1>13, ListBounds DEF Stage, PiecesInOrder
  <2>2. OneStage(o, Stage(o)')
    BY <1>6 DEF OneStage
  <2>3. Race!Settle("seal", o)
    BY <1>2, <1>7, <1>9, <2>1, <2>2, MapSettle
  <2>4. o \in DOMAIN [p \in Self |-> Paths(outs)]["seal"]
    BY DEF Self, Paths
  <2> QED BY <1>6, <1>10, <2>3, <2>4 DEF Implements, Race!Program
<1> QED BY <1>12, <1>13

LEMMA ExitStep == ASSUME MapInv, Exit PROVE Implements
<1>1. /\ TypeOK /\ pass = "close" /\ PiecesInOrder /\ ListInv /\ ErrorsEndIt
      /\ \A o \in DOMAIN outs : out[o].flushed = out[o].printed
  BY DEF Exit, MapInv, TypeInv
<1>2. /\ Decided /\ UNCHANGED <<outs, owner, out, overall, at, result>>
      /\ pass' = "exited"
  BY DEF Exit, Decided, walkVars, createVars
<1>3. PiecesInOrder' /\ SameStages
  BY <1>1, <1>2, NoListStep
<1>4. Phase = "close" /\ Phase' = "exited" /\ Failure' = Failure
  BY <1>1, <1>2 DEF Phase, Failure
<1>5. ErrorsEndIt'
  BY <1>1, <1>2 DEF ErrorsEndIt
<1>6. ASSUME NEW i \in DOMAIN outs, Stage(i) = "open" PROVE i = at /\ Failure = "output"
  <2>1. out[i].stage = "open" /\ out[i].printed # TextLen(i)
    BY <1>1, <1>6 DEF Stage
  <2>2. i = at
    <3>1. at \in Nat /\ i \in Nat
      BY <1>1, Outs DEF TypeOK
    <3>2. ~(i < at) /\ ~(i > at)
      BY <1>1, <2>1 DEF ListInv, InOrder, NotOpened
    <3> QED BY <3>1, <3>2
  <2>3. overall = "OK"
    BY <1>1, <2>1 DEF ErrorsEndIt, NotOpened
  <2>4. result # "OK"
    BY <1>1, <1>6, <2>2, Outs DEF ListInv, GivenUp
  <2> QED BY <2>1, <2>2, <2>3, <2>4 DEF Failure
<1>7. Race!Exit("seal")
  BY <1>2, <1>3, <1>4, <1>6, MapExit
<1> QED BY <1>3, <1>5, <1>7 DEF Implements, Race!Program

LEMMA KillStep == ASSUME MapInv, pass \notin {"size", "hash"}, Kill PROVE Implements
<1>1. /\ pass \notin {"exited", "killed"} /\ PiecesInOrder /\ ErrorsEndIt
  BY DEF Kill, MapInv
<1>2. /\ Decided /\ UNCHANGED <<outs, owner, out, overall, at, result>>
      /\ pass' = "killed"
  BY DEF Kill, Decided, walkVars, createVars
<1>3. PiecesInOrder' /\ SameStages
  BY <1>1, <1>2, NoListStep
<1>4. Phase \notin {"exited", "killed"} /\ Phase' = "killed" /\ Failure' = Failure
  BY <1>1, <1>2 DEF Phase, Failure
<1>5. ErrorsEndIt'
  BY <1>1, <1>2 DEF ErrorsEndIt
<1>6. Race!Kill("seal")
  BY <1>2, <1>3, <1>4, MapKill
<1> QED BY <1>3, <1>5, <1>6 DEF Implements

LEMMA MapInvStep == ASSUME MapInv, TypeInv', [Next]_vars PROVE Implements
<1>1. CASE pass \in {"size", "hash"}
  BY <1>1, DecidingStep
<1>2. CASE pass \notin {"size", "hash"} /\ (VolumeChanges \/ UNCHANGED vars)
  <2>1. Decided /\ UNCHANGED <<outs, owner, out, overall, at, pass, result>>
    BY <1>2 DEF VolumeChanges, vars, Decided, walkVars, createVars
  <2>2. PiecesInOrder' /\ SameStages
    BY <2>1, NoListStep DEF MapInv
  <2>3. Phase' = Phase /\ Failure' = Failure
    BY <2>1 DEF Phase, Failure
  <2>4. ErrorsEndIt'
    BY <2>1 DEF ErrorsEndIt, MapInv
  <2> QED BY <2>1, <2>2, <2>3, <2>4, MapStutter DEF Implements
<1>3. CASE pass \notin {"size", "hash"} /\ Kill
  BY <1>3, KillStep
<1>4. CASE \E o \in DOMAIN outs : Flush(o)
  BY <1>4, FlushStep
<1>5. CASE CheckMhl \/ OpenMhl \/ PrintPiece
  BY <1>5, CheckStep, OpenStep, PrintStep DEF TypeInv
<1>6. CASE CreatorUnknown \/ PrintCreatorFails \/ EndList \/ EndCreate \/ Exit
  BY <1>6, CreatorUnknownStep, CreatorFailsStep, EndListStep, EndCreateStep, ExitStep
<1>7. CASE pass \notin {"size", "hash"}
  BY <1>2, <1>3, <1>4, <1>5, <1>6, <1>7
     DEF Next, Program, SizePass, EndSizePass, HashWalk, OpenForHash, FinishHash,
         ReadFails, AddEntry, HashCallback, EndHashPass, FileChanges, Stopped
<1> QED BY <1>1, <1>7

\* Whatever the input, the -o options, the files and the changes around the
\* program: what 'mhl seal' does to the lists is a behaviour of ListRace
\* (main, create_mhl_files).
THEOREM SealCreatesLists == Spec => CreatesLists
<1>1. Init => MapInv /\ Race!Init
  BY MapInvInit
<1>2. MapInv /\ [Next]_vars => MapInv' /\ [Race!Next]_(Race!vars)
  <2> SUFFICES ASSUME MapInv, [Next]_vars
               PROVE  MapInv' /\ [Race!Next]_(Race!vars)
    OBVIOUS
  <2>1. TypeInv' /\ ListInv'
    BY TypeInvStep, ListInvStep DEF MapInv, TypeInv
  <2>2. Implements
    BY <2>1, MapInvStep
  <2>3. MapInv'
    BY <2>1, <2>2 DEF MapInv, Implements
  <2> QED BY <2>2, <2>3 DEF Implements, Race!Next, Self
<1> QED BY <1>1, <1>2, PTL DEF Spec, CreatesLists, Race!Spec
=============================================================================
