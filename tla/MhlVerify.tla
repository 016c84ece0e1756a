----------------------------- MODULE MhlVerify -----------------------------
(***************************************************************************)
(* The command 'mhl verify' once the MHL file has been found and parsed.   *)
(* It checks either the files named on the command line or, if none is     *)
(* named, the files of the list: these are first looked at one by one, are *)
(* then sorted by the time of their last modification, and are checked in  *)
(* that order.  Every check asks for the size of the file, and reads the   *)
(* file for its hash unless option -e is given.                            *)
(***************************************************************************)
EXTENDS HashRead, Functions

CONSTANTS
  Lists,   \* the parsed lists the program can meet
  MaxTime, \* the times of modification at the start are 1..MaxTime
  NoSum    \* the sum of a record with the <null> tag: nothing to compare

(***************************************************************************)
(* A record of the list.  The parser keys records by file, the first one   *)
(* wins: no two records of a list have the same file.                      *)
(***************************************************************************)
Record == [file : Files, size : Nat, sum : Digests \cup {NoSum}]

ASSUME VerifyAssumption ==
  /\ Lists \subseteq Seq(Record)
  /\ \A list \in Lists : \A i, j \in DOMAIN list :
        list[i].file = list[j].file => i = j
  /\ NoSum \notin Digests
  /\ MaxTime \in Nat \ {0}

VARIABLES
  existence, \* option -e
  continue,  \* option -c, continue_on_error
  pass,      \* what the program is doing
  list,      \* check_witems
  mtime,     \* mtime[f]: the time of the last modification of file f
  lastMod,   \* lastMod[f]: lastmodification_seconds of the record of f
  at,        \* index of the record at hand, in the two loops over the list
  step,      \* how far the work on the file or the record at hand has come
  verdicts,  \* history: the result of every check so far
  result     \* the exit status

verifyVars == <<list, lastMod, at, step, verdicts>>
options    == <<existence, continue>>
vars == <<diskVars, walkVars, stream, options, pass, verifyVars, mtime, result>>

\* files_argv_index # 0
ByArgs == args # <<>>
Listed == {list[i].file : i \in DOMAIN list}
RecordOf(f) == CHOOSE r \in {list[i] : i \in DOMAIN list} : r.file = f

TypeOK ==
  /\ WalkTypeOK /\ StreamTypeOK
  /\ existence \in BOOLEAN /\ continue \in BOOLEAN
  /\ pass \in {"size", "look", "sort", "check", "exited"}
  /\ list \in Seq(Record)
  /\ mtime \in [Files -> Nat]
  /\ lastMod \in [Files -> Nat]
  /\ at \in 1..(Len(list) + 1)
  /\ step \in {"begin", "hash", "size"}
  /\ verdicts \in [Files -> SUBSET Codes]
  /\ result \in Codes

Init ==
  /\ WalkInit /\ StreamInit
  /\ existence \in BOOLEAN /\ continue \in BOOLEAN
  /\ pass = IF ByArgs THEN "size" ELSE "look"
  /\ list \in Lists
  /\ mtime \in [Files -> 1..MaxTime]
  /\ lastMod = [f \in Files |-> 0]
  /\ at = 1
  /\ step = "begin"
  /\ verdicts = [f \in Files |-> {}]
  /\ result = "OK"

Finish(res) == pass' = "exited" /\ result' = res

(***************************************************************************)
(* check_passed_files: a pass that sizes the files named on the command    *)
(* line, and, if none was missing, a pass that checks them.                *)
(***************************************************************************)
SizePass ==
  /\ pass = "size"
  /\ Walk \/ SizeFile
  /\ UNCHANGED <<stream, options, pass, verifyVars, mtime, result>>

EndSizePass ==
  /\ pass = "size" /\ WalkDone
  /\ IF overall = "OK"
       THEN pass' = "check" /\ RestartWalk /\ UNCHANGED result
       ELSE Finish(overall) /\ UNCHANGED walkVars
  /\ UNCHANGED <<diskVars, stream, options, verifyVars, mtime>>

CheckWalk ==
  /\ pass = "check" /\ ByArgs
  /\ Walk
  /\ UNCHANGED <<stream, options, pass, verifyVars, mtime, result>>

EndCheckWalk ==
  /\ pass = "check" /\ ByArgs /\ WalkDone
  /\ Finish(overall)
  /\ UNCHANGED <<diskVars, walkVars, stream, options, verifyVars, mtime>>

(***************************************************************************)
(* check_files_from_mhl, its first loop: two calls of lstat per record,    *)
(* one for the time of the last modification, one for the size.            *)
(***************************************************************************)
RememberLast(res) == overall' = res \* mutated form of Remember
Remember(res) == overall' = IF res = "OK" THEN overall ELSE res

TheFile == list[at].file

LookAtTime ==
  /\ pass = "look" /\ at <= Len(list) /\ step = "begin"
  /\ IF Exists(TheFile)
       THEN lastMod' = [lastMod EXCEPT ![TheFile] = mtime[TheFile]] /\ UNCHANGED overall
       ELSE Remember("NO_SUCH_FILE") /\ UNCHANGED lastMod
  /\ step' = "size"
  /\ UNCHANGED <<diskVars, args, arg, walk, cur, count, stream, options, pass,
                 list, at, verdicts, mtime, result>>

LookAtSize ==
  /\ pass = "look" /\ at <= Len(list) /\ step = "size"
  /\ Remember(IF Exists(TheFile) THEN "OK" ELSE "NO_SUCH_FILE")
  /\ count' = [count EXCEPT !.processed = @ + 1]
  /\ at' = at + 1 /\ step' = "begin"
  /\ UNCHANGED <<diskVars, args, arg, walk, cur, stream, options, pass,
                 list, lastMod, verdicts, mtime, result>>

EndLookingAnyway == \* mutated form: the option -c is not asked for
  /\ pass = "look" /\ at > Len(list)
  /\ pass' = "sort"
  /\ UNCHANGED <<diskVars, walkVars, stream, options, verifyVars, mtime, result>>

EndLooking ==
  /\ pass = "look" /\ at > Len(list)
  /\ IF overall # "OK" /\ ~continue
       THEN Finish(overall)
       ELSE pass' = "sort" /\ UNCHANGED result
  /\ UNCHANGED <<diskVars, walkVars, stream, options, verifyVars, mtime>>

\* HASH_SORT is a stable merge sort.  A missing file has lastMod 0.
Sorted(s) ==
  \A i, j \in DOMAIN s : i < j => lastMod[s[i].file] <= lastMod[s[j].file]

SortRecords ==
  /\ pass = "sort"
  /\ \E p \in Bijection(DOMAIN list, DOMAIN list) :
       LET sorted == [i \in DOMAIN list |-> list[p[i]]]
       IN /\ Sorted(sorted)
          /\ \A i, j \in DOMAIN list :
               /\ i < j
               /\ lastMod[sorted[i].file] = lastMod[sorted[j].file]
               => p[i] < p[j]
          /\ list' = sorted
  /\ pass' = "check"
  /\ at' = 1
  /\ count' = NoCount
  /\ UNCHANGED <<diskVars, args, arg, walk, cur, overall, stream, options,
                 lastMod, step, verdicts, mtime, result>>

(***************************************************************************)
(* Its second loop checks the records one after another.                   *)
(***************************************************************************)
BeginRecord ==
  /\ pass = "check" /\ ~ByArgs /\ cur = NoFile /\ at <= Len(list)
  /\ cur' = TheFile
  /\ UNCHANGED <<diskVars, args, arg, walk, overall, count, stream, options,
                 pass, verifyVars, mtime, result>>

EndRecordsOnError == \* mutated form: the loop is left after a failed check
  /\ pass = "check" /\ ~ByArgs /\ cur = NoFile
  /\ at > Len(list) \/ count.failed > 0
  /\ Finish(overall)
  /\ UNCHANGED <<diskVars, walkVars, stream, options, verifyVars, mtime>>

EndRecords ==
  /\ pass = "check" /\ ~ByArgs /\ cur = NoFile /\ at > Len(list)
  /\ Finish(overall)
  /\ UNCHANGED <<diskVars, walkVars, stream, options, verifyVars, mtime>>

AdvanceTwice(res) == \* mutated form: on an error the iterator is advanced twice
  /\ cur' = NoFile /\ count' = Counted(res) /\ Remember(res)
  /\ at' = IF res = "OK" THEN at + 1 ELSE at + 2
  /\ UNCHANGED <<args, arg, walk>>

RetryOnError(res) == \* mutated form: "continue" before the iterator is advanced
  /\ cur' = NoFile /\ Remember(res) /\ count' = IF res = "OK" THEN Counted(res) ELSE count
  /\ at' = IF res = "OK" THEN at + 1 ELSE at
  /\ UNCHANGED <<args, arg, walk>>

RecordReturns(res) ==
  /\ cur' = NoFile
  /\ count' = Counted(res)
  /\ Remember(res)
  /\ at' = at + 1
  /\ UNCHANGED <<args, arg, walk>>

(***************************************************************************)
(* check_file_against_mhl_wcontent, for the file at hand.                  *)
(***************************************************************************)
Checking == pass = "check" /\ cur # NoFile

CheckReturns(res) ==
  /\ IF ByArgs THEN CallbackReturns(res) /\ UNCHANGED at ELSE RecordReturns(res)
  /\ step' = "begin" /\ stream' = {}
  /\ verdicts' = [verdicts EXCEPT ![cur] = @ \cup {res}]
  /\ UNCHANGED <<diskVars, options, pass, list, lastMod, mtime, result>>

\* The record is looked up and the size compared; "OK" of this operator
\* means that the hash is still to be compared.
SizeIgnored(f) == \* mutated form: the size in the record is not compared
  CASE f \notin Listed -> "NO_MHL_ENTRY"
    [] f \in Listed /\ ~Exists(f) -> "NO_SUCH_FILE"
    [] f \in Listed /\ Exists(f) -> "OK"

SizeVerdict(f) ==
  CASE f \notin Listed -> "NO_MHL_ENTRY"
    [] f \in Listed /\ ~Exists(f) -> "NO_SUCH_FILE"
    [] f \in Listed /\ Exists(f) ->
         IF SizeOf[disk[f]] = RecordOf(f).size THEN "OK" ELSE "FILE_SIZE_FAILED"

NullIsCompared == \* mutated form: the <null> tag is not treated specially
  /\ Checking /\ step = "begin"
  /\ LET res == SizeVerdict(cur)
     IN IF res # "OK" \/ existence
          THEN CheckReturns(res)
          ELSE /\ step' = "hash"
               /\ UNCHANGED <<diskVars, walkVars, stream, options, pass, list,
                              lastMod, at, verdicts, mtime, result>>

CheckSize ==
  /\ Checking /\ step = "begin"
  /\ LET res == SizeVerdict(cur)
     IN IF res # "OK" \/ existence \/ RecordOf(cur).sum = NoSum
          THEN CheckReturns(res)
          ELSE /\ step' = "hash"
               /\ UNCHANGED <<diskVars, walkVars, stream, options, pass, list,
                              lastMod, at, verdicts, mtime, result>>

OpenForHash ==
  /\ Checking /\ step = "hash" /\ stream = {}
  /\ IF Exists(cur)
       THEN /\ OpenStream
            /\ UNCHANGED <<diskVars, walkVars, options, pass, verifyVars, mtime, result>>
       ELSE CheckReturns("NO_SUCH_FILE")

CompareHash ==
  /\ Checking /\ step = "hash" /\ stream # {}
  /\ \E d \in DigestsOfStream :
       CheckReturns(IF d = RecordOf(cur).sum THEN "OK" ELSE "HASH_FAILED")

ReadFails ==
  /\ Checking /\ step = "hash" /\ ReadError
  /\ CheckReturns("IO_ERROR")

Program ==
  \/ SizePass \/ EndSizePass \/ CheckWalk \/ EndCheckWalk
  \/ LookAtTime \/ LookAtSize \/ EndLooking \/ SortRecords
  \/ BeginRecord \/ EndRecords
  \/ CheckSize \/ OpenForHash \/ CompareHash \/ ReadFails

\* Every change is later than all times of modification at the start.
FileChanges ==
  /\ pass # "exited"
  /\ \E f \in Files, c \in Contents \cup {Absent} :
       /\ EditSeenByStream(f, c)
       /\ mtime' = [mtime EXCEPT ![f] = MaxTime + edits']
  /\ UNCHANGED <<options, pass, verifyVars, result>>

Stopped == pass = "exited" /\ UNCHANGED vars

Next == Program \/ FileChanges \/ Stopped

Spec == Init /\ [][Next]_vars

\* Once started the program runs on: it waits for nobody.
FairSpec == Spec /\ WF_vars(Program)

(***************************************************************************)
(* Properties.                                                             *)
(***************************************************************************)
\* The files the program is asked to check.
Requested ==
  IF ByArgs
    THEN {f \in Files : \E i \in DOMAIN args :
            f \in FilesOf(args[i]) /\ (args[i].kind = "folder" => Exists(f))}
    ELSE Listed

Intact(f) ==
  /\ f \in Listed /\ Exists(f)
  /\ SizeOf[disk[f]] = RecordOf(f).size
  /\ existence \/ RecordOf(f).sum \in {NoSum, disk[f]}

\* Exit status 0 vouches for every file the program was asked to check: it is
\* listed, has the size and (without -e) the content the list says, unless
\* another program changed it meanwhile.
ZeroMeansIntact ==
  pass = "exited" /\ result = "OK" =>
    \A f \in Requested \ touched : Intact(f)

\* There are no false alarms: intact, readable files that nobody changes are
\* reported with exit status 0.
IntactMeansZero ==
  /\ pass = "exited"
  /\ touched = {}
  /\ \A f \in Requested : Intact(f) /\ f \notin BadFiles
  /\ \A i \in DOMAIN args : args[i].readable
  => result = "OK"

\* Without -c a listed file that is missing from the start ends the program
\* before it reads, or judges, any file.
MissingFileStopsEarly ==
  ~ByArgs /\ ~continue /\ (\E f \in Listed \ touched : ~Exists(f))
    => stream = {} /\ \A f \in Files : verdicts[f] = {}

\* With -c, or if no file was missing, every record of the list is checked
\* exactly once, whatever the sorting did and whichever checks failed, and
\* the counters printed at the end tell how many failed.
EveryRecordIsChecked ==
  pass = "exited" /\ ~ByArgs /\ (continue \/ \E f \in Listed : verdicts[f] # {}) =>
    /\ \A f \in Listed : Cardinality(verdicts[f]) = 1
    /\ count.processed = Cardinality(Listed)
    /\ count.failed = Cardinality({f \in Listed : verdicts[f] # {"OK"}})

\* The program ends, whatever other programs do to the files.
Termination == <>(pass = "exited")

\* What 'mhl help verify' says of -e: it "only checks if the files referenced
\* by MHL_FILE are existent on disk" - so that it fails only if one is not.
ExistenceOptionAsksForExistence ==
  pass = "exited" /\ existence /\ ~ByArgs /\ touched = {} /\ result # "OK" =>
    \E f \in Listed : ~Exists(f)
=============================================================================
