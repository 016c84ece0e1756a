------------------------------ MODULE MhlSeal ------------------------------
(***************************************************************************)
(* The command 'mhl seal': one pass over the paths to size the files, a    *)
(* second one to hash them, and then one media hash list (MHL) for every   *)
(* output folder.  Every selected hash type is a separate read of the      *)
(* file, the size is taken after the last of them, and a list is printed   *)
(* into a stdio buffer that reaches the disk later, piece by piece.        *)
(***************************************************************************)
EXTENDS HashRead

CONSTANTS
  HashChoice,   \* the hash types asked for with -t
  OutputLists,  \* the lists of output folders the program can be started with
  ListPaths,    \* the paths the MHL files can get
  Unwritable    \* those of them that cannot be opened for writing

(***************************************************************************)
(* An output folder: the files that lie inside it, and the path of its     *)
(* MHL, <folder>/<folder name>_<date>_<time>.mhl, in which the time is the *)
(* second the program was started.                                         *)
(***************************************************************************)
OutSpec == [covers : SUBSET Files, path : ListPaths]

(***************************************************************************)
(* The types are read in one order and stored in another: the first stored *)
(* type is the entry's major hash, the second its auxiliary one, and there *)
(* is no place for a third.                                                *)
(***************************************************************************)
ReadRank  == [md5 |-> 1, sha1 |-> 2, xxhash |-> 3, xxhash64 |-> 4, xxhash64be |-> 5]
StoreRank == [sha1 |-> 1, md5 |-> 2, xxhash |-> 3, xxhash64 |-> 4, xxhash64be |-> 5]
HashTypes == DOMAIN ReadRank

Selected == IF HashChoice = {} THEN {"md5"} ELSE HashChoice
Kept == {t \in Selected :
           Cardinality({u \in Selected : StoreRank[u] < StoreRank[t]}) < 2}

ASSUME SealAssumption ==
  /\ HashChoice \subseteq HashTypes
  /\ OutputLists \subseteq Seq(OutSpec)
  /\ Unwritable \subseteq ListPaths

VARIABLES
  pass,    \* what the program is doing
  outs,    \* the output folders, in the order of the -o options
  sums,    \* the hash sums of the file at hand, by type
  clean,   \* history: the file at hand has not been changed since its callback began
  entries, \* input_data.files_data_array
  refs,    \* refs[o]: the indices in entries of the files inside folder o
  at,      \* index of the MHL being created
  out,     \* out[o]: how far the creation of MHL o has come
  owner,   \* owner[p]: who created the file at path p: 0 = nobody, o = this
           \* program for folder o, -1 = it was there before
  full,    \* the volume of the output folders has no space left
  wasFull, \* history: it had none at some time
  result   \* the program's exit status once it has exited

hashVars   == <<stream, sums, clean, entries, refs>>
createVars == <<at, out, owner, full, wasFull>>
vars == <<diskVars, walkVars, pass, outs, hashVars, createVars, result>>

Entry == [file : Files, size : Nat, sums : [Kept -> Digests], clean : BOOLEAN]

NotOpened == [stage |-> "none", printed |-> 0, flushed |-> 0, torn |-> FALSE]
OutState  == [stage : {"none", "checked", "open"},
              printed : Nat, flushed : Nat, torn : BOOLEAN]

TypeOK ==
  /\ WalkTypeOK
  /\ pass \in {"size", "hash", "create", "close", "exited", "killed"}
  /\ outs \in OutputLists
  /\ StreamTypeOK
  /\ \E ts \in SUBSET Selected : sums \in [ts -> Digests]
  /\ clean \in BOOLEAN
  /\ entries \in Seq(Entry)
  /\ refs \in [DOMAIN outs -> Seq(Nat)]
  /\ \A o \in DOMAIN outs : \A i \in DOMAIN refs[o] : refs[o][i] \in DOMAIN entries
  /\ at \in 1..(Len(outs) + 1)
  /\ out \in [DOMAIN outs -> OutState]
  /\ owner \in [ListPaths -> {-1, 0} \cup DOMAIN outs]
  /\ full \in BOOLEAN /\ wasFull \in BOOLEAN
  /\ result \in Codes

NoSums == [t \in {} |-> Mixed]

Init ==
  /\ WalkInit
  /\ pass = "size"
  /\ outs \in OutputLists
  /\ StreamInit /\ sums = NoSums /\ clean = TRUE
  /\ entries = <<>>
  /\ refs = [o \in DOMAIN outs |-> <<>>]
  /\ at = 1
  /\ out = [o \in DOMAIN outs |-> NotOpened]
  /\ owner \in [ListPaths -> {-1, 0}]
  /\ full = FALSE /\ wasFull = FALSE
  /\ result = "OK"

(***************************************************************************)
(* The two passes.  An error in either of them is the exit status, and no  *)
(* MHL is created.                                                         *)
(***************************************************************************)
SizePass ==
  /\ pass = "size"
  /\ Walk \/ SizeFile
  /\ UNCHANGED <<pass, outs, hashVars, createVars, result>>

EndSizePass ==
  /\ pass = "size" /\ WalkDone
  /\ IF overall = "OK"
       THEN pass' = "hash" /\ RestartWalk /\ UNCHANGED result
       ELSE pass' = "close" /\ result' = overall /\ UNCHANGED walkVars
  /\ UNCHANGED <<diskVars, outs, hashVars, createVars>>

HashWalk ==
  /\ pass = "hash"
  /\ Walk
  /\ UNCHANGED <<pass, outs, hashVars, createVars, result>>

CreateAnyway == \* mutated form: an error in the second pass only is reported
  /\ pass = "hash" /\ WalkDone
  /\ pass' = "create"
  /\ result' = overall
  /\ UNCHANGED <<diskVars, walkVars, outs, hashVars, createVars>>

EndHashPass ==
  /\ pass = "hash" /\ WalkDone
  /\ pass' = IF overall = "OK" THEN "create" ELSE "close"
  /\ result' = overall
  /\ UNCHANGED <<diskVars, walkVars, outs, hashVars, createVars>>

(***************************************************************************)
(* calculate_and_fill_hash, the callback of the second pass.               *)
(***************************************************************************)
HashCallback == pass = "hash" /\ cur # NoFile

StaleSums(res) == \* mutated form: the sums of one file are left to the next one
  /\ CallbackReturns(res)
  /\ stream' = {} /\ sums' = sums /\ clean' = TRUE
  /\ UNCHANGED <<diskVars, pass, outs, createVars, result>>

HashCallbackReturns(res) ==
  /\ CallbackReturns(res)
  /\ stream' = {} /\ sums' = NoSums /\ clean' = TRUE
  /\ UNCHANGED <<diskVars, pass, outs, createVars, result>>

NextType(t) ==
  /\ t \in Selected \ DOMAIN sums
  /\ \A u \in Selected \ DOMAIN sums : ReadRank[t] <= ReadRank[u]

OpenForHash ==
  /\ HashCallback /\ stream = {} /\ DOMAIN sums # Selected
  /\ IF Exists(cur)
       THEN /\ OpenStream
            /\ UNCHANGED <<diskVars, walkVars, pass, outs, sums, clean, entries,
                           refs, createVars, result>>
       ELSE HashCallbackReturns("NO_SUCH_FILE") /\ UNCHANGED <<entries, refs>>

FinishHash ==
  /\ HashCallback /\ stream # {}
  /\ \E t \in Selected, d \in DigestsOfStream :
       /\ NextType(t)
       /\ sums' = [u \in DOMAIN sums \cup {t} |-> IF u = t THEN d ELSE sums[u]]
  /\ stream' = {}
  /\ UNCHANGED <<diskVars, walkVars, pass, outs, clean, entries, refs,
                 createVars, result>>

ReadFails ==
  /\ HashCallback /\ ReadError
  /\ HashCallbackReturns("IO_ERROR")
  /\ UNCHANGED <<entries, refs>>

\* The index of the entry about to be appended.
IndexAfterAppend == Len(entries) + 2 \* mutated form: the size after the append, plus 1
NewIndex == Len(entries) + 1

\* A file outside of every output folder is an error.
AnywhereIsFine(containing) == \* mutated form: WRONG_FILE_LOCATION is not returned
  IF Exists(cur) THEN "OK" ELSE "NO_SUCH_FILE"

AddResult(containing) ==
  IF ~Exists(cur) THEN "NO_SUCH_FILE"
  ELSE IF containing = {} THEN "WRONG_FILE_LOCATION" ELSE "OK"

\* prepare_data_for_mhl_create: the entry is made, the file's size is taken
\* (now, after the hashing), and every output folder that contains the file
\* gets a reference to the entry.
AddEntry ==
  LET entry == [file |-> cur,
                size |-> IF Exists(cur) THEN SizeOf[disk[cur]] ELSE 0,
                sums |-> [t \in Kept |-> sums[t]],
                clean |-> clean]
      containing == {o \in DOMAIN outs : cur \in outs[o].covers}
  IN /\ HashCallback /\ stream = {} /\ DOMAIN sums = Selected
     /\ entries' = Append(entries, entry)
     /\ refs' = [o \in DOMAIN outs |->
                   IF Exists(cur) /\ o \in containing
                     THEN Append(refs[o], NewIndex)
                     ELSE refs[o]]
     /\ HashCallbackReturns(AddResult(containing))

(***************************************************************************)
(* create_mhl_files.  The pieces of a list are its header, the creator     *)
(* info, one record per reference, and the footer.                         *)
(***************************************************************************)
TextLen(o) == Len(refs[o]) + 3

Creating(stage) ==
  pass = "create" /\ at <= Len(outs) /\ out[at].stage = stage

GiveUp(res) == pass' = "close" /\ result' = res

NoCheckMhl == \* mutated form: fopen without the search for an existing file
  /\ Creating("none")
  /\ out' = [out EXCEPT ![at].stage = "checked"]
  /\ UNCHANGED <<diskVars, walkVars, pass, result, outs, hashVars, at, owner,
                 full, wasFull>>

CheckMhl ==
  /\ Creating("none")
  /\ IF owner[outs[at].path] # 0
       THEN GiveUp("IO_ERROR") /\ UNCHANGED out
       ELSE out' = [out EXCEPT ![at].stage = "checked"] /\ UNCHANGED <<pass, result>>
  /\ UNCHANGED <<diskVars, walkVars, outs, hashVars, at, owner, full, wasFull>>

OpenMhl ==
  /\ Creating("checked")
  /\ IF outs[at].path \in Unwritable
       THEN GiveUp("IO_ERROR") /\ UNCHANGED <<out, owner>>
       ELSE /\ out' = [out EXCEPT ![at].stage = "open"]
            /\ owner' = [owner EXCEPT ![outs[at].path] = at]
            /\ UNCHANGED <<pass, result>>
  /\ UNCHANGED <<diskVars, walkVars, outs, hashVars, at, full, wasFull>>

\* fprintf into the stream's buffer; no result of it is ever taken for an
\* error, because the code compares it with 0 and fprintf returns -1.
PrintPiece ==
  /\ Creating("open") /\ out[at].printed < TextLen(at)
  /\ out' = [out EXCEPT ![at].printed = @ + 1]
  /\ UNCHANGED <<diskVars, walkVars, pass, outs, hashVars, at, owner, full,
                 wasFull, result>>

\* The exceptions: the user is not found in the user database, after the
\* header has been printed;
CreatorUnknown ==
  /\ Creating("open") /\ out[at].printed = 1
  /\ GiveUp("UNKNOWN_ERROR")
  /\ UNCHANGED <<diskVars, walkVars, outs, hashVars, createVars>>

\* or the creator's name, printed with putc, finds the volume full: that is
\* noticed if the buffer has to be written at that very moment.
PrintCreatorFails ==
  /\ Creating("open") /\ out[at].printed = 1 /\ full
  /\ out' = [out EXCEPT ![at].printed = 2, ![at].flushed = 2, ![at].torn = TRUE]
  /\ GiveUp("IO_ERROR")
  /\ UNCHANGED <<diskVars, walkVars, outs, hashVars, at, owner, full, wasFull>>

EndList ==
  /\ Creating("open") /\ out[at].printed = TextLen(at)
  /\ at' = at + 1
  /\ UNCHANGED <<diskVars, walkVars, pass, outs, hashVars, out, owner, full,
                 wasFull, result>>

EndCreate ==
  /\ pass = "create" /\ at > Len(outs)
  /\ GiveUp("OK")
  /\ UNCHANGED <<diskVars, walkVars, outs, hashVars, createVars>>

\* A buffered piece of some list reaches the disk, or is lost for want of
\* space; nobody looks at the result, not even at that of fclose.
Flush(o) ==
  /\ pass \in {"create", "close"}
  /\ out[o].flushed < out[o].printed
  /\ out' = [out EXCEPT ![o].flushed = @ + 1, ![o].torn = @ \/ full]
  /\ UNCHANGED <<diskVars, walkVars, pass, outs, hashVars, at, owner, full,
                 wasFull, result>>

\* finalize_mhlcreate_data has closed all lists; main returns.
ExitWithoutClose == \* mutated form: after an error the lists are not closed
  /\ pass = "close"
  /\ result = "OK" => \A o \in DOMAIN outs : out[o].flushed = out[o].printed
  /\ pass' = "exited"
  /\ UNCHANGED <<diskVars, walkVars, outs, hashVars, createVars, result>>

Exit ==
  /\ pass = "close"
  /\ \A o \in DOMAIN outs : out[o].flushed = out[o].printed
  /\ pass' = "exited"
  /\ UNCHANGED <<diskVars, walkVars, outs, hashVars, createVars, result>>

Program ==
  \/ SizePass \/ EndSizePass
  \/ HashWalk \/ OpenForHash \/ FinishHash \/ ReadFails \/ AddEntry \/ EndHashPass
  \/ CheckMhl \/ OpenMhl \/ PrintPiece \/ CreatorUnknown \/ PrintCreatorFails
  \/ EndList \/ EndCreate
  \/ \E o \in DOMAIN outs : Flush(o)
  \/ Exit

(***************************************************************************)
(* What happens around the program.                                        *)
(***************************************************************************)
FileChanges ==
  /\ pass \in {"size", "hash"}
  /\ \E f \in Files, c \in Contents \cup {Absent} :
       /\ EditSeenByStream(f, c)
       /\ clean' = (clean /\ ~(pass = "hash" /\ f = cur))
  /\ UNCHANGED <<pass, outs, sums, entries, refs, createVars, result>>

VolumeChanges ==
  /\ pass \in {"create", "close"}
  /\ full' = ~full /\ wasFull' = TRUE
  /\ UNCHANGED <<diskVars, walkVars, pass, outs, hashVars, at, out, owner, result>>

Kill ==
  /\ pass \notin {"exited", "killed"}
  /\ pass' = "killed"
  /\ UNCHANGED <<diskVars, walkVars, outs, hashVars, createVars, result>>

Stopped ==
  /\ pass \in {"exited", "killed"}
  /\ UNCHANGED vars

Next == Program \/ FileChanges \/ VolumeChanges \/ Kill \/ Stopped

Spec == Init /\ [][Next]_vars

\* Once started the program runs on: it waits for nobody.
FairSpec == Spec /\ WF_vars(Program)

(***************************************************************************)
(* Properties.                                                             *)
(***************************************************************************)
\* The MHL of folder o is on disk from header to footer.
WellFormed(o) ==
  out[o].stage = "open" /\ out[o].flushed = TextLen(o) /\ ~out[o].torn

FilesSealedIn(o) == {entries[refs[o][i]].file : i \in DOMAIN refs[o]}

\* The files a path asks for: the one it names or the numbers of a sequence,
\* whatever happens to them meanwhile, and in a folder those that are there
\* and that no other program has created or deleted.
AskedFor(p) ==
  {p.files[i] : i \in DOMAIN p.files} \cup {f \in p.below \ touched : Exists(f)}

\* A list that parses leaves nothing out: it has a record of every file the
\* command line asks for that lies in its folder, also of a number that was
\* there when the gaps were looked for and gone when it was its turn, since
\* then there is no list (create_mhl_files runs only after a second pass
\* without any error, and stop_on_error loses no error on the way).
CompleteLists ==
  \A o \in DOMAIN outs : WellFormed(o) =>
    \A i \in DOMAIN args : \A f \in AskedFor(args[i]) :
      f \in outs[o].covers => f \in FilesSealedIn(o)

\* An input that cannot be sealed (a path or a number of a sequence that does
\* not exist, a pattern that is refused, a folder that cannot be read, a file
\* outside of every output folder) prevents all lists, wherever it stands on
\* the command line.
CannotBeSealed(p) ==
  \/ ~p.readable
  \/ \E f \in FilesOf(p) \ touched :
        \/ p.kind # "folder" /\ ~Exists(f)
        \/ Exists(f) /\ \A o \in DOMAIN outs : f \notin outs[o].covers

BadInputPreventsLists ==
  (\E i \in DOMAIN args : CannotBeSealed(args[i]))
     => \A o \in DOMAIN outs : out[o].stage = "none"

\* All sums and the size of a record describe one and the same content of
\* the file if nobody changed the file while it was being processed, and it
\* is the content the file still has if nobody ever did.
TruthfulRecords ==
  \A o \in DOMAIN outs : \A i \in DOMAIN refs[o] :
    LET e == entries[refs[o][i]]
    IN e.clean => \E c \in Contents :
         /\ \A t \in Kept : e.sums[t] = c
         /\ e.size = SizeOf[c]
         /\ e.file \notin touched => disk[e.file] = c

\* A program that exits leaves no half-written list behind as long as the
\* volume has space, neither on success nor when a later list fails; only the
\* list at which the user turned out to be unknown remains with its header.
\* And exit status 0 means that every list has been written.
NoHalfWrittenLists ==
  pass = "exited" /\ ~wasFull =>
    \A o \in DOMAIN outs :
      /\ out[o].stage = "open" =>
           WellFormed(o) \/ (o = at /\ result = "UNKNOWN_ERROR")
      /\ result = "OK" => WellFormed(o)

\* An MHL that exists, also one that this program has just created for an
\* earlier -o option, is never opened for writing again.
NeverOverwrites ==
  [][\A p \in ListPaths : owner[p] # 0 => owner'[p] = owner[p]]_vars

\* The program ends, whatever other programs do to the files and the volume.
Termination == <>(pass \in {"exited", "killed"})

\* What 'mhl help seal' promises: "exits 0 on success, and >0 if an error
\* occurs" - so exit status 0 means that the lists have been written.
ExitStatusTellsSuccess ==
  pass = "exited" /\ result = "OK" => \A o \in DOMAIN outs : WellFormed(o)

(***************************************************************************)
(* What the program does to the lists is what ListRace says of one         *)
(* program, whose decision is all of the two passes.                       *)
(***************************************************************************)
Self == {"seal"}

Stage(o) ==
  IF out[o].stage # "open" THEN out[o].stage
  ELSE IF out[o].torn THEN "cut"
  ELSE IF out[o].flushed = TextLen(o) THEN "whole" ELSE "open"

Phase == IF pass \in {"size", "hash"} THEN "decide" ELSE pass

Failure ==
  IF result = "OK" THEN "none"
  ELSE IF overall # "OK" THEN "input"
  ELSE IF out[at].stage = "none" THEN "taken" ELSE "output"

TakenBy(n) == IF n = 0 THEN {} ELSE IF n = -1 THEN {"earlier"} ELSE Self

Paths(l) == [o \in DOMAIN l |-> l[o].path]

Race == INSTANCE ListRace WITH
  Programs <- Self,
  Earlier  <- "earlier",
  Commands <- {Paths(l) : l \in OutputLists},
  wants    <- [p \in Self |-> Paths(outs)],
  phase    <- [p \in Self |-> Phase],
  at       <- [p \in Self |-> at],
  lists    <- [p \in Self |-> [o \in DOMAIN outs |-> Stage(o)]],
  taken    <- [l \in ListPaths |-> TakenBy(owner[l])],
  failure  <- [p \in Self |-> Failure]

\* For its lists the program goes through nothing but the steps of ListRace:
\* it decides once, on the whole input, whether there will be any, creates
\* them in the order of the -o options, looks before it opens each of them,
\* stops at the first failure, and exits when all that it opened are closed.
CreatesLists == Race!Spec
=============================================================================
