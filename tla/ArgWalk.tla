------------------------------ MODULE ArgWalk ------------------------------
(***************************************************************************)
(* The walk over the command line's paths that 'seal', 'verify' and 'hash' *)
(* share: run_func_on_args hands every file a path stands for to a         *)
(* callback, one after another, while other programs go on changing the    *)
(* files.  A path is a file, a folder (walked recursively), a file         *)
(* sequence such as "shot##1-20.dpx", or anything else (ignored).          *)
(*                                                                         *)
(* The module is extended by the modules of the commands: they supply what *)
(* the callback does between "cur" being set here and CallbackReturns.     *)
(***************************************************************************)
EXTENDS Integers, Sequences, FiniteSets

CONSTANTS
  Files,        \* the regular files the paths can stand for
  Contents,     \* what a file can hold
  SizeOf,       \* SizeOf[c]: the size of content c in bytes
  Absent,       \* stands in "disk" for a file that does not exist
  NoFile,       \* stands in "cur" for "no callback is running"
  CommandLines, \* the lists of paths the program can be started with
  MaxEdits      \* bound on the changes other programs make to the files

(***************************************************************************)
(* One path of the command line.  "files" is the one file of a file path   *)
(* and, in ascending order, the numbered files of a sequence; "below" are  *)
(* the files of a folder and of its subfolders.  "readable" says of a      *)
(* folder that opendir succeeds for it and its subfolders, and of a        *)
(* sequence that its pattern is accepted and every number has a name.      *)
(* Kind "other" stands for symbolic links, sockets, devices and FIFOs.     *)
(***************************************************************************)
PathSpec == [kind : {"file", "folder", "sequence", "other"},
             files : Seq(Files), below : SUBSET Files, readable : BOOLEAN]

FilePath(f) ==
  [kind |-> "file", files |-> <<f>>, below |-> {}, readable |-> TRUE]
SequencePath(s, readable) ==
  [kind |-> "sequence", files |-> s, below |-> {}, readable |-> readable]
FolderPath(fs, readable) ==
  [kind |-> "folder", files |-> <<>>, below |-> fs, readable |-> readable]
OtherPath ==
  [kind |-> "other", files |-> <<>>, below |-> {}, readable |-> TRUE]

ASSUME ArgWalkAssumption ==
  /\ SizeOf \in [Contents -> Nat]
  /\ Absent \notin Contents
  /\ NoFile \notin Files
  /\ MaxEdits \in Nat
  /\ CommandLines \subseteq Seq(PathSpec)
  /\ \A line \in CommandLines : \A i \in DOMAIN line :
        /\ line[i].kind = "file" => Len(line[i].files) = 1
        /\ line[i].kind \in {"folder", "other"} => line[i].files = <<>>
        /\ line[i].kind # "folder" => line[i].below = {}
        /\ line[i].kind \in {"file", "other"} => line[i].readable

(***************************************************************************)
(* The results of the callbacks and of the walk itself.                    *)
(***************************************************************************)
Codes == {"OK", "NO_SUCH_FILE", "IO_ERROR", "INVALID_SEQUENCE",
          "GAP_IN_SEQUENCE", "WRONG_FILE_LOCATION", "HASH_FAILED",
          "FILE_SIZE_FAILED", "NO_MHL_ENTRY", "UNKNOWN_ERROR"}

VARIABLES
  disk,     \* disk[f]: the content of file f, or Absent
  touched,  \* history: the files other programs changed since the start
  edits,    \* number of those changes
  args,     \* the paths on the command line
  arg,      \* index of the path at hand; Len(args) + 1 after the last one
  walk,     \* where the walk through a folder or a sequence stands
  cur,      \* the file the callback works on, or NoFile
  overall,  \* overall_res: the last error of this pass, or "OK"
  count     \* the counters of processed, failed and checked files

diskVars == <<disk, touched, edits>>
walkVars == <<args, arg, walk, cur, overall, count>>

(***************************************************************************)
(* A folder being read: readdir still owes the files of "must", which have *)
(* been there since opendir, and may or may not return those of "may",     *)
(* which came or went meanwhile.  "probe" and "number" are the two loops   *)
(* over a sequence: the search for gaps and the callbacks.                 *)
(***************************************************************************)
Idle == [at |-> "path", must |-> {}, may |-> {}, pos |-> 0, gap |-> FALSE]
InFolder(must) == [Idle EXCEPT !.at = "folder", !.must = must]
Probing        == [Idle EXCEPT !.at = "probe", !.pos = 1]
Numbering      == [Idle EXCEPT !.at = "number", !.pos = 1]

Places == [at : {"path", "folder", "probe", "number"},
           must : SUBSET Files, may : SUBSET Files, pos : Nat, gap : BOOLEAN]

Counters == [processed : Nat, failed : Nat, ok : Nat, seqs : Nat, seqsFailed : Nat]

NoCount == [processed |-> 0, failed |-> 0, ok |-> 0, seqs |-> 0, seqsFailed |-> 0]

WalkTypeOK ==
  /\ disk \in [Files -> Contents \cup {Absent}]
  /\ touched \in SUBSET Files
  /\ edits \in 0..MaxEdits
  /\ args \in CommandLines
  /\ arg \in 1..(Len(args) + 1)
  /\ walk \in Places
  /\ cur \in Files \cup {NoFile}
  /\ overall \in Codes
  /\ count \in Counters

WalkInit ==
  /\ disk \in [Files -> Contents \cup {Absent}]
  /\ touched = {}
  /\ edits = 0
  /\ args \in CommandLines
  /\ arg = 1
  /\ walk = Idle
  /\ cur = NoFile
  /\ overall = "OK"
  /\ count = NoCount

Exists(f) == disk[f] # Absent
ThePath   == args[arg]
WalkDone  == cur = NoFile /\ walk = Idle /\ arg > Len(args)

(***************************************************************************)
(* The end of one path: its result is remembered if it is an error, and    *)
(* the walk goes on with the next path in either case.                     *)
(***************************************************************************)
LastResultWins(res) == \* mutated form of NextPath: a later success hides an error
  arg' = arg + 1 /\ walk' = Idle /\ overall' = res

NextPath(res) ==
  /\ arg' = arg + 1
  /\ walk' = Idle
  /\ overall' = IF res = "OK" THEN overall ELSE res

Counted(res) ==
  [count EXCEPT !.processed = @ + 1,
                !.failed = IF res = "OK" THEN @ ELSE @ + 1,
                !.ok = IF res = "OK" THEN @ + 1 ELSE @]

CountedSequence(res) ==
  [count EXCEPT !.seqs = @ + 1,
                !.seqsFailed = IF res = "OK" THEN @ ELSE @ + 1]

\* A path that does not exist counts as a failed file.
MissingPath ==
  /\ cur = NoFile /\ walk.at = "path" /\ arg <= Len(args)
  /\ ThePath.kind = "file" /\ ~Exists(ThePath.files[1])
  /\ count' = Counted("NO_SUCH_FILE")
  /\ NextPath("NO_SUCH_FILE")
  /\ UNCHANGED <<diskVars, args, cur>>

\* A symbolic link, a device, a socket: a warning, and the next path.
IgnorePathForever == \* mutated form: "continue" before the index is advanced
  /\ cur = NoFile /\ walk.at = "path" /\ arg <= Len(args)
  /\ ThePath.kind = "other"
  /\ UNCHANGED <<diskVars, walkVars>>

IgnorePath ==
  /\ cur = NoFile /\ walk.at = "path" /\ arg <= Len(args)
  /\ ThePath.kind = "other"
  /\ NextPath("OK")
  /\ UNCHANGED <<diskVars, args, cur, count>>

BeginFile ==
  /\ cur = NoFile /\ walk.at = "path" /\ arg <= Len(args)
  /\ ThePath.kind = "file" /\ Exists(ThePath.files[1])
  /\ cur' = ThePath.files[1]
  /\ UNCHANGED <<diskVars, args, arg, walk, overall, count>>

BeginFolder ==
  /\ cur = NoFile /\ walk.at = "path" /\ arg <= Len(args)
  /\ ThePath.kind = "folder"
  /\ walk' = InFolder({f \in ThePath.below : Exists(f)})
  /\ UNCHANGED <<diskVars, args, arg, cur, overall, count>>

\* readdir returns the next entry.
VisitEntry ==
  /\ cur = NoFile /\ walk.at = "folder"
  /\ \E f \in walk.must \cup walk.may :
       /\ cur' = f
       /\ walk' = [walk EXCEPT !.must = @ \ {f}, !.may = @ \ {f}]
  /\ UNCHANGED <<diskVars, args, arg, overall, count>>

EndFolder ==
  /\ cur = NoFile /\ walk.at = "folder"
  /\ walk.must = {} /\ ThePath.readable
  /\ NextPath("OK")
  /\ UNCHANGED <<diskVars, args, cur, count>>

\* opendir fails for the folder or, any number of entries later, for one of
\* its subfolders: the files not visited by then never are.
FolderFailureIgnored == \* mutated form: the result of opendir is not handed up
  /\ cur = NoFile /\ walk.at = "folder"
  /\ ~ThePath.readable
  /\ NextPath("OK")
  /\ UNCHANGED <<diskVars, args, cur, count>>

FolderFails ==
  /\ cur = NoFile /\ walk.at = "folder"
  /\ ~ThePath.readable
  /\ NextPath("IO_ERROR")
  /\ UNCHANGED <<diskVars, args, cur, count>>

\* init_mhl_sequence refuses the pattern, or the first loop below comes to a
\* number whose name has no room: what it has probed until then leaves no trace.
RefuseSequence ==
  /\ cur = NoFile /\ walk.at = "path" /\ arg <= Len(args)
  /\ ThePath.kind = "sequence" /\ ~ThePath.readable
  /\ count' = CountedSequence("INVALID_SEQUENCE")
  /\ NextPath("INVALID_SEQUENCE")
  /\ UNCHANGED <<diskVars, args, cur>>

BeginSequence ==
  /\ cur = NoFile /\ walk.at = "path" /\ arg <= Len(args)
  /\ ThePath.kind = "sequence" /\ ThePath.readable
  /\ walk' = Probing
  /\ UNCHANGED <<diskVars, args, arg, cur, overall, count>>

\* The first loop opens every number of the sequence to find gaps.
ProbeNumber ==
  /\ walk.at = "probe" /\ walk.pos <= Len(ThePath.files)
  /\ walk' = [walk EXCEPT !.pos = @ + 1,
                          !.gap = @ \/ ~Exists(ThePath.files[walk.pos])]
  /\ UNCHANGED <<diskVars, args, arg, cur, overall, count>>

ProbesDone ==
  /\ walk.at = "probe" /\ walk.pos > Len(ThePath.files)
  /\ IF walk.gap
       THEN /\ count' = CountedSequence("GAP_IN_SEQUENCE")
            /\ NextPath("GAP_IN_SEQUENCE")
       ELSE walk' = Numbering /\ UNCHANGED <<arg, overall, count>>
  /\ UNCHANGED <<diskVars, args, cur>>

\* The second loop calls back, whether or not the number still exists.  Every
\* number has got its name in the first loop already.
VisitNumber ==
  /\ cur = NoFile /\ walk.at = "number" /\ walk.pos <= Len(ThePath.files)
  /\ cur' = ThePath.files[walk.pos]
  /\ walk' = [walk EXCEPT !.pos = @ + 1]
  /\ UNCHANGED <<diskVars, args, arg, overall, count>>

EndSequence ==
  /\ cur = NoFile /\ walk.at = "number" /\ walk.pos > Len(ThePath.files)
  /\ count' = CountedSequence("OK")
  /\ NextPath("OK")
  /\ UNCHANGED <<diskVars, args, cur>>

Walk ==
  \/ MissingPath \/ IgnorePath \/ BeginFile
  \/ BeginFolder \/ VisitEntry \/ EndFolder \/ FolderFails
  \/ RefuseSequence \/ BeginSequence \/ ProbeNumber \/ ProbesDone
  \/ VisitNumber \/ EndSequence

(***************************************************************************)
(* The callback returns res.  A file path is done with; inside a folder    *)
(* (walked with stop_on_error = 1) and inside a sequence an error ends the *)
(* path, and only files met outside a sequence are counted.                *)
(***************************************************************************)
CallbackReturns(res) ==
  /\ cur' = NoFile
  /\ args' = args
  /\ \/ /\ walk.at = "path"
        /\ count' = Counted(res)
        /\ NextPath(res)
     \/ /\ walk.at = "folder"
        /\ count' = Counted(res)
        /\ IF res = "OK" THEN UNCHANGED <<arg, walk, overall>> ELSE NextPath(res)
     \/ /\ walk.at = "number"
        /\ IF res = "OK"
             THEN UNCHANGED <<arg, walk, overall, count>>
             ELSE count' = CountedSequence(res) /\ NextPath(res)

(***************************************************************************)
(* The callback of every command's first pass, calculate_total_sz: the     *)
(* file is only asked for its size.                                        *)
(***************************************************************************)
SizeFile ==
  /\ cur # NoFile
  /\ CallbackReturns(IF Exists(cur) THEN "OK" ELSE "NO_SUCH_FILE")
  /\ UNCHANGED diskVars

\* run_func_on_args is entered again for the second pass.
RestartWalk ==
  /\ arg' = 1
  /\ walk' = Idle
  /\ overall' = "OK"
  /\ count' = NoCount
  /\ UNCHANGED <<args, cur>>

(***************************************************************************)
(* Another program creates, overwrites or deletes a file, whatever this    *)
(* program is doing.  Nothing in the code locks the files it reads.        *)
(***************************************************************************)
Edit(f, c) ==
  /\ edits < MaxEdits
  /\ disk[f] # c
  /\ disk' = [disk EXCEPT ![f] = c]
  /\ touched' = touched \cup {f}
  /\ edits' = edits + 1
  /\ walk' = IF \/ walk.at # "folder"
                \/ f \notin ThePath.below
                \/ c # Absent /\ Exists(f)
                \/ c = Absent /\ f \notin walk.must
               THEN walk
               ELSE [walk EXCEPT !.must = @ \ {f}, !.may = @ \cup {f}]
  /\ UNCHANGED <<args, arg, cur, overall, count>>

(***************************************************************************)
(* The files path p stands for.                                            *)
(***************************************************************************)
FilesOf(p) == p.below \cup {p.files[i] : i \in DOMAIN p.files}

\* The error of one path is not forgotten while the next paths are walked:
\* run_func_on_args returns 0 only if no file and no sequence failed, and no
\* folder, for which there is no counter.
ErrorsAreRemembered ==
  overall = "OK" =>
    /\ count.failed = 0 /\ count.seqsFailed = 0
    /\ \A i \in 1..(arg - 1) : args[i].readable
=============================================================================
