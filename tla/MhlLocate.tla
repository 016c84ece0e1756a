----------------------------- MODULE MhlLocate -----------------------------
(***************************************************************************)
(* How a file and its record in a list find each other.  'mhl seal' names  *)
(* a file relative to the folder of the list; 'mhl verify' searches a list *)
(* in the folders above the first path of its command line (or is given    *)
(* one with -f), resolves the names in it against the list's folder, and   *)
(* looks up every file by the text of its absolute path.  In between,      *)
(* folders are copied and lists removed by other programs.                 *)
(***************************************************************************)
EXTENDS FsPath

CONSTANTS
  Folders,    \* the folders of the file system, as sequences of names
  FilesAtStart, \* the files that exist at the start, likewise
  Unreadable, \* the folders that opendir fails for
  Workdirs,   \* the working directories the program can be started in
  ArgPaths,   \* the texts of paths of files or folders on the command lines
  OutPaths,   \* the texts of paths given with -o, or leading to the list of -f
  CopyFrom, CopyTo, \* another program copies the first folder to the second
  MhlName,    \* the name of a list in its folder
  NoList,     \* stands in "lists" for a folder without a list
  MaxSeals, MaxEdits \* bounds on the lists made and on other programs' changes

Join(dir, path) == dir \o path

Rest(dir, path)  == SubSeq(path, Len(dir) + 1, Len(path))
Below(dir, path) == IsPrefix(dir, path)

\* Where a copy of the folder CopyFrom has what the folder has at a path.
Image(path) == Join(CopyTo, Rest(CopyFrom, path))

ASSUME LocateAssumption ==
  /\ Folders \cup FilesAtStart \subseteq Seq(Names)
  /\ {MhlName, "verify"} \subseteq Names
  /\ ArgPaths \cup OutPaths \subseteq Paths
  /\ <<>> \in Folders
  /\ \A d \in Folders \ {<<>>} : Front(d) \in Folders
  /\ \A f \in FilesAtStart : f # <<>> /\ f \notin Folders /\ Front(f) \in Folders
  /\ Unreadable \subseteq Folders /\ Workdirs \subseteq Folders
  /\ {CopyFrom, CopyTo} \subseteq Folders
  /\ \A d \in Folders : Below(CopyFrom, d) => Image(d) \in Folders
  /\ MaxSeals \in Nat /\ MaxEdits \in Nat

VARIABLES
  workdir, \* the working directory, of 'mhl seal' as of 'mhl verify'
  files,   \* the regular files on disk, lists excepted
  lists,   \* lists[d]: the names in the list in folder d
  seals, edits, \* the numbers of lists made and of other programs' changes
  touched, \* history: folders in which a list came or went during 'mhl verify'
  pass,    \* what the program is doing
  args,    \* the paths of the command line; empty if the list is checked
  inner,   \* inner_wpath: the path whose parent folder is searched next
  found,   \* f_wmhl: the path of the list
  names,   \* history: the names in the list when it was parsed
  keys,    \* the absolute paths the parsed records are filed under
  missed,  \* the paths looked up without success
  result   \* the exit status

diskVars   == <<files, lists, seals, edits, touched>>
verifyVars == <<args, inner, found, names, keys, missed, result>>
vars == <<workdir, diskVars, pass, verifyVars>>

(***************************************************************************)
(* What the operating system makes of a text: item after item, it enters a *)
(* folder, stays, or goes up, and the root is above itself.  A text that   *)
(* leads through a folder that does not exist leads nowhere.               *)
(***************************************************************************)
Nowhere == <<"">>

Enter[place \in Seq(Items)] ==
  [item \in Items |->
     IF place \notin Folders THEN Nowhere
     ELSE IF item \in {"", "."} \/ (item = ".." /\ place = <<>>) THEN place
     ELSE IF item = ".." THEN Front(place)
     ELSE Append(place, item)]

Reached(start, items) ==
  LET at[i \in 0..Len(items)] == IF i = 0 THEN start ELSE Enter[at[i - 1]][items[i]]
  IN at[Len(items)]

RealPath(p) == Reached(IF p.abs THEN <<>> ELSE workdir, p.items)

Leads(p, S) == RealPath(p) \in S

ListFiles == {Append(d, MhlName) : d \in {d \in Folders : lists[d] # NoList}}

\* The texts the walk makes for the files below the path given as text p:
\* concat_wpath_parts for every folder on the way.
TextsOf(p) ==
  LET real == RealPath(p)
      Text(path) == WithItems(p, p.items \o Rest(real, path))
  IN {Text(path) : path \in {f \in files \cup ListFiles : Below(real, f)}}

Init ==
  /\ workdir \in Workdirs
  /\ files = FilesAtStart
  /\ lists = [d \in Folders |-> NoList]
  /\ seals = 0 /\ edits = 0 /\ touched = {}
  /\ pass = "seal"
  /\ args = <<>> /\ inner = NoPath /\ found = NoPath
  /\ names = {} /\ keys = {} /\ missed = {} /\ result = "OK"

(***************************************************************************)
(* 'mhl seal -o out arg', after which the folder of out has a list.  It    *)
(* fails, and leaves nothing, if a path leads above the root or a file     *)
(* lies outside of the folder.                                             *)
(***************************************************************************)
NameIn(out, text) ==
  Then(Canonical(Abs(workdir), out), LAMBDA dir :
    Then(Canonical(Abs(workdir), text), LAMBDA f : ExtractRelative(dir, f)))

SealList ==
  /\ pass = "seal" /\ seals < MaxSeals
  /\ \E out \in OutPaths, arg \in ArgPaths :
       /\ Leads(out, Folders) /\ Leads(arg, Folders \cup files)
       /\ lists[RealPath(out)] = NoList
       /\ LET given == {NameIn(out, text) : text \in TextsOf(arg)}
          IN /\ given # {}
             /\ \A r \in given : r.res = "OK"
             /\ lists' = [lists EXCEPT ![RealPath(out)] = {r.path : r \in given}]
  /\ seals' = seals + 1
  /\ UNCHANGED <<workdir, files, edits, touched, pass, verifyVars>>

(***************************************************************************)
(* verify_mhl begins.                                                      *)
(***************************************************************************)
Finish(res) == pass' = "exited" /\ result' = res

VerifyPath ==
  /\ pass = "seal"
  /\ \E arg \in ArgPaths :
       /\ args' = <<arg>>
       /\ LET abs == ConvertToAbsoluteNormalized(Abs(workdir), arg)
          IN IF abs.res = "OK"
               THEN pass' = "search" /\ inner' = abs.path /\ UNCHANGED result
               ELSE Finish(abs.res) /\ UNCHANGED inner
  /\ UNCHANGED <<workdir, diskVars, found, names, keys, missed>>

\* Without -f and without a path the loop that looks for the first path
\* starts at argv[0], the name of the command.
VerifyNothing ==
  /\ pass = "seal"
  /\ pass' = "search"
  /\ inner' = CreateAbsoluteNormalized(Abs(workdir), Rel(<<"verify">>)).path
  /\ UNCHANGED <<workdir, diskVars, args, found, names, keys, missed, result>>

VerifyList ==
  /\ pass = "seal"
  /\ \E out \in OutPaths :
       LET abs == ConvertToAbsoluteNormalized(Abs(workdir), ConcatParts(out, MhlName))
       IN IF abs.res = "OK"
            THEN pass' = "parse" /\ found' = abs.path /\ UNCHANGED result
            ELSE Finish(abs.res) /\ UNCHANGED found
  /\ UNCHANGED <<workdir, diskVars, args, inner, names, keys, missed>>

(***************************************************************************)
(* One turn of the loop of search_mhl_wfile.                               *)
(***************************************************************************)
SkipUnreadable == \* mutated form: a folder that cannot be opened is passed over
  /\ pass = "search"
  /\ LET dir == ParentDir(inner)
     IN CASE dir.res # "OK" -> Finish(dir.res) /\ UNCHANGED <<inner, found>>
          [] dir.res = "OK" /\ Leads(dir.path, Folders)
               /\ lists[RealPath(dir.path)] # NoList
               /\ RealPath(dir.path) \notin Unreadable ->
               pass' = "parse" /\ found' = ConcatParts(dir.path, MhlName)
               /\ UNCHANGED <<inner, result>>
          [] OTHER -> inner' = dir.path /\ UNCHANGED <<pass, found, result>>
  /\ UNCHANGED <<workdir, diskVars, args, names, keys, missed>>

StayInFolder == \* mutated form: inner_wpath is not set to the folder searched
  /\ pass = "search"
  /\ LET dir == ParentDir(inner)
     IN CASE dir.res # "OK" -> Finish(dir.res) /\ UNCHANGED found
          [] dir.res = "OK" /\ ~Leads(dir.path, Folders) ->
               Finish("IO_ERROR") /\ UNCHANGED found
          [] OTHER -> IF lists[RealPath(dir.path)] # NoList
                        THEN /\ pass' = "parse" /\ UNCHANGED result
                             /\ found' = ConcatParts(dir.path, MhlName)
                        ELSE UNCHANGED <<pass, found, result>>
  /\ UNCHANGED <<workdir, diskVars, args, inner, names, keys, missed>>

SearchFolder ==
  /\ pass = "search"
  /\ LET dir  == ParentDir(inner)
         real == RealPath(dir.path)
     IN CASE dir.res # "OK" ->
               Finish(dir.res) /\ UNCHANGED <<inner, found>>
          [] dir.res = "OK" /\ (~Leads(dir.path, Folders) \/ real \in Unreadable) ->
               Finish("IO_ERROR") /\ UNCHANGED <<inner, found>>
          [] OTHER ->
               IF lists[real] # NoList
                 THEN /\ pass' = "parse" /\ found' = ConcatParts(dir.path, MhlName)
                      /\ UNCHANGED <<inner, result>>
                 ELSE inner' = dir.path /\ UNCHANGED <<pass, found, result>>
  /\ UNCHANGED <<workdir, diskVars, args, names, keys, missed>>

(***************************************************************************)
(* parse_mhl_wfile: does_wpath_exist, extract_wdir_from_wpath, and the     *)
(* name of every record.                                                   *)
(***************************************************************************)
AgainstTheWorkdir(base, name) == \* mutated form of KeyOf
  CreateAbsoluteNormalized(Abs(workdir), name)

KeyOf(base, name) == CreateAbsoluteNormalized(base, name)

ParseList ==
  /\ pass = "parse"
  /\ LET base == ParentDir(found)
         dir  == SubSeq(RealPath(found), 1, Len(RealPath(found)) - 1)
     IN CASE ~Leads(found, ListFiles) ->
               Finish("MHL_NOT_FOUND") /\ UNCHANGED <<names, keys>>
          [] Leads(found, ListFiles) /\ base.res # "OK" ->
               Finish(base.res) /\ UNCHANGED <<names, keys>>
          [] OTHER ->
               IF \E n \in lists[dir] : KeyOf(base.path, n).res # "OK"
                 THEN Finish("WRONG_MHL_FORMAT") /\ UNCHANGED <<names, keys>>
                 ELSE /\ pass' = "check" /\ UNCHANGED result
                      /\ names' = lists[dir]
                      /\ keys' = {KeyOf(base.path, n).path : n \in lists[dir]}
  /\ UNCHANGED <<workdir, diskVars, args, inner, found, missed>>

(***************************************************************************)
(* check_passed_file for every file below the path, or, without a path,    *)
(* the records themselves.  Of their verdicts only the look-up matters     *)
(* here; whether a file is intact is the subject of MhlVerify.             *)
(***************************************************************************)
LookUp(text) == ConvertToAbsoluteNormalized(Abs(workdir), text).path

CheckPaths ==
  /\ pass = "check" /\ args # <<>>
  /\ IF Leads(args[1], Folders \cup files)
       THEN LET texts == TextsOf(args[1])
            IN /\ missed' = {t \in texts : LookUp(t) \notin keys}
               /\ Finish(IF missed' = {} THEN "OK" ELSE "NO_MHL_ENTRY")
       ELSE Finish("NO_SUCH_FILE") /\ UNCHANGED missed
  /\ UNCHANGED <<workdir, diskVars, args, inner, found, names, keys>>

CheckList ==
  /\ pass = "check" /\ args = <<>>
  /\ Finish(IF \A k \in keys : k.items \in files \cup ListFiles
              THEN "OK" ELSE "NO_SUCH_FILE")
  /\ UNCHANGED <<workdir, diskVars, args, inner, found, names, keys, missed>>

Program ==
  \/ VerifyPath \/ VerifyNothing \/ VerifyList
  \/ SearchFolder \/ ParseList \/ CheckPaths \/ CheckList

(***************************************************************************)
(* Other programs.                                                         *)
(***************************************************************************)
Touch(dirs) ==
  /\ pass # "exited" /\ edits < MaxEdits
  /\ edits' = edits + 1
  /\ touched' = IF pass = "seal" THEN touched ELSE touched \cup dirs
  /\ UNCHANGED <<workdir, seals, pass, verifyVars>>

RemoveList ==
  \E d \in Folders :
    /\ lists[d] # NoList
    /\ lists' = [lists EXCEPT ![d] = NoList]
    /\ Touch({d}) /\ UNCHANGED files

\* A copy of a folder with all that is below it.  Its folders are there before,
\* see LocateAssumption.
CopyFolder ==
  LET copied == {d \in Folders : Below(CopyFrom, d) /\ lists[d] # NoList}
  IN /\ files' = files \cup {Image(f) : f \in {f \in files : Below(CopyFrom, Front(f))}}
     /\ lists' = [d \in Folders |->
                    IF \E e \in copied : Image(e) = d
                      THEN lists[CHOOSE e \in copied : Image(e) = d] ELSE lists[d]]
     /\ Touch({Image(d) : d \in copied})

Stopped == pass = "exited" /\ UNCHANGED vars

Next == SealList \/ Program \/ RemoveList \/ CopyFolder \/ Stopped

Spec == Init /\ [][Next]_vars

\* Once started 'mhl verify' runs on; whether anything is sealed before, or
\* changed meanwhile, is left open.
FairSpec == Spec /\ WF_vars(Program)

(***************************************************************************)
(* Properties.                                                             *)
(***************************************************************************)
TypeOK ==
  /\ workdir \in Workdirs
  /\ pass \in {"seal", "search", "parse", "check", "exited"}
  /\ DOMAIN lists = Folders /\ touched \subseteq Folders
  /\ seals \in 0..MaxSeals /\ edits \in 0..MaxEdits
  /\ Len(args) <= 1
  /\ pass = "search" => inner.abs
  /\ pass \in {"parse", "check"} => found.abs
  /\ result \in {"OK", "WRONG_FILE_LOCATION", "INTERNAL_ERROR", "IO_ERROR",
                 "MHL_NOT_FOUND", "WRONG_MHL_FORMAT", "NO_MHL_ENTRY", "NO_SUCH_FILE"}

\* A text that the program reads as the operating system does: a relative one
\* that does not lead above the root, where the program gives up and the system
\* stays, or an absolute one that is normalized already.  It enters no folder
\* that does not exist: the program does not mind, if ".." follows.
Plain(text) ==
  /\ RealPath(text) # Nowhere
  /\ IF text.abs THEN text.items \in Seq(Names) ELSE Canonical(Abs(workdir), text).res = "OK"

\* The folders above the file or folder the search started from.
Above(text) ==
  {d \in Folders : d # RealPath(text) /\ Below(d, RealPath(text))}

FoundDir == Front(RealPath(found))

\* The search of search_mhl_wfile finds the nearest list: one that lies above
\* the path, with no list in a folder in between, unless another program put
\* or removed one there meanwhile.  A list is never taken across a folder that
\* cannot be read.
NearestList ==
  args # <<>> /\ found # NoPath /\ Plain(args[1]) =>
    /\ FoundDir \in Above(args[1])
    /\ \A d \in Above(args[1]) \ {FoundDir} : Below(FoundDir, d) =>
         /\ d \notin Unreadable
         /\ lists[d] = NoList \/ d \in touched

\* The search fails only for a reason: if it ends without a list for a path
\* that exists, then no folder above the path, below the root and below every
\* unreadable folder, has had one all the time.
SearchFailsForAReason ==
  pass = "exited" /\ args # <<>> /\ Plain(args[1]) /\ found = NoPath
  /\ Leads(args[1], Folders \cup files) =>
    \A d \in Above(args[1]) \ ({<<>>} \cup touched) :
      lists[d] # NoList =>
        \E u \in Unreadable : u \in Above(args[1]) /\ Below(d, u)

\* The names 'mhl seal' gives to files relative to the folder of the list,
\* and the parser's reading of them, fit together wherever the list has been
\* copied to and however the list and the file are named on the command
\* line: a plainly written path is missed exactly if the list has no record
\* of the file it leads to.
LookupIsRight ==
  pass = "exited" /\ result \in {"OK", "NO_MHL_ENTRY"} /\ args # <<>> /\ Plain(args[1]) =>
    \A text \in missed \cup {args[1]} :
      \/ Leads(text, Folders)
      \/ text \in missed <=>
           ~\E n \in names : Join(FoundDir, n.items) = RealPath(text)

\* A list made by 'mhl seal', and every copy of it, leads to the files that were
\* sealed: a name resolved against the folder of the list is an existing file.
NamesLeadToFiles ==
  \A d \in Folders : lists[d] # NoList =>
    \A n \in lists[d] : Last(n.items) # MhlName => Join(d, n.items) \in files

\* Whatever way the list was reached, its records are filed under normalized
\* paths inside of the list's own folder, one for every name in it.
RecordsBelongToTheFolder ==
  pass = "check" =>
    /\ \A k \in keys : k.abs /\ Below(FoundDir, k.items) /\ Normalize(k) = Good(k)
    /\ {Rest(FoundDir, k.items) : k \in keys} = {n.items : n \in names}

\* Verification comes to an end: the walk up the folders ends at the root.
Termination == pass # "seal" ~> pass = "exited"

\* What 'mhl help mhl_files' says of the location of a list: for
\* "/Example/Movies/Clip1.mov" it can be put in "/Example/Movies/",
\* "/Example/" or "/", which "allows for an easy discovery" - so that a list
\* above a file whose folders can be read is used, whichever folder it is in.
EveryLocationIsDiscovered ==
  pass = "exited" /\ args # <<>> /\ Plain(args[1]) /\ touched = {}
  /\ Leads(args[1], files)
  /\ Above(args[1]) \cap Unreadable = {}
  /\ (\E d \in Above(args[1]) : lists[d] # NoList)
    => result \in {"OK", "NO_MHL_ENTRY"}
=============================================================================
