------------------------------ MODULE FsPath ------------------------------
(***************************************************************************)
(* The functions on paths of file_path_decomposition.c and                 *)
(* os_filepath_handlers.c, in their POSIX form.  A path written as text is *)
(* what lies between its separators: "/vol//a/" is absolute with the items *)
(* "vol", "", "a", "", and "a/b" is relative with the items "a", "b".      *)
(***************************************************************************)
EXTENDS Integers, Sequences, SequencesExt

CONSTANT Names \* the names of files and folders

ASSUME NamesAssumption == Names \cap {"", ".", ".."} = {}

\* What can lie between separators.
Items == Names \cup {"", ".", ".."}

Abs(items) == [abs |-> TRUE, items |-> items]
Rel(items) == [abs |-> FALSE, items |-> items]

WithItems(p, items) == [abs |-> p.abs, items |-> items]

Paths == [abs : BOOLEAN, items : Seq(Items)]

\* Every function returns a code and, if it is "OK", a path.
Results == [res : {"OK", "WRONG_FILE_LOCATION", "INTERNAL_ERROR"}, path : Paths]
NoPath    == Rel(<<>>)
Good(p)   == [res |-> "OK", path |-> p]
Bad(code) == [res |-> code, path |-> NoPath]

\* The next function, if this one succeeded.
Then(r, Op(_)) == IF r.res = "OK" THEN Op(r.path) ELSE r

\* init_fs_wpath: consecutive and trailing separators vanish, "." and ".."
\* are items like any others.
KeepItem[items \in Seq(Items)] ==
  [item \in Items |-> IF item = "" THEN items ELSE Append(items, item)]

InitFsPath(p) ==
  LET kept[i \in 0..Len(p.items)] ==
        IF i = 0 THEN <<>> ELSE KeepItem[kept[i - 1]][p.items[i]]
  IN WithItems(p, kept[Len(p.items)])

RemoveLast(p) ==
  IF p.items = <<>> THEN Bad("WRONG_FILE_LOCATION")
                    ELSE Good(WithItems(p, Front(p.items)))

\* add_normalized: ".." takes away the last item of the destination.
DotsAreNames(dst, src) == \* mutated form: ".." is added like a name
  Good(WithItems(dst, dst.items \o SelectSeq(src.items, LAMBDA item : item # ".")))

AddItem[r \in Results] ==
  [item \in Items |->
     IF r.res # "OK" \/ item \in {"", "."} THEN r
     ELSE IF item = ".." THEN RemoveLast(r.path)
     ELSE Good(WithItems(r.path, Append(r.path.items, item)))]

AddNormalized(dst, src) ==
  LET added[i \in 0..Len(src.items)] ==
        IF i = 0 THEN Good(dst) ELSE AddItem[added[i - 1]][src.items[i]]
  IN added[Len(src.items)]

\* An absolute path is left as it is; both parts of the others are normalized.
ConvertToAbsolute(base, p) ==
  CASE p.abs               -> Good(p)
    [] ~p.abs /\ ~base.abs -> Bad("INTERNAL_ERROR")
    [] OTHER -> Then(AddNormalized(Abs(<<>>), base), LAMBDA b : AddNormalized(b, p))

Normalize(p) == AddNormalized(WithItems(p, <<>>), p)

TopHasNoText(p) == \* mutated form: off by one
  IF Len(p.items) <= 1 THEN Bad("INTERNAL_ERROR") ELSE Good(p)

\* fs_wpath_to_wstring: there is no text for an empty path, not even for "/".
ToText(p) == IF p.items = <<>> THEN Bad("INTERNAL_ERROR") ELSE Good(p)

\* create_absolute_normalized_wpath
CreateAbsoluteNormalized(parent, p) ==
  Then(ConvertToAbsolute(InitFsPath(parent), InitFsPath(p)), ToText)

CopyEveryPath(workdir, p) == Good(p) \* mutated form: relative paths are copied too

\* convert_to_absolute_normalized_wpath: what starts with the root is copied.
ConvertToAbsoluteNormalized(workdir, p) ==
  IF p.abs THEN Good(p) ELSE CreateAbsoluteNormalized(workdir, p)

\* extract_wdir_from_wpath
ParentDir(p) == Then(RemoveLast(InitFsPath(p)), ToText)

\* The way of preprocess_mhlcreate_data and of process_file to a path that is
\* absolute and normalized whatever was given.
Canonical(workdir, p) ==
  IF p.abs THEN Normalize(InitFsPath(p))
           ELSE ConvertToAbsolute(InitFsPath(workdir), InitFsPath(p))

\* is_nested_fs_wpath and extract_relative_wpath, for canonical paths.
SubstringIsNested(base, p) == \* mutated form: only the number of items is looked at
  Len(base.items) <= Len(p.items)

IsNested(base, p) == IsPrefix(base.items, p.items)

ExtractRelative(base, p) ==
  IF IsNested(base, p)
    THEN ToText(Rel(SubSeq(p.items, Len(base.items) + 1, Len(p.items))))
    ELSE Bad("WRONG_FILE_LOCATION")

\* concat_wpath_parts puts a separator between its parts, also after one.
ConcatParts(dir, name) == WithItems(dir, Append(dir.items, name))
=============================================================================
