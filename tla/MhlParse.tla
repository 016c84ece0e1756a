------------------------------ MODULE MhlParse ------------------------------
(***************************************************************************)
(* A list from its making to its reading.  'mhl seal' keeps two sums of    *)
(* every file and prints them into a list, which may be cut off; or the    *)
(* list comes from elsewhere.  parse_mhl_wfile then reads it, element      *)
(* after element, into the hash table check_witems.                        *)
(***************************************************************************)
EXTENDS Integers, Sequences, SequencesExt, FiniteSetsExt

CONSTANTS
  Files,      \* the files, as the keys of the table (FsPath is about names)
  Contents,   \* what a file can contain
  Selections, \* the sets of types that 'mhl seal' can be given
  GivenLists, \* lists that were not made by 'mhl seal'
  MaxRecords, MaxEdits, \* bounds on records sealed and changes of files
  Bad, Fine,  \* an element's value that cannot be used, and a size
  NoFile, NoSum

\* In the order in which fill_data_directly looks at them.
TypeOrder == <<"sha1", "md5", "xxhash", "xxhash64", "xxhash64be">>
Types == ToSet(TypeOrder)

\* The elements of a record.  A "file" or "size" that is empty or cannot be
\* converted, and a sum of the wrong length or an empty one, is Bad.
Element(tag, value) == [tag |-> tag, value |-> value]
Null == Element("null", NoSum)

\* A record: whether its attribute makes it a reference to another list, and
\* its elements.
Record(ref, elements) == [ref |-> ref, elements |-> elements]

\* What a list can be made of; "hashdate" stands for all that is skipped.
Elements ==
  {Element("file", f) : f \in Files \cup {Bad}} \cup {Element("size", z) : z \in {Fine, Bad}}
  \cup {Element(t, <<t, c>>) : t \in Types, c \in Contents} \cup {Element(t, Bad) : t \in Types}
  \cup {Null, Element("hashdate", Fine)}

Shapes == {"whole", "cut", "missing", "other root", "new version", "no version"}

Lists == [records : Seq([ref : BOOLEAN, elements : Seq(Elements)]), shape : Shapes]

ASSUME ParseAssumption ==
  /\ NoFile \notin Files /\ Bad \notin Files
  /\ NoSum # Bad /\ Fine # Bad
  /\ {NoSum, Bad} \cap (Types \X Contents) = {}
  /\ Selections \subseteq (SUBSET Types) \ {{}}
  /\ GivenLists \subseteq Lists
  /\ MaxRecords \in Nat /\ MaxEdits \in Nat

VARIABLES
  disk,   \* the content of each file
  selected, \* the types chosen for 'mhl seal'
  list,   \* the records of the list, and the shape of the file
  sealed, \* history: the contents 'mhl seal' has put into the list, in order
  edits,  \* the number of changes of files
  pass,   \* "seal", "open", "record", "element", "exited" or "crashed"
  at, el, \* cur: the record and the element at hand
  item,   \* p_check_witem
  table,  \* check_witems, as a function
  result

world == <<disk, selected, list, sealed, edits>>
vars  == <<world, pass, at, el, item, table, result>>

NoItem == [key |-> NoFile, sized |-> FALSE, type |-> "unrecognized", sum |-> NoSum]

Init ==
  /\ disk \in [Files -> Contents]
  /\ selected \in Selections
  /\ list = [records |-> <<>>, shape |-> "cut"]
  /\ sealed = <<>> /\ edits = 0
  /\ pass = "seal" /\ at = 0 /\ el = 0
  /\ item = NoItem /\ table = <<>> /\ result = "OK"

(***************************************************************************)
(* 'mhl seal': fill_data_directly keeps the first two of the selected      *)
(* types, print_file_hash_info prints them in that order.  A file named    *)
(* twice gets two records, and may change in between.                      *)
(***************************************************************************)
Kept(types) ==
  LET places == {i \in DOMAIN TypeOrder : TypeOrder[i] \in types}
      major  == Min(places)
      rest   == places \ {major}
  IN IF rest = {} THEN <<TypeOrder[major]>> ELSE <<TypeOrder[major], TypeOrder[Min(rest)]>>

Sums(f) ==
  LET kept == Kept(selected)
  IN [k \in DOMAIN kept |-> Element(kept[k], <<kept[k], disk[f]>>)]

SealFile ==
  /\ pass = "seal" /\ Len(list.records) < MaxRecords
  /\ \E f \in Files :
       /\ list' = [list EXCEPT !.records = Append(@,
            Record(FALSE, <<Element("file", f), Element("size", Fine)>> \o Sums(f)))]
       /\ sealed' = Append(sealed, disk[f])
  /\ UNCHANGED <<disk, selected, edits, pass, at, el, item, table, result>>

\* The footer is printed; if the program ends before, the list stays cut off.
EndSeal ==
  /\ pass = "seal" /\ list.records # <<>>
  /\ \E shape \in {"whole", "cut"} : list' = [list EXCEPT !.shape = shape]
  /\ pass' = "open"
  /\ UNCHANGED <<disk, selected, sealed, edits, at, el, item, table, result>>

GivenList ==
  /\ pass = "seal" /\ list.records = <<>>
  /\ list' \in GivenLists
  /\ pass' = "open"
  /\ UNCHANGED <<disk, selected, sealed, edits, at, el, item, table, result>>

FileChanges ==
  /\ pass = "seal" /\ edits < MaxEdits
  /\ \E f \in Files, c \in Contents : disk' = [disk EXCEPT ![f] = c]
  /\ edits' = edits + 1
  /\ UNCHANGED <<selected, list, sealed, pass, at, el, item, table, result>>

(***************************************************************************)
(* parse_mhl_wfile up to the loop.  A list that is cut off is not XML.  A  *)
(* version above 1.1 is refused; without a version atof reads from NULL.   *)
(***************************************************************************)
Finish(res) == pass' = "exited" /\ result' = res
Crash == pass' = "crashed" /\ UNCHANGED result

OpenList ==
  /\ pass = "open"
  /\ \/ list.shape = "missing" /\ Finish("MHL_NOT_FOUND") /\ UNCHANGED at
     \/ /\ list.shape \in {"cut", "other root", "new version"}
        /\ Finish("WRONG_MHL_FORMAT") /\ UNCHANGED at
     \/ list.shape = "no version" /\ Crash /\ UNCHANGED at
     \/ list.shape = "whole" /\ pass' = "record" /\ at' = 1 /\ UNCHANGED result
  /\ UNCHANGED <<world, el, item, table>>

BeginRecord ==
  /\ pass = "record" /\ at <= Len(list.records)
  /\ pass' = "element" /\ el' = 1 /\ item' = NoItem
  /\ UNCHANGED <<world, at, table, result>>

EndOfList ==
  /\ pass = "record" /\ at > Len(list.records)
  /\ Finish("OK")
  /\ UNCHANGED <<world, at, el, item, table>>

(***************************************************************************)
(* aux_parse_name_wfile, aux_parse_file_size and aux_parse_hash_type: the  *)
(* record after one more element, or an error.  What is read replaces what *)
(* was there; only sha1 is never replaced, and null leaves the sum.        *)
(***************************************************************************)
Read(i) == [res |-> "OK", item |-> i]
ReadError == [res |-> "ERROR", item |-> NoItem]

AnySumReplaces(i, e) == \* mutated form: sha1 is not the primary hash
  CASE e.tag = "null"  -> Read([i EXCEPT !.type = "null"])
    [] e.value = Bad -> ReadError
    [] OTHER           -> Read([i EXCEPT !.type = e.tag, !.sum = e.value])

FirstSumStays(i, e) == \* mutated form: the first sum is the primary one
  CASE i.type # "unrecognized" -> Read(i)
    [] e.tag = "null"          -> Read([i EXCEPT !.type = "null"])
    [] e.value = Bad         -> ReadError
    [] OTHER                   -> Read([i EXCEPT !.type = e.tag, !.sum = e.value])

ParseSum(i, e) ==
  CASE i.type = "sha1" -> Read(i)
    [] i.type # "sha1" /\ e.tag = "null"  -> Read([i EXCEPT !.type = "null"])
    [] i.type # "sha1" /\ e.value = Bad -> ReadError
    [] OTHER -> Read([i EXCEPT !.type = e.tag, !.sum = e.value])

ParseElement(i, e) ==
  CASE e.tag \in Types \cup {"null"} -> ParseSum(i, e)
    [] e.tag = "file" /\ e.value # Bad -> Read([i EXCEPT !.key = e.value])
    [] e.tag = "size" /\ e.value # Bad -> Read([i EXCEPT !.sized = TRUE])
    [] e.tag \in {"file", "size"} /\ e.value = Bad -> ReadError
    [] OTHER -> Read(i)

NextElement ==
  /\ pass = "element" /\ el <= Len(list.records[at].elements)
  /\ LET read == ParseElement(item, list.records[at].elements[el])
     IN IF read.res = "OK"
          THEN item' = read.item /\ el' = el + 1 /\ UNCHANGED <<pass, result>>
          ELSE Finish("WRONG_MHL_FORMAT") /\ UNCHANGED <<item, el>>
  /\ UNCHANGED <<world, at, table>>

(***************************************************************************)
(* The end of aux_parse_hash.  A second record of a file is dropped; if it *)
(* is a reference, it is taken for a cycle.  A first reference is entered, *)
(* and then the function calls itself for the element after the last one,  *)
(* which is NULL.                                                          *)
(***************************************************************************)
NothingIsRequired(i) == TRUE \* mutated form

Complete(i) ==
  /\ i.sized /\ i.key # NoFile /\ i.type # "unrecognized"
  /\ i.sum # NoSum \/ i.type = "null"

LastRecordWins == \* mutated form: a record replaces an earlier one
  /\ pass = "element" /\ el > Len(list.records[at].elements)
  /\ IF Complete(item)
       THEN /\ table' = [f \in DOMAIN table \cup {item.key} |->
                           IF f = item.key THEN item ELSE table[f]]
            /\ pass' = "record" /\ at' = at + 1 /\ UNCHANGED result
       ELSE Finish("WRONG_MHL_FORMAT") /\ UNCHANGED <<at, table>>
  /\ UNCHANGED <<world, el, item>>

EndRecord ==
  LET ref   == list.records[at].ref
      known == item.key \in DOMAIN table
      Enter == table' = [f \in DOMAIN table \cup {item.key} |->
                           IF f = item.key THEN item ELSE table[f]]
  IN /\ pass = "element" /\ el > Len(list.records[at].elements)
     /\ \/ /\ ~Complete(item) \/ (known /\ ref)
           /\ Finish("WRONG_MHL_FORMAT") /\ UNCHANGED <<at, table>>
        \/ /\ Complete(item) /\ known /\ ~ref
           /\ pass' = "record" /\ at' = at + 1 /\ UNCHANGED <<table, result>>
        \/ /\ Complete(item) /\ ~known /\ ~ref /\ Enter
           /\ pass' = "record" /\ at' = at + 1 /\ UNCHANGED result
        \/ /\ Complete(item) /\ ~known /\ ref /\ Enter
           /\ Crash /\ UNCHANGED at
     /\ UNCHANGED <<world, el, item>>

Stopped == pass \in {"exited", "crashed"} /\ UNCHANGED vars

Parser == OpenList \/ BeginRecord \/ NextElement \/ EndRecord \/ EndOfList

Next == SealFile \/ EndSeal \/ GivenList \/ FileChanges \/ Parser \/ Stopped

Spec == Init /\ [][Next]_vars

(***************************************************************************)
(* What a record means as a whole.                                         *)
(***************************************************************************)
Places(r, tags) == {k \in DOMAIN r.elements : r.elements[k].tag \in tags}
SumTags == Types \cup {"null"}

\* The sum that counts: the first sha1, or else the last of all.
Deciding(r) ==
  IF Places(r, {"sha1"}) # {} THEN Min(Places(r, {"sha1"})) ELSE Max(Places(r, SumTags))

FileOf(r) == r.elements[Max(Places(r, {"file"}))].value

\* Every part is there, and none that was looked at is bad.
WellFormed(r) ==
  /\ Places(r, {"file"}) # {} /\ Places(r, {"size"}) # {} /\ Places(r, SumTags) # {}
  /\ \A k \in Places(r, {"file", "size"}) : r.elements[k].value # Bad
  /\ \A k \in Places(r, SumTags) : k <= Deciding(r) => r.elements[k].value # Bad

FirstRecordOf(f) ==
  list.records[Min({k \in DOMAIN list.records : FileOf(list.records[k]) = f})]

(***************************************************************************)
(* Properties.                                                             *)
(***************************************************************************)

\* What is entered into the table can be compared: it is filed under its
\* own name, and a type other than null comes with a sum of this type.
TypeOK ==
  /\ pass \in {"seal", "open", "record", "element", "exited", "crashed"}
  /\ at \in 0..(Len(list.records) + 1)
  /\ result \in {"OK", "MHL_NOT_FOUND", "WRONG_MHL_FORMAT"}
  /\ DOMAIN table \subseteq Files
  /\ \A f \in DOMAIN table :
       /\ table[f].key = f
       /\ \/ table[f].type = "null"
          \/ table[f].sum # NoSum /\ table[f].sum[1] = table[f].type

\* The parser, reading element by element, accepts exactly the lists all of
\* whose records are well-formed, and files for every file what its first
\* record means as a whole, whatever the order and number of the elements.
ParsedAsWritten ==
  pass = "exited" /\ list.shape = "whole"
  /\ (\A k \in DOMAIN list.records : ~list.records[k].ref) =>
    /\ result = "OK" <=> \A k \in DOMAIN list.records : WellFormed(list.records[k])
    /\ result = "OK" =>
         /\ DOMAIN table = {FileOf(list.records[k]) : k \in DOMAIN list.records}
         /\ \A f \in DOMAIN table :
              LET r == FirstRecordOf(f)
                  e == r.elements[Deciding(r)]
              IN table[f].type = e.tag /\ (e.tag # "null" => table[f].sum = e.value)

\* A list with its footer that 'mhl seal' has made is parsed, and what will be
\* compared with a file is a sum of the content it was first sealed with: the
\* sha1 if it was selected, otherwise the last one that was kept.  A list cut
\* off is refused.
SealedListsAreVerifiable ==
  sealed # <<>> /\ pass \in {"exited", "crashed"} =>
    IF list.shape # "whole" THEN result = "WRONG_MHL_FORMAT" /\ table = <<>>
    ELSE /\ pass = "exited" /\ result = "OK"
         /\ \A k \in DOMAIN sealed :
              LET f == FileOf(list.records[k])
                  t == IF "sha1" \in selected THEN "sha1" ELSE Last(Kept(selected))
              IN (\A j \in 1..(k - 1) : FileOf(list.records[j]) # f) =>
                   table[f].type = t /\ table[f].sum = <<t, sealed[k]>>

\* What has been entered for a file is not changed by later records of it,
\* whatever they say, and is there when the next record is read.
FirstRecordWins ==
  [][\A f \in DOMAIN table : f \in DOMAIN table' /\ table'[f] = table[f]]_vars
=============================================================================
