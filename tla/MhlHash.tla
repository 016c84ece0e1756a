------------------------------ MODULE MhlHash ------------------------------
(***************************************************************************)
(* 'mhl hash'.  It either prints a line for every file and selected type   *)
(* (hash_calculate.c), or, with -h, compares one file with a given sum     *)
(* (file_verify.c).                                                        *)
(***************************************************************************)
EXTENDS HashRead

CONSTANTS
  Orders, \* what the program is asked for: see Calculate and Check below
  Unread  \* stands for a text that is no sum at all

\* In the order of calculate_and_print_hash, with the letters of a printed
\* sum and of the prefix it can be given with.
PrintOrder == <<"md5", "sha1", "xxhash", "xxhash64", "xxhash64be">>
Types == {PrintOrder[i] : i \in DOMAIN PrintOrder}
SumLength ==
  [md5 |-> 32, sha1 |-> 40, xxhash |-> 10, xxhash64 |-> 16, xxhash64be |-> 16]
PrefixLength ==
  [md5 |-> 4, sha1 |-> 5, xxhash |-> 7, xxhash64 |-> 9, xxhash64be |-> 11]

Sum(t, d) == <<t, d>>

\* verbose_level: nothing, -v, -vv.
Levels == 0..2
Verbose == 1
VeryVerbose == 2

Calculate(types, level) ==
  [mode |-> "calculate", types |-> types, level |-> level]

\* -f file -h [typed] [prefix]sum; "none" for what is not there.
Check(file, typed, prefix, sum, level) ==
  [mode |-> "check", file |-> file, typed |-> typed, prefix |-> prefix, sum |-> sum,
   level |-> level]

ASSUME HashAssumption ==
  /\ Unread \notin Types \X Contents
  /\ \A o \in Orders :
       \/ \E ts \in (SUBSET Types) \ {{}}, v \in Levels : o = Calculate(ts, v)
       \/ \E f \in Files, t \in Types \cup {"none"}, p \in Types \cup {"none"},
             s \in Types \X Contents, v \in Levels : o = Check(f, t, p, s, v)

VARIABLES
  order,  \* the options
  pass,   \* "size", "hash", "check", "exited" or "killed"
  done,   \* the types printed for the file at hand
  lines,  \* what has been printed to standard output
  total, processed, \* total_sz and processed_sz
  status  \* the exit status

hashVars == <<order, pass, stream, done, lines, total, processed, status>>

\* A printed line: its sign, and the file and sum it tells of.
Sign == [md5 |-> "MD5", sha1 |-> "SHA1", xxhash |-> "XXHash",
         xxhash64 |-> "XXHash64", xxhash64be |-> "XXHash64BE"]
Line(t, f, d) == [sign |-> Sign[t], file |-> f, sum |-> Sum(t, d)]
\* A text for the user, printed from a verbose level on: "Started ...",
\* "...: read 5 bytes" and the like.  Progress within a large file is left out.
Message == [sign |-> "Started", file |-> NoFile, sum |-> <<>>]
Told(level) == IF order.level >= level THEN <<Message>> ELSE <<>>

\* Of n bytes read for type t these are added to processed_sz:
\* wcalculate_xx64be_hash counts with -vv only, the other functions always.
BytesCounted(t, n) == IF t = "xxhash64be" /\ order.level < VeryVerbose THEN 0 ELSE n

HashInit ==
  /\ WalkInit /\ StreamInit
  /\ order \in Orders
  /\ pass = IF order.mode = "check" THEN "check" ELSE "size"
  /\ done = {} /\ lines = <<>>
  /\ total = 0 /\ processed = 0
  /\ status = "OK"

Exit(res) == pass' = "exited" /\ status' = res

(***************************************************************************)
(* process_calculate_hash.  xxhash64be is missing from the types the total *)
(* is multiplied for.                                                      *)
(***************************************************************************)
SizePass ==
  /\ pass = "size"
  /\ \/ Walk /\ UNCHANGED total
     \/ SizeFile /\ total' = total + IF Exists(cur) THEN SizeOf[disk[cur]] ELSE 0
  /\ UNCHANGED <<order, pass, stream, done, lines, processed, status>>

OnceForAll(types) == 1 \* mutated form: the total is not multiplied
TimesRead(types) == Cardinality(types \ {"xxhash64be"})

EndSizePass ==
  /\ pass = "size" /\ WalkDone
  /\ IF overall = "OK"
       THEN /\ pass' = "hash" /\ RestartWalk
            /\ total' = total * TimesRead(order.types)
            /\ lines' = lines \o Told(Verbose)
            /\ UNCHANGED status
       ELSE Exit(overall) /\ UNCHANGED <<walkVars, total, lines>>
  /\ UNCHANGED <<diskVars, order, stream, done, processed>>

HashWalk ==
  /\ pass = "hash"
  /\ Walk
  /\ UNCHANGED hashVars

EndHashPass ==
  /\ pass = "hash" /\ WalkDone
  /\ lines' = lines \o Told(Verbose)
  /\ Exit(overall)
  /\ UNCHANGED <<diskVars, walkVars, order, stream, done, total, processed>>

(***************************************************************************)
(* calculate_and_print_hash: each type is a read of its own, and its line  *)
(* is printed before the next one is read.                                 *)
(***************************************************************************)
HashCallback == pass = "hash" /\ cur # NoFile

CallbackEnds(res) ==
  /\ CallbackReturns(res)
  /\ stream' = {} /\ done' = {}
  /\ UNCHANGED <<diskVars, order, pass, lines, total, status>>

OpenForHash ==
  /\ HashCallback /\ stream = {} /\ done # order.types
  /\ IF Exists(cur)
       THEN OpenStream /\ UNCHANGED <<diskVars, walkVars, order, pass, done, lines,
                                      total, processed, status>>
       ELSE CallbackEnds("NO_SUCH_FILE") /\ UNCHANGED processed

AnyTypeIsNext == \* mutated form: the option of a type is not asked for
  PrintOrder[CHOOSE i \in DOMAIN PrintOrder :
               /\ PrintOrder[i] \notin done
               /\ \A j \in 1..(i - 1) : PrintOrder[j] \in done]

NextType ==
  PrintOrder[CHOOSE i \in DOMAIN PrintOrder :
               /\ PrintOrder[i] \in order.types \ done
               /\ \A j \in 1..(i - 1) : PrintOrder[j] \notin order.types \ done]

PrintSum ==
  /\ HashCallback /\ stream # {}
  /\ \E d \in DigestsOfStream :
       lines' = Append(lines, Line(NextType, cur, d)) \o Told(VeryVerbose)
  /\ \E c \in stream : processed' = processed + BytesCounted(NextType, SizeOf[c])
  /\ done' = done \cup {NextType}
  /\ stream' = {}
  /\ UNCHANGED <<diskVars, walkVars, order, pass, total, status>>

\* The bytes read before the error have been counted.
ReadFails ==
  /\ HashCallback /\ ReadError
  /\ \E c \in stream : \E n \in 0..SizeOf[c] :
       processed' = processed + BytesCounted(NextType, n)
  /\ CallbackEnds("IO_ERROR")

AllPrinted ==
  /\ HashCallback /\ stream = {} /\ done = order.types
  /\ CallbackEnds("OK")
  /\ UNCHANGED processed

(***************************************************************************)
(* parse_file_check_params: the type, from the option or else from the     *)
(* length of the text, and how many letters are taken for a prefix, which  *)
(* are skipped unread.  For xxhash64be the option goes with the length of  *)
(* the prefix of xxhash64.                                                 *)
(***************************************************************************)
TextLength(o) ==
  SumLength[o.sum[1]] + IF o.prefix = "none" THEN 0 ELSE PrefixLength[o.prefix]

WithPrefix(t) == SumLength[t] + PrefixLength[t]
Fits(o, t) == TextLength(o) \in {SumLength[t], WithPrefix(t)}

FirstTypeThatFits(o) ==
  LET fits == {i \in 1..4 : Fits(o, PrintOrder[i])}
  IN IF fits # {} THEN PrintOrder[CHOOSE i \in fits : \A j \in fits : i <= j]
     ELSE IF TextLength(o) = WithPrefix("xxhash64be") THEN "xxhash64be" ELSE "none"

TypeOf(o) ==
  CASE o.typed = "none"       -> FirstTypeThatFits(o)
    [] o.typed = "xxhash64be" -> IF Fits(o, "xxhash64") THEN "xxhash64be" ELSE "none"
    [] OTHER                  -> IF Fits(o, o.typed) THEN o.typed ELSE "none"

PrefixStays(o, t) == \* mutated form: the letters of the prefix are not skipped
  IF o.prefix = "none" THEN o.sum ELSE Unread

\* hash_val: what is left of the text.
HashVal(o, t) ==
  LET skipped == IF TextLength(o) = WithPrefix(t) THEN PrefixLength[t] ELSE 0
  IN IF TextLength(o) - skipped = SumLength[o.sum[1]] THEN o.sum ELSE Unread

(***************************************************************************)
(* run_check_hash.                                                         *)
(***************************************************************************)
BeginCheck ==
  /\ pass = "check" /\ cur = NoFile
  /\ IF TypeOf(order) = "none"
       THEN Exit("WRONG_ARGUMENTS") /\ UNCHANGED <<cur, lines, total>>
     ELSE IF ~Exists(order.file)
       THEN Exit("NO_SUCH_FILE") /\ UNCHANGED <<cur, lines, total>>
     ELSE /\ cur' = order.file /\ total' = SizeOf[disk[order.file]]
          /\ lines' = lines \o Told(Verbose)
          /\ UNCHANGED <<pass, status>>
  /\ UNCHANGED <<diskVars, args, arg, walk, overall, count, order, stream, done,
                 processed>>

CheckEnds(res) == Exit(res) /\ lines' = lines \o Told(Verbose)

OpenForCheck ==
  /\ pass = "check" /\ cur # NoFile /\ stream = {}
  /\ IF Exists(cur) THEN OpenStream /\ UNCHANGED <<pass, lines, status>>
                    ELSE CheckEnds("NO_SUCH_FILE") /\ UNCHANGED stream
  /\ UNCHANGED <<diskVars, walkVars, order, done, total, processed>>

Verdict(t, d, val) == IF val = Sum(t, d) THEN "OK" ELSE "HASH_FAILED"

CompareSum ==
  /\ pass = "check" /\ stream # {}
  /\ LET t == TypeOf(order)
     IN /\ \E d \in DigestsOfStream : CheckEnds(Verdict(t, d, HashVal(order, t)))
        /\ \E c \in stream : processed' = processed + BytesCounted(t, SizeOf[c])
  /\ stream' = {}
  /\ UNCHANGED <<diskVars, walkVars, order, done, total>>

CheckReadFails ==
  /\ pass = "check" /\ ReadError
  /\ CheckEnds("IO_ERROR")
  /\ \E c \in stream : \E n \in 0..SizeOf[c] :
       processed' = processed + BytesCounted(TypeOf(order), n)
  /\ stream' = {}
  /\ UNCHANGED <<diskVars, walkVars, order, done, total>>

HashProgram ==
  \/ SizePass \/ EndSizePass
  \/ HashWalk \/ OpenForHash \/ PrintSum \/ ReadFails \/ AllPrinted \/ EndHashPass
  \/ BeginCheck \/ OpenForCheck \/ CompareSum \/ CheckReadFails

HashFileChanges ==
  /\ \E f \in Files, c \in Contents \cup {Absent} : EditSeenByStream(f, c)
  /\ UNCHANGED <<order, pass, done, lines, total, processed, status>>

(***************************************************************************)
(* Properties.                                                             *)
(***************************************************************************)
HashTypeOK ==
  /\ WalkTypeOK /\ StreamTypeOK
  /\ order \in Orders
  /\ pass \in {"size", "hash", "check", "exited", "killed"}
  /\ order.mode = "calculate" => done \subseteq order.types
  /\ total \in Nat /\ processed \in Nat
  /\ status \in Codes \cup {"WRONG_ARGUMENTS"}
  /\ \A i \in DOMAIN lines : lines[i].sign \in {Sign[t] : t \in Types} \cup {"Started"}

\* What is read for xxhash64be is a part of the total with -h only, and is
\* counted with -vv only.
TypesRead(o) == IF o.mode = "calculate" THEN o.types ELSE {TypeOf(o)}
CountsWhatItAnnounces(o) ==
  "xxhash64be" \in TypesRead(o) => (o.mode = "check" <=> o.level = VeryVerbose)

\* "processed N of M": as long as nobody changes a file, no more is processed
\* than the total found in the first pass, and if all went well, all of it,
\* for all options but those that count xxhash64be without announcing it or
\* announce it without counting it.
ProgressFits ==
  touched = {} /\ CountsWhatItAnnounces(order) =>
    /\ pass \in {"hash", "check"} => processed <= total
    /\ pass = "exited" /\ status = "OK" => processed = total

\* Ways of giving a sum that the help describes: its type by name, by its own
\* prefix or by its length; but 16 letters are taken for xxhash64, and the name
\* xxhash64be does not go with the prefix "xxHash64BE:".
Documented(o) ==
  /\ o.typed \in {"none", o.sum[1]} /\ o.prefix \in {"none", o.sum[1]}
  /\ o.sum[1] = "xxhash64be" => (o.typed = "none" <=> o.prefix # "none")

\* -h answers the question: for a file that nobody touches it succeeds only if
\* the content has the given sum, however the sum was given, and for a
\* readable file and a sum given in a documented way it does succeed.
CheckIsRight ==
  order.mode = "check" /\ pass = "exited" /\ order.file \notin touched =>
    LET right == Exists(order.file) /\ disk[order.file] = order.sum[2]
    IN /\ status = "OK" => right
       /\ right /\ Documented(order) /\ order.file \notin BadFiles => status = "OK"
=============================================================================
