---------------------------- MODULE FileSequence ----------------------------
(***************************************************************************)
(* Sequences of files, file_sequences.c: how an argument like              *)
(* "scan_###001-300.dpx" is read and which names are made of it, one       *)
(* number after the other.                                                 *)
(***************************************************************************)
EXTENDS Integers, Sequences, SequencesExt

CONSTANTS
  Patterns, \* the arguments, as absolute paths
  UlongMod, \* the number of values of an unsigned long
  IntMod,   \* the number of values of an int
  UcharMod  \* the number of values of an unsigned char

\* Characters: the digits are the numbers 0 to 9.
Mark == 10   \* '#'
Dash == 11   \* '-'
Letter == 12 \* any other
Chars == 0..12
DigitChars == 0..9

\* A pattern is what precedes the first marks, their number, and what follows.
\* The three types of numbers have 2^8, 2^w and 2^w' values, where an int is at
\* least as wide as a char and at most as wide as a long.
ASSUME SequenceAssumption ==
  /\ Patterns \subseteq [start : Seq(Chars \ {Mark}), marks : Nat \ {0}, tail : Seq(Chars)]
  /\ \A p \in Patterns : p.tail # <<>> => p.tail[1] # Mark
  /\ {UlongMod, IntMod, UcharMod} \subseteq Nat \ {0}
  /\ UlongMod % IntMod = 0

VARIABLES
  pattern, \* the argument
  seq,     \* st_mhl_sequence
  i,       \* the number to make a name of
  names,   \* the names made so far
  pass,    \* "parse", "name" or "done"
  result

vars == <<pattern, seq, i, names, pass, result>>

(***************************************************************************)
(* Numbers and texts.                                                      *)
(***************************************************************************)
Drop(text, k) == SubSeq(text, k + 1, Len(text))
Take(text, k) == SubSeq(text, 1, k)

\* The length of the longest prefix of characters in S.
Span(text, S) ==
  CHOOSE k \in 0..Len(text) :
    /\ \A j \in 1..k : text[j] \in S
    /\ k < Len(text) => text[k + 1] \notin S

Value(digits) ==
  LET v[k \in 0..Len(digits)] == IF k = 0 THEN 0 ELSE 10 * v[k - 1] + digits[k]
  IN v[Len(digits)]

\* strtoul(text, &end, 10): a sign negates modulo the width, too large
\* a number gives the largest, and without a digit nothing is read.  Blanks
\* and '+' in front of the number are left out.
Strtoul(text) ==
  LET sign   == IF text # <<>> /\ text[1] = Dash THEN 1 ELSE 0
      digits == Span(Drop(text, sign), DigitChars)
      value  == Value(Take(Drop(text, sign), digits))
      capped == IF value < UlongMod THEN value ELSE UlongMod - 1
  IN IF digits = 0 THEN [value |-> 0, end |-> 0]
     ELSE [value |-> IF sign = 1 /\ value < UlongMod THEN (UlongMod - capped) % UlongMod
                                                     ELSE capped,
           end   |-> sign + digits]

\* A number without its last k digits.
Quotient(n, k) ==
  LET q[j \in 0..k] == IF j = 0 THEN n ELSE q[j - 1] \div 10 IN q[k]

Digits(n, width) == [k \in 1..width |-> Quotient(n, width - k) % 10]
Width(n) ==
  CHOOSE w \in 1..(n + 1) : Quotient(n, w) = 0 /\ (w = 1 \/ Quotient(n, w - 1) # 0)

\* "%0<width>d" and, with width 0, "%d".
Printed(n, width) ==
  LET size == IF n < 0 THEN -n ELSE n
      sign == IF n < 0 THEN <<Dash>> ELSE <<>>
      room == width - Len(sign)
  IN sign \o Digits(size, IF Width(size) < room THEN room ELSE Width(size))

\* An unsigned long passed as an int.
AsInt(n) == LET m == n % IntMod IN IF m < IntMod \div 2 THEN m ELSE m - IntMod

(***************************************************************************)
(* init_mhl_sequence.                                                      *)
(***************************************************************************)
NoSequence == [start |-> <<>>, marks |-> 0, padding |-> FALSE,
               first |-> 0, last |-> 0, end |-> <<>>]
Invalid == [res |-> "INVALID_SEQUENCE", seq |-> NoSequence]

RangeIsNotChecked(p) == \* mutated form: a range may be empty or reversed
  LET dash  == Span(p.tail, Chars \ {Dash})
      first == Strtoul(Take(p.tail, dash))
      last  == Strtoul(Drop(p.tail, dash + 1))
  IN [res |-> "OK",
      seq |-> [start |-> p.start, marks |-> p.marks, padding |-> TRUE,
               first |-> first.value, last |-> last.value,
               end |-> Drop(p.tail, dash + 1 + last.end)]]

\* number_len, an unsigned char, and padding as the first number tells it.
NumberLen(p) == p.marks % UcharMod
ZeroLeads(p) == NumberLen(p) > 1 /\ p.tail # <<>> /\ p.tail[1] = 0

ParseSequence(p) ==
  LET tail   == IF ZeroLeads(p) THEN Drop(p.tail, Span(p.tail, {0})) ELSE p.tail
      dash   == Span(tail, Chars \ {Dash})
      first  == Strtoul(Take(tail, dash))
      rest   == Drop(tail, dash + 1)
      chars  == IF Len(rest) < NumberLen(p) THEN Len(rest) ELSE NumberLen(p)
      last   == Strtoul(Take(rest, chars))
  IN IF \/ dash = Len(tail)     \* no range
        \/ first.end < dash     \* something else than a number
        \/ rest = <<>>
        \/ first.value >= last.value
       THEN Invalid
       ELSE [res |-> "OK",
             seq |-> [start   |-> p.start,
                      marks   |-> NumberLen(p),
                      padding |-> ZeroLeads(p) \/ Len(rest) < NumberLen(p) \/ last.end < chars,
                      first   |-> first.value,
                      last    |-> last.value,
                      end     |-> Drop(rest, last.end)]]

(***************************************************************************)
(* create_file_wpath_for_sequence_number.  The number has room for as many *)
(* characters as there are marks; swprintf fails if it needs more.         *)
(***************************************************************************)
OneDigitMore(s, n) == \* mutated form: no room for the last digit
  LET number == Printed(AsInt(n), IF s.padding THEN s.marks ELSE 0)
  IN IF Len(number) > s.marks - 1 THEN [res |-> "INTERNAL_ERROR", name |-> <<>>]
     ELSE [res |-> "OK", name |-> s.start \o number \o s.end]

NeverPadded(s, n) == \* mutated form: the padding is forgotten
  [res |-> "OK", name |-> s.start \o Printed(AsInt(n), 0) \o s.end]

LastCharacterLost(s, n) == \* mutated form: the number is cut off instead of refused
  LET number == Printed(AsInt(n), IF s.padding THEN s.marks ELSE 0)
  IN [res  |-> "OK",
      name |-> s.start \o Take(number, IF Len(number) < s.marks THEN Len(number)
                                                               ELSE s.marks) \o s.end]

NameOf(s, n) ==
  LET number == Printed(AsInt(n), IF s.padding THEN s.marks ELSE 0)
  IN IF Len(number) > s.marks THEN [res |-> "INTERNAL_ERROR", name |-> <<>>]
     ELSE [res |-> "OK", name |-> s.start \o number \o s.end]

(***************************************************************************)
(* search_files_fit_to_sequence.  Both of its loops make the same names;   *)
(* what they do with them is the subject of ArgWalk.                       *)
(***************************************************************************)
Init ==
  /\ pattern \in Patterns
  /\ seq = NoSequence /\ i = 0 /\ names = <<>>
  /\ pass = "parse" /\ result = "OK"

Parse ==
  /\ pass = "parse"
  /\ LET parsed == ParseSequence(pattern)
     IN IF parsed.res = "OK"
          THEN pass' = "name" /\ seq' = parsed.seq /\ i' = parsed.seq.first
               /\ UNCHANGED result
          ELSE pass' = "done" /\ result' = parsed.res /\ UNCHANGED <<seq, i>>
  /\ UNCHANGED <<pattern, names>>

MakeName ==
  /\ pass = "name" /\ i <= seq.last
  /\ LET made == NameOf(seq, i)
     IN IF made.res = "OK"
          THEN names' = Append(names, made.name) /\ i' = (i + 1) % UlongMod
               /\ UNCHANGED <<pass, result>>
          ELSE pass' = "done" /\ result' = made.res /\ UNCHANGED <<names, i>>
  /\ UNCHANGED <<pattern, seq>>

AllNamed ==
  /\ pass = "name" /\ i > seq.last
  /\ pass' = "done"
  /\ UNCHANGED <<pattern, seq, i, names, result>>

Stopped == pass = "done" /\ UNCHANGED vars

Next == Parse \/ MakeName \/ AllNamed \/ Stopped

Spec == Init /\ [][Next]_vars

(***************************************************************************)
(* The documented meaning of a pattern, 'mhl help sequence_format': two    *)
(* numbers, and their range padded with zeros to the number of marks.      *)
(***************************************************************************)
\* Where the parts of a documented pattern begin: digits, '-', digits, postfix.
FirstText(p) == Take(p.tail, Span(p.tail, DigitChars))
AfterFirst(p) == Drop(p.tail, Len(FirstText(p)))
LastText(p) == LET rest == Drop(AfterFirst(p), 1) IN Take(rest, Span(rest, DigitChars))
Postfix(p) == Drop(p.tail, Len(FirstText(p)) + 1 + Len(LastText(p)))

Documented(p) ==
  /\ FirstText(p) # <<>> /\ AfterFirst(p) # <<>> /\ AfterFirst(p)[1] = Dash
  /\ LastText(p) # <<>>
  /\ Len(LastText(p)) <= p.marks /\ p.marks < UcharMod
  /\ Value(FirstText(p)) < Value(LastText(p))
  /\ Value(LastText(p)) < IntMod \div 2

DocumentedNames(p) ==
  LET first == Value(FirstText(p))
  IN [k \in 1..(Value(LastText(p)) - first + 1) |->
        p.start \o Digits(first + k - 1, p.marks) \o Postfix(p)]

\* Patterns whose padding the program notices: the first number has a leading
\* zero, or the last one has fewer digits than there are marks.
PaddingNoticed(p) ==
  p.marks = 1 \/ FirstText(p)[1] = 0 \/ Len(LastText(p)) < p.marks

(***************************************************************************)
(* Properties.                                                             *)
(***************************************************************************)
\* Only a range that is not empty is accepted, and the counter stays in it: one name
\* for every number, unless the range ends with the last unsigned longs, behind
\* which the counter starts again.
TypeOK ==
  /\ pattern \in Patterns
  /\ pass \in {"parse", "name", "done"}
  /\ result \in {"OK", "INVALID_SEQUENCE", "INTERNAL_ERROR"}
  /\ pass = "name" => /\ seq.first < seq.last
                      /\ seq.last < UlongMod - 1 =>
                           i \in seq.first..(seq.last + 1) /\ Len(names) = i - seq.first

\* A sequence whose padding shows from its numbers stands for the documented
\* files, in order, and they are what a successful run has asked for.
NamesAreDocumented ==
  Documented(pattern) /\ PaddingNoticed(pattern) =>
    /\ IsPrefix(names, DocumentedNames(pattern))
    /\ pass = "done" => names = DocumentedNames(pattern) /\ result = "OK"

\* Whatever the pattern, no file is asked for twice until every int has had its
\* turn: no number is cut off to fit into its buffer, none loses its sign, and
\* none comes again when it leaves the range of int.
NamesAreDistinct ==
  \A j, k \in DOMAIN names : j < k /\ k - j < IntMod => names[j] # names[k]

\* The buffer for a number is large enough unless the last number has a sign
\* or does not fit into an int.
NumbersFit ==
  result = "INTERNAL_ERROR" =>
    \/ seq.last >= IntMod \div 2
    \/ \E k \in 2..Len(pattern.tail) : pattern.tail[k] = Dash /\ pattern.tail[k - 1] = Dash

\* What 'mhl help sequence_format' says: "Three hash characters mean the index
\* string is padded to length three."
MarksMeanPadding ==
  Documented(pattern) => IsPrefix(names, DocumentedNames(pattern))
=============================================================================
