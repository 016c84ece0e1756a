-------------------------- MODULE MhlParse_proofs ---------------------------
(***************************************************************************)
(* Theorems about the parser of lists, for lists with any number of        *)
(* records and records with any number of elements in any order.           *)
(***************************************************************************)
EXTENDS MhlParse, WellFoundedInduction, TLAPS

(***************************************************************************)
(* Least and greatest numbers.                                             *)
(***************************************************************************)
LEMMA MinIs ==
  ASSUME NEW S \in SUBSET Int, NEW m \in S, \A y \in S : m <= y
  PROVE  Min(S) = m
<1> DEFINE P(x) == \A y \in S : x <= y
<1>1. P(m) /\ \A x \in S : P(x) => x = m
  OBVIOUS
<1>2. Min(S) = CHOOSE x \in S : P(x)
  BY DEF Min
<1> HIDE DEF P
<1> QED BY <1>1, <1>2

LEMMA MaxIs ==
  ASSUME NEW S \in SUBSET Int, NEW m \in S, \A y \in S : m >= y
  PROVE  Max(S) = m
<1> DEFINE P(x) == \A y \in S : x >= y
<1>1. P(m) /\ \A x \in S : P(x) => x = m
  OBVIOUS
<1>2. Max(S) = CHOOSE x \in S : P(x)
  BY DEF Max
<1> HIDE DEF P
<1> QED BY <1>1, <1>2

LEMMA LeastNumber ==
  ASSUME NEW S \in SUBSET Nat, S # {}
  PROVE  \E m \in S : \A y \in S : m <= y
<1> DEFINE R == {ss \in Nat \X Nat : ss[1] < ss[2]}
<1>1. IsWellFoundedOn(R, Nat)
  BY NatLessThanWellFounded DEF OpToRel
<1>2. PICK m \in S : \A y \in S : ~(<<y, m>> \in R)
  <2> HIDE DEF R
  <2> QED BY <1>1, WFMin
<1>3. \A y \in S : ~(y < m)
  BY <1>2
<1> QED BY <1>3

LEMMA MinExists ==
  ASSUME NEW S \in SUBSET Nat, S # {}
  PROVE  Min(S) \in S /\ \A y \in S : Min(S) <= y
<1>1. PICK m \in S : \A y \in S : m <= y
  BY LeastNumber
<1>2. Min(S) = m
  BY <1>1, MinIs
<1> QED BY <1>1, <1>2

LEMMA MaxExists ==
  ASSUME NEW n \in Nat, NEW S \in SUBSET (1..n), S # {}
  PROVE  Max(S) \in S /\ \A y \in S : Max(S) >= y
<1> DEFINE T == {n - x : x \in S}
<1>1. T \in SUBSET Nat /\ T # {}
  <2>1. \A x \in S : n - x \in Nat
    OBVIOUS
  <2> QED BY <2>1
<1>2. PICK t \in T : \A y \in T : t <= y
  BY <1>1, LeastNumber
<1>3. PICK m \in S : t = n - m
  BY <1>2
<1>4. \A y \in S : m >= y
  BY <1>2, <1>3
<1>5. Max(S) = m
  BY <1>4, MaxIs
<1> QED BY <1>4, <1>5

(***************************************************************************)
(* Elements and records.                                                   *)
(***************************************************************************)
Records == [ref : BOOLEAN, elements : Seq(Elements)]

LEMMA TheTypes == Types = {"sha1", "md5", "xxhash", "xxhash64", "xxhash64be"}
<1>1. DOMAIN TypeOrder = 1..5
  BY DEF TypeOrder
<1>2. 1..5 = {1, 2, 3, 4, 5}
  OBVIOUS
<1>3. Types = {TypeOrder[i] : i \in DOMAIN TypeOrder}
  BY DEF Types, ToSet
<1>4. Types = {TypeOrder[1], TypeOrder[2], TypeOrder[3], TypeOrder[4], TypeOrder[5]}
  BY <1>1, <1>2, <1>3
<1> QED BY <1>4 DEF TypeOrder

SumOf(t) == {<<t, c>> : c \in Contents}

LEMMA ElementShape ==
  ASSUME NEW e \in Elements
  PROVE  /\ e.tag \in Types \cup {"null", "file", "size", "hashdate"}
         /\ e.tag \in Types => e.value \in SumOf(e.tag) \cup {Bad}
         /\ e.tag = "file" => e.value \in Files \cup {Bad}
         /\ e.tag = "null" => e.value = NoSum
<1>1. CASE \E f \in Files \cup {Bad} : e = Element("file", f)
  BY <1>1, TheTypes DEF Element
<1>2. CASE \E z \in {Fine, Bad} : e = Element("size", z)
  BY <1>2, TheTypes DEF Element
<1>3. CASE \E t \in Types, c \in Contents : e = Element(t, <<t, c>>)
  BY <1>3, TheTypes DEF Element, SumOf
<1>4. CASE \E t \in Types : e = Element(t, Bad)
  BY <1>4, TheTypes DEF Element
<1>5. CASE e \in {Null, Element("hashdate", Fine)}
  BY <1>5, TheTypes DEF Element, Null
<1> QED BY <1>1, <1>2, <1>3, <1>4, <1>5 DEF Elements

LEMMA SumsAreUsable == ASSUME NEW t \in Types, NEW s \in SumOf(t)
                       PROVE  s # NoSum /\ s # Bad /\ s[1] = t
<1>1. s \in Types \X Contents /\ s[1] = t
  BY DEF SumOf
<1> QED BY <1>1, ParseAssumption DEF ParseAssumption

Tag(r, k)    == r.elements[k].tag
Value(r, k)  == r.elements[k].value
IsSum(r, k)  == Tag(r, k) \in SumTags
NoSha(r, n)  == \A j \in 1..n : Tag(r, j) # "sha1"

LEMMA RecordShape ==
  ASSUME NEW r \in Records
  PROVE  /\ r.elements \in Seq(Elements) /\ Len(r.elements) \in Nat
         /\ DOMAIN r.elements = 1..Len(r.elements)
         /\ \A k \in 1..Len(r.elements) : r.elements[k] \in Elements
BY DEF Records

LEMMA PlacesAre ==
  ASSUME NEW r \in Records, NEW tags
  PROVE  /\ Places(r, tags) = {k \in 1..Len(r.elements) : Tag(r, k) \in tags}
         /\ Places(r, tags) \in SUBSET (1..Len(r.elements))
         /\ Places(r, tags) \in SUBSET Nat
BY RecordShape DEF Places, Tag

(***************************************************************************)
(* What the first n elements of a record say: the last "file", whether     *)
(* there is a size, and the first sha1 or else the last sum; and that none *)
(* of those looked at is bad.                                              *)
(***************************************************************************)
Items == [key : Files \cup {NoFile}, sized : BOOLEAN,
          type : Types \cup {"null", "unrecognized"}, sum : (Types \X Contents) \cup {NoSum}]

ItemOK(i) == i \in Items /\ (i.type \in Types => i.sum \in SumOf(i.type))

KeyRead(i, r, n) ==
  \/ i.key = NoFile /\ \A j \in 1..n : Tag(r, j) # "file"
  \/ \E k \in 1..n : /\ Tag(r, k) = "file" /\ i.key = Value(r, k)
                     /\ \A j \in (k + 1)..n : Tag(r, j) # "file"

SizeRead(i, r, n) == i.sized <=> \E k \in 1..n : Tag(r, k) = "size"

Decides(r, k, n) ==
  \/ Tag(r, k) = "sha1" /\ NoSha(r, k - 1)
  \/ IsSum(r, k) /\ NoSha(r, n) /\ \A j \in (k + 1)..n : ~IsSum(r, j)

SumRead(i, r, n) ==
  \/ i.type = "unrecognized" /\ \A j \in 1..n : ~IsSum(r, j)
  \/ \E k \in 1..n : /\ Decides(r, k, n) /\ i.type = Tag(r, k)
                     /\ i.type # "null" => i.sum = Value(r, k)

NothingBad(r, n) ==
  \A j \in 1..n : /\ Tag(r, j) \in {"file", "size"} => Value(r, j) # Bad
                  /\ IsSum(r, j) /\ NoSha(r, j - 1) => Value(r, j) # Bad

ReadSoFar(i, r, n) ==
  KeyRead(i, r, n) /\ SizeRead(i, r, n) /\ SumRead(i, r, n) /\ NothingBad(r, n)

LEMMA NothingRead == ASSUME NEW r PROVE ItemOK(NoItem) /\ ReadSoFar(NoItem, r, 0)
<1>1. 1..0 = {}
  OBVIOUS
<1>2. ReadSoFar(NoItem, r, 0)
  BY <1>1 DEF ReadSoFar, KeyRead, SizeRead, SumRead, NothingBad, NoItem
<1> QED BY <1>2, TheTypes DEF ItemOK, Items, NoItem

\* A sha1 among the elements is the one that decides.
LEMMA ShaDecides ==
  ASSUME NEW i, NEW r, NEW n \in Nat, SumRead(i, r, n)
  PROVE  i.type = "sha1" <=> ~NoSha(r, n)
<1>1. CASE i.type = "unrecognized" /\ \A j \in 1..n : ~IsSum(r, j)
  BY <1>1, TheTypes DEF NoSha, IsSum, SumTags
<1>2. CASE \E k \in 1..n : Decides(r, k, n) /\ i.type = Tag(r, k)
  <2>1. PICK k \in 1..n : Decides(r, k, n) /\ i.type = Tag(r, k)
    BY <1>2
  <2> QED BY <2>1 DEF Decides, NoSha
<1> QED BY <1>1, <1>2 DEF SumRead

\* An element is refused because it is bad and is looked at.
Refused(r, k) ==
  /\ Value(r, k) = Bad
  /\ Tag(r, k) \in {"file", "size"} \/ (IsSum(r, k) /\ NoSha(r, k - 1))

LEMMA ElementRefused ==
  ASSUME NEW r \in Records, NEW n \in Nat, n < Len(r.elements), NEW i,
         ReadSoFar(i, r, n), ParseElement(i, r.elements[n + 1]).res # "OK"
  PROVE  Refused(r, n + 1)
<1> DEFINE e == r.elements[n + 1]
<1>1. e \in Elements /\ e.tag = Tag(r, n + 1) /\ e.value = Value(r, n + 1) /\ n + 1 - 1 = n
  BY RecordShape DEF Tag, Value
<1>2. e.tag \in Types \cup {"null", "file", "size", "hashdate"}
  BY <1>1, ElementShape
<1>3. i.type # "sha1" <=> NoSha(r, n)
  BY ShaDecides DEF ReadSoFar
<1>4. ParseElement(i, e).res # "OK"
  OBVIOUS
<1> HIDE DEF e
<1>5. CASE e.tag \in Types \cup {"null"}
  <2>1. ParseElement(i, e) = ParseSum(i, e)
    BY <1>5, TheTypes DEF ParseElement
  <2>2. i.type # "sha1" /\ e.value = Bad
    BY <1>4, <1>5, <2>1 DEF ParseSum, Read, ReadError
  <2> QED BY <1>1, <1>3, <1>5, <2>2 DEF Refused, IsSum, SumTags
<1>6. CASE e.tag = "file" \/ e.tag = "size"
  <2>1. e.value = Bad
    BY <1>4, <1>6, TheTypes DEF ParseElement, Read, ReadError
  <2> QED BY <1>1, <1>6, <2>1 DEF Refused
<1>7. CASE e.tag = "hashdate"
  BY <1>4, <1>7, TheTypes DEF ParseElement, Read
<1> QED BY <1>2, <1>5, <1>6, <1>7

\* One more element leaves what it does not speak of.
LEMMA KeyStays ==
  ASSUME NEW r, NEW n \in Nat, NEW i, NEW j, KeyRead(i, r, n), j.key = i.key,
         Tag(r, n + 1) # "file"
  PROVE  KeyRead(j, r, n + 1)
<1>1. CASE i.key = NoFile /\ \A k \in 1..n : Tag(r, k) # "file"
  BY <1>1 DEF KeyRead
<1>2. CASE \E k \in 1..n : /\ Tag(r, k) = "file" /\ i.key = Value(r, k)
                           /\ \A l \in (k + 1)..n : Tag(r, l) # "file"
  <2>1. PICK k \in 1..n : /\ Tag(r, k) = "file" /\ i.key = Value(r, k)
                          /\ \A l \in (k + 1)..n : Tag(r, l) # "file"
    BY <1>2
  <2>2. k \in 1..(n + 1) /\ \A l \in (k + 1)..(n + 1) : Tag(r, l) # "file"
    BY <2>1
  <2> QED BY <2>1, <2>2 DEF KeyRead
<1> QED BY <1>1, <1>2 DEF KeyRead

LEMMA SizeStays ==
  ASSUME NEW r, NEW n \in Nat, NEW i, NEW j, SizeRead(i, r, n), j.sized = i.sized,
         Tag(r, n + 1) # "size"
  PROVE  SizeRead(j, r, n + 1)
<1>1. \A k \in 1..(n + 1) : k \in 1..n \/ k = n + 1
  OBVIOUS
<1>2. \A k \in 1..n : k \in 1..(n + 1)
  OBVIOUS
<1> QED BY <1>1, <1>2 DEF SizeRead

LEMMA SumStays ==
  ASSUME NEW r, NEW n \in Nat, NEW i, NEW j, SumRead(i, r, n), j.type = i.type, j.sum = i.sum,
         ~IsSum(r, n + 1) \/ ~NoSha(r, n)
  PROVE  SumRead(j, r, n + 1)
<1>1. CASE i.type = "unrecognized" /\ \A k \in 1..n : ~IsSum(r, k)
  <2>1. NoSha(r, n)
    BY <1>1, TheTypes DEF NoSha, IsSum, SumTags
  <2>2. \A k \in 1..(n + 1) : ~IsSum(r, k)
    BY <1>1, <2>1
  <2> QED BY <1>1, <2>2 DEF SumRead
<1>2. CASE \E k \in 1..n : /\ Decides(r, k, n) /\ i.type = Tag(r, k)
                           /\ i.type # "null" => i.sum = Value(r, k)
  <2>1. PICK k \in 1..n : /\ Decides(r, k, n) /\ i.type = Tag(r, k)
                          /\ i.type # "null" => i.sum = Value(r, k)
    BY <1>2
  <2>2. CASE Tag(r, k) = "sha1" /\ NoSha(r, k - 1)
    <3>1. k \in 1..(n + 1) /\ Decides(r, k, n + 1)
      BY <2>2 DEF Decides
    <3> QED BY <2>1, <3>1 DEF SumRead
  <2>3. CASE IsSum(r, k) /\ NoSha(r, n) /\ \A l \in (k + 1)..n : ~IsSum(r, l)
    <3>1. ~IsSum(r, n + 1)
      BY <2>3
    <3>2. NoSha(r, n + 1)
      BY <2>3, <3>1, TheTypes DEF NoSha, IsSum, SumTags
    <3>3. \A l \in (k + 1)..(n + 1) : ~IsSum(r, l)
      BY <2>3, <3>1
    <3>4. k \in 1..(n + 1) /\ Decides(r, k, n + 1)
      BY <2>3, <3>2, <3>3 DEF Decides
    <3> QED BY <2>1, <3>4 DEF SumRead
  <2> QED BY <2>1, <2>2, <2>3 DEF Decides
<1> QED BY <1>1, <1>2 DEF SumRead

LEMMA GoodStays ==
  ASSUME NEW r, NEW n \in Nat, NothingBad(r, n), ~Refused(r, n + 1)
  PROVE  NothingBad(r, n + 1)
<1> SUFFICES ASSUME NEW k \in 1..(n + 1)
             PROVE  /\ Tag(r, k) \in {"file", "size"} => Value(r, k) # Bad
                    /\ IsSum(r, k) /\ NoSha(r, k - 1) => Value(r, k) # Bad
  BY DEF NothingBad
<1>1. CASE k \in 1..n
  BY <1>1 DEF NothingBad
<1>2. CASE k = n + 1
  BY <1>2 DEF Refused
<1> QED BY <1>1, <1>2

\* A sum that is looked at decides for now.
LEMMA SumDecides ==
  ASSUME NEW r, NEW n \in Nat, NEW i, IsSum(r, n + 1), NoSha(r, n),
         i.type = Tag(r, n + 1), i.type # "null" => i.sum = Value(r, n + 1)
  PROVE  SumRead(i, r, n + 1)
<1>1. CASE Tag(r, n + 1) = "sha1"
  <2>1. Decides(r, n + 1, n + 1)
    BY <1>1 DEF Decides
  <2> QED BY <2>1 DEF SumRead
<1>2. CASE Tag(r, n + 1) # "sha1"
  <2>1. NoSha(r, n + 1)
    BY <1>2 DEF NoSha
  <2>2. (n + 1 + 1)..(n + 1) = {}
    OBVIOUS
  <2>3. Decides(r, n + 1, n + 1)
    BY <2>1, <2>2 DEF Decides
  <2> QED BY <2>3 DEF SumRead
<1> QED BY <1>1, <1>2

LEMMA ElementRead ==
  ASSUME NEW r \in Records, NEW n \in Nat, n < Len(r.elements), NEW i, ItemOK(i),
         ReadSoFar(i, r, n), NEW j,
         ParseElement(i, r.elements[n + 1]).res = "OK",
         j = ParseElement(i, r.elements[n + 1]).item
  PROVE  ItemOK(j) /\ ReadSoFar(j, r, n + 1)
<1> DEFINE e == r.elements[n + 1]
<1>1. e \in Elements /\ e.tag = Tag(r, n + 1) /\ e.value = Value(r, n + 1) /\ n + 1 - 1 = n
  BY RecordShape DEF Tag, Value
<1>2. /\ e.tag \in Types \cup {"null", "file", "size", "hashdate"}
      /\ e.tag \in Types => e.value \in SumOf(e.tag) \cup {Bad}
      /\ e.tag = "file" => e.value \in Files \cup {Bad}
      /\ e.tag = "null" => e.value = NoSum
  BY <1>1, ElementShape
<1>3. i.type # "sha1" <=> NoSha(r, n)
  BY ShaDecides DEF ReadSoFar
<1>4. ParseElement(i, e).res = "OK" /\ j = ParseElement(i, e).item
  OBVIOUS
<1>5. i \in Items /\ (i.type \in Types => i.sum \in SumOf(i.type))
      /\ KeyRead(i, r, n) /\ SizeRead(i, r, n) /\ SumRead(i, r, n) /\ NothingBad(r, n)
  BY DEF ItemOK, ReadSoFar
<1>6. NoSum # Bad
  BY ParseAssumption DEF ParseAssumption
<1> HIDE DEF e
<1>7. CASE e.tag \in Types \cup {"null"}
  <2>1. ParseElement(i, e) = ParseSum(i, e) /\ IsSum(r, n + 1)
    BY <1>1, <1>7, TheTypes DEF ParseElement, IsSum, SumTags
  <2>2. Tag(r, n + 1) \notin {"file", "size"}
    BY <1>1, <1>7, TheTypes
  <2>3. CASE i.type = "sha1"
    <3>1. j = i
      BY <1>4, <2>1, <2>3 DEF ParseSum, Read
    <3>2. ~Refused(r, n + 1)
      BY <1>1, <1>3, <2>2, <2>3 DEF Refused
    <3> QED BY <1>3, <1>5, <2>2, <2>3, <3>1, <3>2, KeyStays, SizeStays, SumStays, GoodStays
            DEF ItemOK, ReadSoFar
  <2>4. CASE i.type # "sha1" /\ e.tag = "null"
    <3>1. j = [i EXCEPT !.type = "null"]
      BY <1>2, <1>4, <1>6, <2>1, <2>4 DEF ParseSum, Read
    <3>2. /\ j \in Items /\ j.key = i.key /\ j.sized = i.sized /\ j.type = "null"
          /\ j.type \notin Types
      BY <1>5, <3>1, TheTypes DEF Items
    <3>3. SumRead(j, r, n + 1)
      BY <1>1, <1>3, <2>1, <2>4, <3>2, SumDecides
    <3>4. ~Refused(r, n + 1)
      BY <1>1, <1>2, <1>6, <2>4 DEF Refused
    <3> QED BY <1>5, <2>2, <3>2, <3>3, <3>4, KeyStays, SizeStays, GoodStays
            DEF ItemOK, ReadSoFar
  <2>5. CASE i.type # "sha1" /\ e.tag # "null"
    <3>1. e.value # Bad /\ j = [i EXCEPT !.type = e.tag, !.sum = e.value]
      BY <1>4, <2>1, <2>5 DEF ParseSum, Read, ReadError
    <3>2. e.tag \in Types /\ e.value \in SumOf(e.tag)
      BY <1>2, <1>7, <2>5, <3>1
    <3>3. e.value \in Types \X Contents
      BY <3>2 DEF SumOf
    <3>4. /\ j \in Items /\ j.key = i.key /\ j.sized = i.sized
          /\ j.type = e.tag /\ j.sum = e.value
      BY <1>5, <3>1, <3>2, <3>3 DEF Items
    <3>5. SumRead(j, r, n + 1)
      BY <1>1, <1>3, <2>1, <2>5, <3>4, SumDecides
    <3>6. ~Refused(r, n + 1)
      BY <1>1, <3>1 DEF Refused
    <3> QED BY <1>5, <2>2, <3>2, <3>4, <3>5, <3>6, KeyStays, SizeStays, GoodStays
            DEF ItemOK, ReadSoFar
  <2> QED BY <2>3, <2>4, <2>5
<1>8. ASSUME e.tag \in {"file", "size", "hashdate"}
      PROVE  ~IsSum(r, n + 1)
  BY <1>1, <1>8, TheTypes DEF IsSum, SumTags
<1>9. CASE e.tag = "file"
  <2>1. e.value # Bad /\ j = [i EXCEPT !.key = e.value]
    BY <1>4, <1>9, TheTypes DEF ParseElement, Read, ReadError
  <2>2. e.value \in Files
    BY <1>2, <1>9, <2>1
  <2>3. /\ j \in Items /\ j.key = e.value /\ j.sized = i.sized
        /\ j.type = i.type /\ j.sum = i.sum
    BY <1>5, <2>1, <2>2 DEF Items
  <2>4. KeyRead(j, r, n + 1)
    <3>1. (n + 1 + 1)..(n + 1) = {} /\ n + 1 \in 1..(n + 1)
      OBVIOUS
    <3> QED BY <1>1, <1>9, <2>3, <3>1 DEF KeyRead
  <2>5. ~Refused(r, n + 1)
    BY <1>1, <2>1 DEF Refused
  <2> QED BY <1>1, <1>5, <1>8, <1>9, <2>3, <2>4, <2>5, SizeStays, SumStays, GoodStays
          DEF ItemOK, ReadSoFar
<1>10. CASE e.tag = "size"
  <2>1. e.value # Bad /\ j = [i EXCEPT !.sized = TRUE]
    BY <1>4, <1>10, TheTypes DEF ParseElement, Read, ReadError
  <2>2. /\ j \in Items /\ j.key = i.key /\ j.sized = TRUE
        /\ j.type = i.type /\ j.sum = i.sum
    BY <1>5, <2>1 DEF Items
  <2>3. SizeRead(j, r, n + 1)
    <3>1. n + 1 \in 1..(n + 1)
      OBVIOUS
    <3> QED BY <1>1, <1>10, <2>2, <3>1 DEF SizeRead
  <2>4. ~Refused(r, n + 1)
    BY <1>1, <2>1 DEF Refused
  <2> QED BY <1>1, <1>5, <1>8, <1>10, <2>2, <2>3, <2>4, KeyStays, SumStays, GoodStays
          DEF ItemOK, ReadSoFar
<1>11. CASE e.tag = "hashdate"
  <2>1. j = i
    BY <1>4, <1>11, TheTypes DEF ParseElement, Read
  <2>2. ~Refused(r, n + 1)
    BY <1>1, <1>8, <1>11 DEF Refused
  <2> QED BY <1>1, <1>5, <1>8, <1>11, <2>1, <2>2, KeyStays, SizeStays, SumStays, GoodStays
          DEF ItemOK, ReadSoFar
<1> QED BY <1>2, <1>7, <1>9, <1>10, <1>11

(***************************************************************************)
(* What a record means as a whole is what its elements say when all have   *)
(* been read.                                                              *)
(***************************************************************************)
LEMMA DecidingIs ==
  ASSUME NEW r \in Records, NEW k \in 1..Len(r.elements), Decides(r, k, Len(r.elements))
  PROVE  Deciding(r) = k /\ IsSum(r, k) /\ NoSha(r, k - 1)
<1> DEFINE n    == Len(r.elements)
           shas == Places(r, {"sha1"})
           sums == Places(r, SumTags)
<1>1. /\ n \in Nat /\ shas = {j \in 1..n : Tag(r, j) = "sha1"} /\ shas \in SUBSET Int
      /\ sums = {j \in 1..n : IsSum(r, j)} /\ sums \in SUBSET Int
  BY RecordShape, PlacesAre DEF IsSum
<1>2. Deciding(r) = IF shas # {} THEN Min(shas) ELSE Max(sums)
  BY DEF Deciding
<1> HIDE DEF shas, sums
<1>3. CASE Tag(r, k) = "sha1" /\ NoSha(r, k - 1)
  <2>1. k \in shas /\ \A j \in shas : k <= j
    BY <1>1, <1>3 DEF NoSha
  <2>2. Min(shas) = k
    BY <1>1, <2>1, MinIs
  <2> QED BY <1>2, <1>3, <2>1, <2>2, TheTypes DEF IsSum, SumTags
<1>4. CASE IsSum(r, k) /\ NoSha(r, n) /\ \A j \in (k + 1)..n : ~IsSum(r, j)
  <2>1. shas = {} /\ NoSha(r, k - 1)
    BY <1>1, <1>4 DEF NoSha
  <2>2. k \in sums /\ \A j \in sums : k >= j
    BY <1>1, <1>4
  <2>3. Max(sums) = k
    BY <1>1, <2>2, MaxIs
  <2> QED BY <1>2, <1>4, <2>1, <2>3
<1> QED BY <1>3, <1>4 DEF Decides

\* A refused element makes the whole record malformed, whatever follows it.
LEMMA RefusedIsMalformed ==
  ASSUME NEW r \in Records, NEW k \in 1..Len(r.elements), Refused(r, k)
  PROVE  ~WellFormed(r)
<1> DEFINE n    == Len(r.elements)
           shas == Places(r, {"sha1"})
           sums == Places(r, SumTags)
<1>1. /\ n \in Nat /\ shas = {j \in 1..n : Tag(r, j) = "sha1"} /\ shas \in SUBSET Nat
      /\ sums = {j \in 1..n : IsSum(r, j)} /\ sums \in SUBSET (1..n)
  BY RecordShape, PlacesAre DEF IsSum
<1>2. CASE Tag(r, k) \in {"file", "size"}
  <2>1. k \in Places(r, {"file", "size"}) /\ r.elements[k].value = Bad
    BY <1>2, PlacesAre DEF Refused, Value
  <2> QED BY <2>1 DEF WellFormed
<1>3. CASE IsSum(r, k) /\ NoSha(r, k - 1)
  <2>1. k \in sums /\ r.elements[k].value = Bad
    BY <1>1, <1>3 DEF Refused, Value
  <2>2. k <= Deciding(r)
    <3>1. Deciding(r) = IF shas # {} THEN Min(shas) ELSE Max(sums)
      BY DEF Deciding
    <3> HIDE DEF shas, sums
    <3>2. CASE shas # {}
      <4>1. Min(shas) \in shas
        BY <1>1, <3>2, MinExists
      <4>2. \A j \in shas : j \notin 1..(k - 1)
        BY <1>1, <1>3 DEF NoSha
      <4> QED BY <1>1, <3>1, <3>2, <4>1, <4>2
    <3>3. CASE shas = {}
      <4>1. Max(sums) >= k /\ Max(sums) \in 1..n
        BY <1>1, <2>1, MaxExists
      <4> QED BY <3>1, <3>3, <4>1
    <3> QED BY <3>2, <3>3
  <2> QED BY <2>1, <2>2 DEF WellFormed
<1> QED BY <1>2, <1>3 DEF Refused

LEMMA FileIs ==
  ASSUME NEW r \in Records, NEW k \in 1..Len(r.elements), Tag(r, k) = "file",
         \A j \in (k + 1)..Len(r.elements) : Tag(r, j) # "file"
  PROVE  FileOf(r) = Value(r, k)
<1> DEFINE n    == Len(r.elements)
           tags == Places(r, {"file"})
<1>1. n \in Nat /\ tags = {j \in 1..n : Tag(r, j) = "file"} /\ tags \in SUBSET Int
  BY RecordShape, PlacesAre
<1>2. FileOf(r) = r.elements[Max(tags)].value
  BY DEF FileOf
<1> HIDE DEF tags
<1>3. k \in tags /\ \A j \in tags : k >= j
  BY <1>1
<1>4. Max(tags) = k
  BY <1>1, <1>3, MaxIs
<1> QED BY <1>2, <1>4 DEF Value

\* What a table's item says of the file it is filed under, if it is made from
\* record r.
Means(i, r) ==
  LET e == r.elements[Deciding(r)]
  IN i.type = e.tag /\ (e.tag # "null" => i.sum = e.value)

\* A record that has been read to its end is complete if and only if it is
\* well-formed, and then the item has what the record means.
LEMMA RecordRead ==
  ASSUME NEW r \in Records, NEW i, ItemOK(i), ReadSoFar(i, r, Len(r.elements))
  PROVE  /\ Complete(i) <=> WellFormed(r)
         /\ Complete(i) => FileOf(r) = i.key /\ Means(i, r)
<1> DEFINE n == Len(r.elements)
<1>1. /\ n \in Nat /\ i \in Items /\ (i.type \in Types => i.sum \in SumOf(i.type))
      /\ KeyRead(i, r, n) /\ SizeRead(i, r, n) /\ SumRead(i, r, n) /\ NothingBad(r, n)
      /\ NoFile \notin Files
  BY RecordShape, ParseAssumption DEF ParseAssumption, ItemOK, ReadSoFar
\* The sizes.
<1>2. i.sized <=> Places(r, {"size"}) # {}
  <2>1. Places(r, {"size"}) = {j \in 1..n : Tag(r, j) \in {"size"}}
    BY PlacesAre
  <2> QED BY <1>1, <2>1 DEF SizeRead
\* The file.
<1>3. /\ i.key # NoFile <=> Places(r, {"file"}) # {}
      /\ i.key # NoFile => FileOf(r) = i.key
  <2>1. Places(r, {"file"}) = {j \in 1..n : Tag(r, j) \in {"file"}}
    BY PlacesAre
  <2>2. CASE i.key = NoFile /\ \A j \in 1..n : Tag(r, j) # "file"
    BY <2>1, <2>2
  <2>3. CASE \E k \in 1..n : /\ Tag(r, k) = "file" /\ i.key = Value(r, k)
                             /\ \A j \in (k + 1)..n : Tag(r, j) # "file"
    <3>1. PICK k \in 1..n : /\ Tag(r, k) = "file" /\ i.key = Value(r, k)
                            /\ \A j \in (k + 1)..n : Tag(r, j) # "file"
      BY <2>3
    <3>2. Value(r, k) \in Files \cup {Bad}
      BY <3>1, RecordShape, ElementShape DEF Tag, Value
    <3>3. Value(r, k) # Bad
      BY <1>1, <3>1 DEF NothingBad
    <3>4. i.key # NoFile
      BY <1>1, <3>1, <3>2, <3>3
    <3>5. FileOf(r) = i.key
      BY <3>1, FileIs
    <3> QED BY <2>1, <3>1, <3>4, <3>5
  <2> QED BY <1>1, <2>2, <2>3 DEF KeyRead
\* The sum.
<1>4. /\ i.type # "unrecognized" <=> Places(r, SumTags) # {}
      /\ i.type # "unrecognized" => Means(i, r) /\ NoSha(r, Deciding(r) - 1)
                                    /\ Deciding(r) \in 1..n /\ (i.sum # NoSum \/ i.type = "null")
  <2>1. Places(r, SumTags) = {j \in 1..n : IsSum(r, j)}
    BY PlacesAre DEF IsSum
  <2>2. CASE i.type = "unrecognized" /\ \A j \in 1..n : ~IsSum(r, j)
    BY <2>1, <2>2
  <2>3. CASE \E k \in 1..n : /\ Decides(r, k, n) /\ i.type = Tag(r, k)
                             /\ i.type # "null" => i.sum = Value(r, k)
    <3>1. PICK k \in 1..n : /\ Decides(r, k, n) /\ i.type = Tag(r, k)
                            /\ i.type # "null" => i.sum = Value(r, k)
      BY <2>3
    <3>2. Deciding(r) = k /\ IsSum(r, k) /\ NoSha(r, k - 1)
      BY <3>1, DecidingIs
    <3>3. i.type \in Types \cup {"null"} /\ i.type # "unrecognized"
      BY <3>1, <3>2, TheTypes DEF IsSum, SumTags
    <3>4. i.sum # NoSum \/ i.type = "null"
      BY <1>1, <3>3, SumsAreUsable
    <3>5. Means(i, r)
      BY <3>1, <3>2 DEF Means, Tag, Value
    <3> QED BY <2>1, <3>1, <3>2, <3>3, <3>4, <3>5
  <2> QED BY <1>1, <2>2, <2>3 DEF SumRead
\* Nothing that is looked at is bad.
<1>5. \A k \in Places(r, {"file", "size"}) : r.elements[k].value # Bad
  BY <1>1, PlacesAre DEF NothingBad, Value
<1>6. ASSUME i.type # "unrecognized", NEW k \in Places(r, SumTags), k <= Deciding(r)
      PROVE  r.elements[k].value # Bad
  <2>1. k \in 1..n /\ IsSum(r, k)
    BY <1>6, PlacesAre DEF IsSum
  <2>2. NoSha(r, k - 1)
    BY <1>1, <1>4, <1>6, <2>1 DEF NoSha
  <2> QED BY <1>1, <2>1, <2>2 DEF NothingBad, Value
<1> QED BY <1>2, <1>3, <1>4, <1>5, <1>6 DEF Complete, WellFormed

(***************************************************************************)
(* Type correctness.                                                       *)
(***************************************************************************)
TableOK ==
  /\ DOMAIN table \subseteq Files
  /\ \A f \in DOMAIN table :
       table[f].key = f /\ ItemOK(table[f]) /\ table[f].type # "unrecognized"

Place ==
  /\ at \in 0..(Len(list.records) + 1)
  /\ pass \in {"seal", "open"} => at = 0
  /\ pass \in {"record", "element"} => at >= 1
  /\ pass = "element" =>
       at <= Len(list.records) /\ el \in 1..(Len(list.records[at].elements) + 1)

\* The item has what the elements before the one at hand say.
HereRead == pass = "element" => ReadSoFar(item, list.records[at], el - 1)

TypeInv ==
  /\ disk \in [Files -> Contents] /\ selected \in Selections /\ list \in Lists
  /\ pass \in {"seal", "open", "record", "element", "exited", "crashed"}
  /\ result \in {"OK", "MHL_NOT_FOUND", "WRONG_MHL_FORMAT"}
  /\ Place /\ ItemOK(item) /\ TableOK /\ HereRead

LEMMA ListShape ==
  ASSUME list \in Lists
  PROVE  /\ list.records \in Seq(Records) /\ Len(list.records) \in Nat
         /\ DOMAIN list.records = 1..Len(list.records)
         /\ \A k \in 1..Len(list.records) : list.records[k] \in Records
         /\ list.shape \in Shapes
<1>1. list.records \in Seq(Records) /\ list.shape \in Shapes
  BY DEF Lists, Records
<1> HIDE DEF Records
<1> QED BY <1>1

\* Of the selected types the first two are kept, and so sha1 comes first.
LEMMA KeptShape ==
  ASSUME NEW types \in SUBSET Types, types # {}
  PROVE  /\ Kept(types) \in Seq(types) /\ Len(Kept(types)) \in {1, 2}
         /\ "sha1" \in types => Kept(types)[1] = "sha1"
<1> DEFINE places == {i \in DOMAIN TypeOrder : TypeOrder[i] \in types}
           major  == Min(places)
           rest   == places \ {major}
<1>1. /\ DOMAIN TypeOrder = 1..5 /\ TypeOrder[1] = "sha1"
      /\ \A i \in 2..5 : TypeOrder[i] # "sha1"
  <2>1. DOMAIN TypeOrder = 1..5 /\ TypeOrder[1] = "sha1"
    BY DEF TypeOrder
  <2>2. \A i \in 2..5 : i = 2 \/ i = 3 \/ i = 4 \/ i = 5
    OBVIOUS
  <2>3. /\ TypeOrder[2] # "sha1" /\ TypeOrder[3] # "sha1"
        /\ TypeOrder[4] # "sha1" /\ TypeOrder[5] # "sha1"
    BY DEF TypeOrder
  <2> QED BY <2>1, <2>2, <2>3
<1>2. Types = {TypeOrder[i] : i \in 1..5}
  BY <1>1 DEF Types, ToSet
<1>3. places = {i \in 1..5 : TypeOrder[i] \in types} /\ places # {} /\ places \in SUBSET Nat
  BY <1>1, <1>2
<1>4. Kept(types) = IF rest = {} THEN <<TypeOrder[major]>>
                                 ELSE <<TypeOrder[major], TypeOrder[Min(rest)]>>
  BY DEF Kept
<1> HIDE DEF places
<1>5. major \in places /\ \A i \in places : major <= i
  BY <1>3, MinExists
<1>6. TypeOrder[major] \in types /\ ("sha1" \in types => TypeOrder[major] = "sha1")
  <2>1. "sha1" \in types => 1 \in places
    BY <1>1, <1>3
  <2> QED BY <1>1, <1>3, <1>5, <2>1
<1> HIDE DEF major
<1>7. CASE rest = {}
  BY <1>4, <1>6, <1>7
<1>8. CASE rest # {}
  <2>1. Min(rest) \in rest
    BY <1>3, <1>8, MinExists
  <2>2. Min(rest) \in places /\ Min(rest) # major
    BY <2>1
  <2>3. Min(rest) \in 2..5
    BY <1>3, <1>5, <2>2
  <2>4. TypeOrder[Min(rest)] \in types /\ TypeOrder[Min(rest)] # "sha1"
    BY <1>1, <1>3, <2>2, <2>3
  <2> QED BY <1>4, <1>6, <1>8, <2>4
<1> QED BY <1>7, <1>8

LEMMA Joined ==
  ASSUME NEW S, NEW s \in Seq(S), NEW t \in Seq(S)
  PROVE  /\ s \o t \in Seq(S) /\ Len(s \o t) = Len(s) + Len(t)
         /\ \A k \in 1..Len(s) : (s \o t)[k] = s[k]
         /\ \A k \in 1..Len(t) : (s \o t)[k + Len(s)] = t[k]
OBVIOUS

\* The elements of a sealed record: the file, its size, and one or two sums.
SealedElements(f, c) ==
  LET kept == Kept(selected)
  IN <<Element("file", f), Element("size", Fine)>>
       \o [k \in DOMAIN kept |-> Element(kept[k], <<kept[k], c>>)]

LEMMA SealedElementsAre ==
  ASSUME selected \in Selections, NEW f \in Files, NEW c \in Contents
  PROVE  LET kept == Kept(selected)
             es   == SealedElements(f, c)
         IN /\ es \in Seq(Elements) /\ Len(es) = 2 + Len(kept)
            /\ es[1] = Element("file", f) /\ es[2] = Element("size", Fine)
            /\ \A k \in 1..Len(kept) : es[k + 2] = Element(kept[k], <<kept[k], c>>)
<1> DEFINE kept == Kept(selected)
           sums == [k \in DOMAIN kept |-> Element(kept[k], <<kept[k], c>>)]
           head == <<Element("file", f), Element("size", Fine)>>
<1>1. selected \in SUBSET Types /\ selected # {}
  BY ParseAssumption DEF ParseAssumption
<1>2. kept \in Seq(Types) /\ Len(kept) \in {1, 2} /\ DOMAIN kept = 1..Len(kept)
      /\ \A k \in 1..Len(kept) : kept[k] \in Types
  BY <1>1, KeptShape
<1> HIDE DEF kept
<1>3. \A k \in 1..Len(kept) : Element(kept[k], <<kept[k], c>>) \in Elements
  <2>1. \A t \in Types : Element(t, <<t, c>>) \in {Element(u, <<u, x>>) : u \in Types, x \in Contents}
    OBVIOUS
  <2>2. \A t \in Types : Element(t, <<t, c>>) \in Elements
    BY <2>1 DEF Elements
  <2> QED BY <1>2, <2>2
<1>4. sums \in Seq(Elements) /\ Len(sums) = Len(kept)
      /\ \A k \in 1..Len(kept) : sums[k] = Element(kept[k], <<kept[k], c>>)
  BY <1>2, <1>3
<1>5. head \in Seq(Elements) /\ Len(head) = 2
      /\ head[1] = Element("file", f) /\ head[2] = Element("size", Fine)
  <2>1. Element("file", f) \in Elements /\ Element("size", Fine) \in Elements
    BY DEF Elements
  <2> QED BY <2>1
<1>6. SealedElements(f, c) = head \o sums
  BY DEF SealedElements, kept
<1> HIDE DEF head, sums
<1>7. \A h, t \in Seq(Elements) :
        /\ h \o t \in Seq(Elements) /\ Len(h \o t) = Len(h) + Len(t)
        /\ \A k \in 1..Len(h) : (h \o t)[k] = h[k]
        /\ \A k \in 1..Len(t) : (h \o t)[k + Len(h)] = t[k]
  BY Joined
<1>8. PICK es : es = head \o sums
  OBVIOUS
<1>9. /\ es \in Seq(Elements) /\ Len(es) = Len(head) + Len(sums)
      /\ \A k \in 1..Len(head) : es[k] = head[k]
      /\ \A k \in 1..Len(sums) : es[k + Len(head)] = sums[k]
  <2>1. head \in Seq(Elements) /\ sums \in Seq(Elements)
    BY <1>4, <1>5
  <2> QED BY ONLY <1>7, <1>8, <2>1, Zenon
<1>10. SealedElements(f, c) = es
  BY <1>6, <1>8
<1>11. 1 \in 1..Len(head) /\ 2 \in 1..Len(head) /\ Len(es) = 2 + Len(kept)
  BY <1>2, <1>4, <1>5, <1>9
<1>12. \A k \in 1..Len(kept) : es[k + 2] = Element(kept[k], <<kept[k], c>>)
  BY <1>4, <1>5, <1>9
<1> QED BY <1>5, <1>9, <1>10, <1>11, <1>12 DEF kept

\* One more record.
LEMMA OneMoreRecord ==
  ASSUME TypeInv, SealFile
  PROVE  \E f \in Files :
           /\ list' = [list EXCEPT !.records =
                         Append(@, Record(FALSE, SealedElements(f, disk[f])))]
           /\ sealed' = Append(sealed, disk[f])
           /\ Record(FALSE, SealedElements(f, disk[f])) \in Records
           /\ disk[f] \in Contents
<1>1. PICK f \in Files :
        /\ list' = [list EXCEPT !.records = Append(@,
             Record(FALSE, <<Element("file", f), Element("size", Fine)>> \o Sums(f)))]
        /\ sealed' = Append(sealed, disk[f])
  BY DEF SealFile
<1>2. disk[f] \in Contents /\ selected \in Selections
  BY DEF TypeInv
<1>3. SealedElements(f, disk[f]) = <<Element("file", f), Element("size", Fine)>> \o Sums(f)
  BY DEF SealedElements, Sums
<1>4. SealedElements(f, disk[f]) \in Seq(Elements)
  BY <1>2, SealedElementsAre
<1>5. Record(FALSE, SealedElements(f, disk[f])) \in Records
  BY <1>4 DEF Record, Records
<1> QED BY <1>1, <1>2, <1>3, <1>5

LEMMA TypeInit == ASSUME Init PROVE TypeInv
<1>1. list \in Lists /\ list.records = <<>>
  BY DEF Init, Lists, Shapes
<1>2. DOMAIN table = {}
  BY DEF Init
<1>3. ItemOK(NoItem)
  BY NothingRead
<1> QED BY <1>1, <1>2, <1>3 DEF Init, TypeInv, Place, TableOK, HereRead

\* Entering the item of a complete record.
LEMMA EntryOK ==
  ASSUME TypeInv, Complete(item),
         NEW t, t = [f \in DOMAIN table \cup {item.key} |->
                       IF f = item.key THEN item ELSE table[f]]
  PROVE  /\ item.key \in Files
         /\ DOMAIN t \subseteq Files
         /\ \A f \in DOMAIN t : t[f].key = f /\ ItemOK(t[f]) /\ t[f].type # "unrecognized"
<1>1. item.key \in Files /\ item.type # "unrecognized" /\ ItemOK(item)
  BY DEF TypeInv, ItemOK, Items, Complete
<1>2. DOMAIN t = DOMAIN table \cup {item.key}
  OBVIOUS
<1>3. \A f \in DOMAIN t : t[f] = IF f = item.key THEN item ELSE table[f]
  OBVIOUS
<1> QED BY <1>1, <1>2, <1>3 DEF TypeInv, TableOK

LEMMA TypeStep == ASSUME TypeInv, [Next]_vars PROVE TypeInv'
<1> USE DEF TypeInv
<1>1. CASE SealFile
  <2>1. PICK f \in Files :
          /\ list' = [list EXCEPT !.records =
                        Append(@, Record(FALSE, SealedElements(f, disk[f])))]
          /\ Record(FALSE, SealedElements(f, disk[f])) \in Records
    BY <1>1, OneMoreRecord
  <2>2. PICK r : r = Record(FALSE, SealedElements(f, disk[f]))
    OBVIOUS
  <2>3. r \in Records /\ list' = [list EXCEPT !.records = Append(@, r)]
    BY <2>1, <2>2
  <2>4. list \in [records : Seq(Records), shape : Shapes]
    BY DEF Lists, Records
  <2>5. list' \in [records : Seq(Records), shape : Shapes] /\ Len(list'.records) = Len(list.records) + 1
    <3> HIDE DEF Records
    <3> QED BY <2>3, <2>4
  <2>6. list' \in Lists
    BY <2>5 DEF Lists, Records
  <2>7. at = 0 /\ pass = "seal" /\ pass' = pass /\ at' = at
    BY <1>1 DEF SealFile, Place
  <2> QED BY <1>1, <2>5, <2>6, <2>7, ListShape DEF SealFile, Place, TableOK, HereRead
<1>2. CASE EndSeal \/ GivenList
  <2>1. list' \in Lists
    <3>1. CASE EndSeal
      BY <3>1 DEF EndSeal, Lists, Shapes
    <3>2. CASE GivenList
      BY <3>2, ParseAssumption DEF GivenList, ParseAssumption
    <3> QED BY <1>2, <3>1, <3>2
  <2>2. Len(list'.records) \in Nat
    BY <2>1 DEF Lists
  <2>3. /\ at = 0 /\ pass' = "open"
        /\ UNCHANGED <<disk, selected, at, el, item, table, result>>
    BY <1>2 DEF EndSeal, GivenList, Place
  <2> QED BY <2>1, <2>2, <2>3 DEF Place, TableOK, HereRead
<1>3. CASE FileChanges
  <2>1. disk' \in [Files -> Contents]
    BY <1>3 DEF FileChanges
  <2> QED BY <1>3, <2>1 DEF FileChanges, Place, TableOK, HereRead
<1>4. CASE OpenList
  <2>1. UNCHANGED <<disk, selected, list, item, table>> /\ Len(list.records) \in Nat
    BY <1>4, ListShape DEF OpenList, world
  <2>2. \/ pass' = "exited" /\ result' \in {"MHL_NOT_FOUND", "WRONG_MHL_FORMAT"} /\ at' = at
        \/ pass' = "crashed" /\ result' = result /\ at' = at
        \/ pass' = "record" /\ result' = result /\ at' = 1
    BY <1>4 DEF OpenList, Finish, Crash
  <2> QED BY <2>1, <2>2 DEF Place, TableOK, HereRead
<1>5. CASE BeginRecord
  <2>1. /\ UNCHANGED <<disk, selected, list, at, table, result>>
        /\ at \in 1..Len(list.records) /\ pass' = "element" /\ el' = 1 /\ item' = NoItem
    BY <1>5, ListShape DEF BeginRecord, world, Place
  <2>2. list.records[at] \in Records /\ 1 \in 1..(Len(list.records[at].elements) + 1)
    BY <2>1, ListShape, RecordShape
  <2>3. ItemOK(item') /\ ReadSoFar(item', list.records[at], el' - 1)
    BY <2>1, NothingRead
  <2> QED BY <2>1, <2>2, <2>3 DEF Place, TableOK, HereRead
<1>6. CASE NextElement
  <2> DEFINE r == list.records[at]
             read == ParseElement(item, r.elements[el])
  <2>1. /\ UNCHANGED <<disk, selected, list, at, table>>
        /\ at \in 1..Len(list.records) /\ r \in Records
        /\ Len(r.elements) \in Nat /\ el \in 1..Len(r.elements)
    <3>1. /\ UNCHANGED <<disk, selected, list, at, table>>
          /\ at \in 1..Len(list.records) /\ el \in 1..(Len(r.elements) + 1)
          /\ el <= Len(r.elements)
      BY <1>6, ListShape DEF NextElement, world, Place
    <3>2. r \in Records /\ Len(r.elements) \in Nat
      BY <3>1, ListShape, RecordShape
    <3> QED BY <3>1, <3>2
  <2>2. \/ read.res = "OK" /\ item' = read.item /\ el' = el + 1 /\ UNCHANGED <<pass, result>>
        \/ pass' = "exited" /\ result' = "WRONG_MHL_FORMAT" /\ UNCHANGED <<item, el>>
    BY <1>6 DEF NextElement, Finish
  <2>3. pass = "element" /\ ReadSoFar(item, r, el - 1)
    BY <1>6 DEF NextElement, HereRead
  <2>4. CASE read.res = "OK" /\ item' = read.item /\ el' = el + 1 /\ UNCHANGED <<pass, result>>
    <3> DEFINE n == el - 1
    <3>1. n \in Nat /\ n < Len(r.elements) /\ n + 1 = el /\ el' - 1 = n + 1
      BY <2>1, <2>4
    <3> HIDE DEF n
    <3>2. /\ ReadSoFar(item, r, n) /\ ParseElement(item, r.elements[n + 1]).res = "OK"
          /\ item' = ParseElement(item, r.elements[n + 1]).item
      BY <2>3, <2>4, <3>1 DEF n
    <3>3. ItemOK(item') /\ ReadSoFar(item', r, n + 1)
      <4> HIDE DEF r
      <4> QED BY <2>1, <3>1, <3>2, ElementRead
    <3>4. /\ Place' /\ TableOK'
      BY <2>1, <2>3, <2>4 DEF Place, TableOK
    <3> QED BY <2>1, <2>4, <3>1, <3>3, <3>4 DEF HereRead
  <2>5. CASE pass' = "exited" /\ result' = "WRONG_MHL_FORMAT" /\ UNCHANGED <<item, el>>
    BY <2>1, <2>5 DEF Place, TableOK, HereRead
  <2> QED BY <2>2, <2>4, <2>5
<1>7. CASE EndRecord
  <2>1. UNCHANGED <<disk, selected, list, el, item>> /\ at \in 1..Len(list.records)
        /\ Len(list.records) \in Nat
    BY <1>7, ListShape DEF EndRecord, world, Place
  <2>2. \/ pass' = "exited" /\ result' = "WRONG_MHL_FORMAT" /\ at' = at
        \/ pass' = "record" /\ at' = at + 1 /\ result' = result
        \/ pass' = "crashed" /\ result' = result /\ at' = at
    BY <1>7 DEF EndRecord, Finish, Crash
  <2>3. TableOK'
    <3>1. \/ table' = table
          \/ Complete(item) /\ table' = [f \in DOMAIN table \cup {item.key} |->
                                           IF f = item.key THEN item ELSE table[f]]
      BY <1>7 DEF EndRecord
    <3>2. CASE table' = table
      BY <3>2 DEF TableOK
    <3>3. CASE table' # table
      <4>1. /\ DOMAIN table' \subseteq Files
            /\ \A f \in DOMAIN table' :
                 table'[f].key = f /\ ItemOK(table'[f]) /\ table'[f].type # "unrecognized"
        BY <3>1, <3>3, EntryOK
      <4> QED BY <4>1 DEF TableOK
    <3> QED BY <3>2, <3>3
  <2> QED BY <2>1, <2>2, <2>3 DEF Place, HereRead
<1>8. CASE EndOfList
  BY <1>8 DEF EndOfList, Finish, world, Place, TableOK, HereRead
<1>9. CASE UNCHANGED vars
  BY <1>9 DEF vars, world, Place, TableOK, HereRead
<1> QED BY <1>1, <1>2, <1>3, <1>4, <1>5, <1>6, <1>7, <1>8, <1>9 DEF Next, Parser, Stopped

LEMMA TypeAlways == Spec => []TypeInv
BY TypeInit, TypeStep, PTL DEF Spec

\* What is entered into the table can be compared, whatever the list: it is
\* filed under its own name, and a type other than null comes with a sum of
\* this type.
THEOREM ParserTypeCorrect == Spec => []TypeOK
<1>1. TypeInv => TypeOK
  <2> SUFFICES ASSUME TypeInv PROVE TypeOK
    OBVIOUS
  <2>1. ASSUME NEW f \in DOMAIN table
        PROVE  table[f].type = "null" \/
                 (table[f].sum # NoSum /\ table[f].sum[1] = table[f].type)
    <3>1. ItemOK(table[f]) /\ table[f].type # "unrecognized"
      BY <2>1 DEF TypeInv, TableOK
    <3>2. table[f].type \in Types \cup {"null"}
      BY <3>1 DEF ItemOK, Items
    <3>3. table[f].type \in Types => table[f].sum \in SumOf(table[f].type)
      BY <3>1 DEF ItemOK
    <3> QED BY <3>2, <3>3, SumsAreUsable
  <2> QED BY <2>1 DEF TypeInv, TypeOK, Place, TableOK
<1> QED BY <1>1, TypeAlways, PTL

\* What has been entered for a file is not changed by later records of it,
\* whatever they say.
THEOREM FirstEntryStays == Spec => FirstRecordWins
<1>1. [Next]_vars => [\A f \in DOMAIN table : f \in DOMAIN table' /\ table'[f] = table[f]]_vars
  <2> SUFFICES ASSUME Next
               PROVE  \A f \in DOMAIN table : f \in DOMAIN table' /\ table'[f] = table[f]
    OBVIOUS
  <2>1. CASE EndRecord
    <3>1. \/ table' = table
          \/ item.key \notin DOMAIN table
             /\ table' = [f \in DOMAIN table \cup {item.key} |->
                            IF f = item.key THEN item ELSE table[f]]
      BY <2>1 DEF EndRecord
    <3> QED BY <3>1
  <2>2. CASE ~EndRecord
    BY <2>2 DEF Next, Parser, SealFile, EndSeal, GivenList, FileChanges, OpenList, BeginRecord,
                NextElement, EndOfList, Stopped, vars
  <2> QED BY <2>1, <2>2
<1> QED BY <1>1, PTL DEF Spec, FirstRecordWins

(***************************************************************************)
(* The list as a whole.                                                    *)
(***************************************************************************)
Rec(k) == list.records[k]

\* The first n records are well-formed and have their file in the table; what
\* is in the table is what the first of the records of the file means.
TableOf(n) ==
  /\ \A k \in 1..n : WellFormed(Rec(k)) /\ FileOf(Rec(k)) \in DOMAIN table
  /\ \A f \in DOMAIN table :
       \E k \in 1..n : /\ FileOf(Rec(k)) = f /\ \A j \in 1..(k - 1) : FileOf(Rec(j)) # f
                       /\ Means(table[f], Rec(k))

HasReference == \E k \in 1..Len(list.records) : Rec(k).ref
HasMalformed == \E k \in 1..Len(list.records) : ~WellFormed(Rec(k))

ParseInv ==
  /\ pass \in {"seal", "open"} => table = <<>> /\ result = "OK"
  /\ pass \in {"record", "element"} => list.shape = "whole" /\ result = "OK" /\ TableOf(at - 1)
  /\ pass = "exited" /\ list.shape = "whole" =>
       \/ result = "OK" /\ TableOf(Len(list.records))
       \/ result = "WRONG_MHL_FORMAT" /\ (HasMalformed \/ HasReference)
  /\ pass = "exited" /\ list.shape = "cut" => result = "WRONG_MHL_FORMAT" /\ table = <<>>
  /\ pass = "crashed" => list.shape = "no version" \/ (list.shape = "whole" /\ HasReference)

LEMMA ParseInit == ASSUME Init PROVE ParseInv
BY DEF Init, ParseInv

LEMMA TableStays ==
  ASSUME NEW n \in Nat, TableOf(n), UNCHANGED <<list, table>>
  PROVE  TableOf(n)'
BY DEF TableOf, Rec

\* A record is skipped: the table has the file already.
LEMMA RecordSkipped ==
  ASSUME NEW n \in Nat, TableOf(n), UNCHANGED <<list, table>>,
         WellFormed(Rec(n + 1)), FileOf(Rec(n + 1)) \in DOMAIN table
  PROVE  TableOf(n + 1)'
<1>1. \A k \in 1..(n + 1) : WellFormed(Rec(k)) /\ FileOf(Rec(k)) \in DOMAIN table
  BY DEF TableOf
<1>2. \A f \in DOMAIN table :
        \E k \in 1..(n + 1) : /\ FileOf(Rec(k)) = f /\ \A j \in 1..(k - 1) : FileOf(Rec(j)) # f
                              /\ Means(table[f], Rec(k))
  <2>1. \A k \in 1..n : k \in 1..(n + 1)
    OBVIOUS
  <2> QED BY <2>1 DEF TableOf
<1>3. TableOf(n + 1)
  BY <1>1, <1>2 DEF TableOf
<1> QED BY <1>3, TableStays

\* A record is entered: it is the first of its file.
LEMMA RecordEntered ==
  ASSUME NEW n \in Nat, TableOf(n), list' = list, NEW key, key \notin DOMAIN table,
         table' = [f \in DOMAIN table \cup {key} |-> IF f = key THEN item ELSE table[f]],
         WellFormed(Rec(n + 1)), FileOf(Rec(n + 1)) = key, Means(item, Rec(n + 1))
  PROVE  TableOf(n + 1)'
<1>1. /\ DOMAIN table' = DOMAIN table \cup {key} /\ table'[key] = item
      /\ \A f \in DOMAIN table : table'[f] = table[f]
  OBVIOUS
<1>2. \A k : Rec(k)' = Rec(k)
  BY DEF Rec
<1>3. \A k \in 1..(n + 1) : WellFormed(Rec(k)) /\ FileOf(Rec(k)) \in DOMAIN table'
  BY <1>1 DEF TableOf
<1>4. ASSUME NEW f \in DOMAIN table'
      PROVE  \E k \in 1..(n + 1) :
                /\ FileOf(Rec(k)) = f /\ \A j \in 1..(k - 1) : FileOf(Rec(j)) # f
                /\ Means(table'[f], Rec(k))
  <2>1. CASE f \in DOMAIN table
    <3>1. \A k \in 1..n : k \in 1..(n + 1)
      OBVIOUS
    <3> QED BY <1>1, <2>1, <3>1 DEF TableOf
  <2>2. CASE f = key
    <3>1. \A j \in 1..(n + 1 - 1) : FileOf(Rec(j)) # key
      BY DEF TableOf
    <3>2. n + 1 \in 1..(n + 1)
      OBVIOUS
    <3> QED BY <1>1, <2>2, <3>1, <3>2
  <2> QED BY <1>1, <1>4, <2>1, <2>2
<1> QED BY <1>2, <1>3, <1>4 DEF TableOf

LEMMA ParseStep == ASSUME TypeInv, ParseInv, [Next]_vars PROVE ParseInv'
<1>1. CASE SealFile \/ EndSeal \/ GivenList \/ FileChanges
  <2>1. /\ pass = "seal" /\ pass' \in {"seal", "open"} /\ UNCHANGED <<table, result>>
    BY <1>1 DEF SealFile, EndSeal, GivenList, FileChanges
  <2> QED BY <2>1 DEF ParseInv
<1>2. CASE OpenList
  <2>1. /\ pass = "open" /\ table = <<>> /\ result = "OK" /\ UNCHANGED <<list, table>>
    BY <1>2 DEF OpenList, world, ParseInv
  <2>2. CASE list.shape = "whole" /\ pass' = "record" /\ at' = 1 /\ UNCHANGED result
    <3>1. 1..(at' - 1) = {} /\ DOMAIN table' = {}
      BY <2>1, <2>2
    <3>2. TableOf(at - 1)'
      BY <3>1 DEF TableOf
    <3> QED BY <2>1, <2>2, <3>2 DEF ParseInv
  <2>3. CASE ~(list.shape = "whole" /\ pass' = "record" /\ at' = 1 /\ UNCHANGED result)
    <3>1. \/ /\ list.shape \in {"missing", "cut", "other root", "new version"} /\ pass' = "exited"
             /\ list.shape = "cut" => result' = "WRONG_MHL_FORMAT"
          \/ list.shape = "no version" /\ pass' = "crashed"
      BY <1>2, <2>3 DEF OpenList, Finish, Crash
    <3> QED BY <2>1, <3>1 DEF ParseInv
  <2> QED BY <2>2, <2>3
<1>3. CASE BeginRecord
  <2>1. /\ pass = "record" /\ pass' = "element" /\ UNCHANGED <<list, at, table, result>>
        /\ at - 1 \in Nat
    BY <1>3, ListShape DEF BeginRecord, world, TypeInv, Place
  <2>2. TableOf(at - 1)'
    BY <2>1, TableStays DEF ParseInv
  <2> QED BY <2>1, <2>2 DEF ParseInv
<1>4. CASE NextElement
  <2> DEFINE r == list.records[at]
             read == ParseElement(item, r.elements[el])
  <2>1. /\ pass = "element" /\ UNCHANGED <<list, at, table>> /\ at - 1 \in Nat
        /\ at \in 1..Len(list.records) /\ r \in Records
        /\ el - 1 \in Nat /\ el - 1 < Len(r.elements) /\ el - 1 + 1 = el
        /\ el \in 1..Len(r.elements)
    <3>1. /\ pass = "element" /\ UNCHANGED <<list, at, table>> /\ at - 1 \in Nat
          /\ at \in 1..Len(list.records) /\ el \in 1..(Len(r.elements) + 1)
          /\ el <= Len(r.elements)
      BY <1>4, ListShape DEF NextElement, world, TypeInv, Place
    <3>2. r \in Records /\ Len(r.elements) \in Nat
      BY <3>1, ListShape, RecordShape DEF TypeInv
    <3> QED BY <3>1, <3>2
  <2>2. TableOf(at - 1) /\ TableOf(at - 1)' /\ list.shape = "whole" /\ result = "OK"
    BY <2>1, TableStays DEF ParseInv
  <2>3. CASE read.res = "OK"
    <3>1. UNCHANGED <<pass, result>>
      BY <1>4, <2>3 DEF NextElement
    <3> QED BY <2>1, <2>2, <3>1 DEF ParseInv
  <2>4. CASE read.res # "OK"
    <3>1. pass' = "exited" /\ result' = "WRONG_MHL_FORMAT"
      BY <1>4, <2>4 DEF NextElement, Finish
    <3>2. ReadSoFar(item, r, el - 1)
      BY <2>1 DEF TypeInv, HereRead
    <3>3. Refused(r, el)
      <4>1. PICK n : n = el - 1
        OBVIOUS
      <4>2. n \in Nat /\ n < Len(r.elements) /\ n + 1 = el
        BY <2>1, <4>1
      <4> HIDE DEF r
      <4>3. ReadSoFar(item, r, n) /\ ParseElement(item, r.elements[n + 1]).res # "OK"
        BY <2>4, <3>2, <4>1, <4>2
      <4>4. Refused(r, n + 1)
        BY <2>1, <4>2, <4>3, ElementRefused
      <4> QED BY <4>2, <4>4
    <3>4. ~WellFormed(r)
      <4> HIDE DEF r
      <4> QED BY <2>1, <3>3, RefusedIsMalformed
    <3>5. HasMalformed'
      BY <2>1, <3>4 DEF HasMalformed, Rec
    <3> QED BY <2>1, <2>2, <3>1, <3>5 DEF ParseInv
  <2> QED BY <2>3, <2>4
<1>5. CASE EndRecord
  <2> DEFINE r == Rec(at)
  <2>1. /\ pass = "element" /\ UNCHANGED <<list, item>> /\ at - 1 \in Nat /\ at - 1 + 1 = at
        /\ at \in 1..Len(list.records) /\ r \in Records
        /\ el - 1 = Len(r.elements)
    <3>1. /\ pass = "element" /\ UNCHANGED <<list, item>> /\ at - 1 \in Nat /\ at - 1 + 1 = at
          /\ at \in 1..Len(list.records) /\ el \in 1..(Len(r.elements) + 1)
          /\ el > Len(r.elements)
      BY <1>5, ListShape DEF EndRecord, world, TypeInv, Place, Rec
    <3>2. r \in Records /\ Len(r.elements) \in Nat
      BY <3>1, ListShape, RecordShape DEF TypeInv, Rec
    <3> QED BY <3>1, <3>2
  <2>2. TableOf(at - 1) /\ list.shape = "whole" /\ result = "OK"
    BY <2>1 DEF ParseInv
  <2>3. ItemOK(item) /\ ReadSoFar(item, r, Len(r.elements))
    BY <2>1 DEF TypeInv, HereRead, Rec
  <2>4. /\ Complete(item) <=> WellFormed(r)
        /\ Complete(item) => FileOf(r) = item.key /\ Means(item, r)
    <3> HIDE DEF r
    <3> QED BY <2>1, <2>3, RecordRead
  <2>5. CASE ~Complete(item) \/ (item.key \in DOMAIN table /\ r.ref)
    <3>1. pass' = "exited" /\ result' = "WRONG_MHL_FORMAT"
      BY <1>5, <2>5 DEF EndRecord, Finish, Rec
    <3>2. (HasMalformed \/ HasReference)'
      BY <2>1, <2>4, <2>5 DEF HasMalformed, HasReference, Rec
    <3> QED BY <2>1, <2>2, <3>1, <3>2 DEF ParseInv
  <2>6. CASE Complete(item) /\ item.key \in DOMAIN table /\ ~r.ref
    <3>1. pass' = "record" /\ at' = at + 1 /\ UNCHANGED <<table, result>>
      BY <1>5, <2>6 DEF EndRecord, Rec
    <3>2. PICK n \in Nat : n = at - 1
      BY <2>1
    <3>3. TableOf(n) /\ n + 1 = at /\ at' - 1 = n + 1
      BY <2>1, <2>2, <3>1, <3>2
    <3>4. WellFormed(Rec(n + 1)) /\ FileOf(Rec(n + 1)) \in DOMAIN table
      BY <2>4, <2>6, <3>3
    <3>5. TableOf(n + 1)'
      BY <2>1, <3>1, <3>3, <3>4, RecordSkipped
    <3>6. TableOf(at - 1)'
      BY <3>3, <3>5 DEF TableOf
    <3> QED BY <2>1, <2>2, <3>1, <3>6 DEF ParseInv
  <2>7. CASE Complete(item) /\ item.key \notin DOMAIN table /\ ~r.ref
    <3>1. pass' = "record" /\ at' = at + 1 /\ UNCHANGED result
          /\ table' = [f \in DOMAIN table \cup {item.key} |->
                         IF f = item.key THEN item ELSE table[f]]
      BY <1>5, <2>7 DEF EndRecord, Rec
    <3>2. PICK n \in Nat : n = at - 1
      BY <2>1
    <3>3. TableOf(n) /\ n + 1 = at /\ at' - 1 = n + 1
      BY <2>1, <2>2, <3>1, <3>2
    <3>4. /\ WellFormed(Rec(n + 1)) /\ FileOf(Rec(n + 1)) = item.key
          /\ Means(item, Rec(n + 1))
      BY <2>4, <2>7, <3>3
    <3>5. TableOf(n + 1)'
      BY <2>1, <2>7, <3>1, <3>3, <3>4, RecordEntered
    <3>6. TableOf(at - 1)'
      BY <3>3, <3>5 DEF TableOf
    <3> QED BY <2>1, <2>2, <3>1, <3>6 DEF ParseInv
  <2>8. CASE Complete(item) /\ item.key \notin DOMAIN table /\ r.ref
    <3>1. pass' = "crashed"
      BY <1>5, <2>8 DEF EndRecord, Crash, Rec
    <3>2. HasReference'
      BY <2>1, <2>8 DEF HasReference, Rec
    <3> QED BY <2>1, <2>2, <3>1, <3>2 DEF ParseInv
  <2> QED BY <2>5, <2>6, <2>7, <2>8
<1>6. CASE EndOfList
  <2>1. /\ pass = "record" /\ pass' = "exited" /\ result' = "OK"
        /\ UNCHANGED <<list, at, table>> /\ at - 1 = Len(list.records)
        /\ Len(list.records) \in Nat
    BY <1>6, ListShape DEF EndOfList, Finish, world, TypeInv, Place
  <2>2. TableOf(at - 1) /\ list.shape = "whole"
    BY <2>1 DEF ParseInv
  <2>3. TableOf(Len(list.records))'
    BY <2>1, <2>2 DEF TableOf, Rec
  <2> QED BY <2>1, <2>2, <2>3 DEF ParseInv
<1>7. CASE UNCHANGED vars
  <2>1. UNCHANGED <<list, pass, at, table, result>>
    BY <1>7 DEF vars, world
  <2> QED BY <2>1 DEF ParseInv, TableOf, Rec, HasMalformed, HasReference
<1> QED BY <1>1, <1>2, <1>3, <1>4, <1>5, <1>6, <1>7 DEF Next, Parser, Stopped

LEMMA ParseAlways == Spec => []ParseInv
BY ParseInit, ParseStep, TypeAlways, PTL DEF Spec

\* The parser, reading element by element, accepts exactly the lists all of
\* whose records are well-formed, and files for every file what its first
\* record means as a whole, whatever the order and number of the elements.
THEOREM ParserReadsTheWhole == Spec => []ParsedAsWritten
<1>1. TypeInv /\ ParseInv => ParsedAsWritten
  <2> SUFFICES ASSUME TypeInv, ParseInv, pass = "exited", list.shape = "whole",
                      \A k \in DOMAIN list.records : ~list.records[k].ref
               PROVE  /\ result = "OK" <=>
                           \A k \in DOMAIN list.records : WellFormed(list.records[k])
                      /\ result = "OK" =>
                           /\ DOMAIN table = {FileOf(list.records[k]) : k \in DOMAIN list.records}
                           /\ \A f \in DOMAIN table : Means(table[f], FirstRecordOf(f))
    BY DEF ParsedAsWritten, Means
  <2>1. /\ DOMAIN list.records = 1..Len(list.records) /\ Len(list.records) \in Nat
        /\ \A k : Rec(k) = list.records[k]
    BY ListShape DEF TypeInv, Rec
  <2>2. \/ result = "OK" /\ TableOf(Len(list.records))
        \/ result = "WRONG_MHL_FORMAT" /\ HasMalformed
    BY <2>1 DEF ParseInv, HasReference
  <2>3. result = "OK" <=> \A k \in DOMAIN list.records : WellFormed(list.records[k])
    BY <2>1, <2>2 DEF TableOf, HasMalformed
  <2>4. ASSUME result = "OK"
        PROVE  DOMAIN table = {FileOf(list.records[k]) : k \in DOMAIN list.records}
    <3>1. TableOf(Len(list.records))
      BY <2>2, <2>4
    <3>2. \A k \in DOMAIN list.records : FileOf(list.records[k]) \in DOMAIN table
      BY <2>1, <3>1 DEF TableOf
    <3>3. \A f \in DOMAIN table : \E k \in DOMAIN list.records : FileOf(list.records[k]) = f
      BY <2>1, <3>1 DEF TableOf
    <3> QED BY <3>2, <3>3
  <2>5. ASSUME result = "OK", NEW f \in DOMAIN table
        PROVE  Means(table[f], FirstRecordOf(f))
    <3>1. PICK k \in 1..Len(list.records) :
            /\ FileOf(Rec(k)) = f /\ \A j \in 1..(k - 1) : FileOf(Rec(j)) # f
            /\ Means(table[f], Rec(k))
      BY <2>2, <2>5 DEF TableOf
    <3> DEFINE those == {j \in DOMAIN list.records : FileOf(list.records[j]) = f}
    <3>2. those \in SUBSET Int /\ k \in those /\ \A j \in those : k <= j
      BY <2>1, <3>1
    <3>3. Min(those) = k
      <4> HIDE DEF those
      <4> QED BY <3>2, MinIs
    <3>4. FirstRecordOf(f) = Rec(k)
      BY <2>1, <3>3 DEF FirstRecordOf
    <3> QED BY <3>1, <3>4
  <2> QED BY <2>3, <2>4, <2>5
<1> QED BY <1>1, TypeAlways, ParseAlways, PTL

(***************************************************************************)
(* From sealing to reading.                                                *)
(***************************************************************************)
SealInv ==
  pass = "seal" \/ sealed # <<>> =>
    /\ list.shape \in {"whole", "cut"}
    /\ sealed \in Seq(Contents) /\ Len(sealed) = Len(list.records)
    /\ \A k \in 1..Len(list.records) :
         \E f \in Files : Rec(k) = Record(FALSE, SealedElements(f, sealed[k]))

LEMMA Appended ==
  ASSUME NEW S, NEW s \in Seq(S), NEW x \in S
  PROVE  /\ Append(s, x) \in Seq(S) /\ Len(Append(s, x)) = Len(s) + 1 /\ Len(s) \in Nat
         /\ Append(s, x)[Len(s) + 1] = x
         /\ \A k \in 1..Len(s) : Append(s, x)[k] = s[k]
OBVIOUS

LEMMA SealInit == ASSUME Init PROVE SealInv
<1>1. sealed = <<>> /\ list.records = <<>> /\ list.shape = "cut"
  BY DEF Init
<1>2. 1..Len(list.records) = {}
  BY <1>1
<1> QED BY <1>1, <1>2 DEF SealInv

LEMMA SealStep == ASSUME TypeInv, SealInv, [Next]_vars PROVE SealInv'
<1>1. CASE SealFile
  <2>1. PICK f \in Files :
          /\ list' = [list EXCEPT !.records =
                        Append(@, Record(FALSE, SealedElements(f, disk[f])))]
          /\ sealed' = Append(sealed, disk[f])
          /\ Record(FALSE, SealedElements(f, disk[f])) \in Records
          /\ disk[f] \in Contents
    BY <1>1, OneMoreRecord
  <2>2. PICK r, c : r = Record(FALSE, SealedElements(f, disk[f])) /\ c = disk[f]
    OBVIOUS
  <2>3. /\ r \in Records /\ list' = [list EXCEPT !.records = Append(@, r)]
        /\ sealed' = Append(sealed, c) /\ c \in Contents
        /\ r = Record(FALSE, SealedElements(f, c))
    BY <2>1, <2>2
  <2>4. /\ list.shape \in {"whole", "cut"} /\ sealed \in Seq(Contents)
        /\ Len(sealed) = Len(list.records)
        /\ \A k \in 1..Len(list.records) :
             \E g \in Files : Rec(k) = Record(FALSE, SealedElements(g, sealed[k]))
    BY <1>1 DEF SealFile, SealInv
  <2>5. list \in [records : Seq(Records), shape : Shapes]
    BY DEF TypeInv, Lists, Records
  <2>6. PICK n : n = Len(list.records)
    OBVIOUS
  <2>7. /\ n \in Nat /\ list'.shape = list.shape
        /\ Len(list'.records) = n + 1 /\ list'.records[n + 1] = r
        /\ \A k \in 1..n : list'.records[k] = list.records[k]
    <3>1. list'.shape = list.shape /\ list'.records = Append(list.records, r)
      BY <2>3, <2>5
    <3>2. list.records \in Seq(Records)
      BY <2>5
    <3>3. r \in Records
      BY <2>3
    <3>4. PICK rs, ls : rs = list.records /\ ls = Append(rs, r)
      OBVIOUS
    <3>5. Len(ls) = Len(rs) + 1 /\ Len(rs) \in Nat /\ ls[Len(rs) + 1] = r
          /\ \A k \in 1..Len(rs) : ls[k] = rs[k]
      <4>1. rs \in Seq(Records) /\ r \in Records
        BY <3>2, <3>3, <3>4
      <4>2. \A s \in Seq(Records), x \in Records :
              /\ Len(Append(s, x)) = Len(s) + 1 /\ Len(s) \in Nat
              /\ Append(s, x)[Len(s) + 1] = x
              /\ \A k \in 1..Len(s) : Append(s, x)[k] = s[k]
        BY Appended
      <4>3. /\ Len(Append(rs, r)) = Len(rs) + 1 /\ Len(rs) \in Nat
            /\ Append(rs, r)[Len(rs) + 1] = r
            /\ \A k \in 1..Len(rs) : Append(rs, r)[k] = rs[k]
        BY ONLY <4>1, <4>2, Zenon
      <4>4. ls = Append(rs, r)
        BY <3>4
      <4> QED BY ONLY <4>3, <4>4
    <3> QED BY <2>6, <3>1, <3>4, <3>5
  <2>8. /\ sealed' \in Seq(Contents) /\ Len(sealed') = n + 1 /\ sealed'[n + 1] = c
        /\ \A k \in 1..n : sealed'[k] = sealed[k]
    BY <2>3, <2>4, <2>6, Appended
  <2>9. selected' = selected
    BY <1>1 DEF SealFile
  <2>10. \A k \in 1..(n + 1) :
           \E g \in Files : list'.records[k] = Record(FALSE, SealedElements(g, sealed'[k]))
    <3> TAKE k \in 1..(n + 1)
    <3>1. k \in 1..n \/ k = n + 1
      <4>1. n \in Nat
        BY <2>7
      <4> QED BY <4>1
    <3>2. CASE k \in 1..n
      BY <2>4, <2>6, <2>7, <2>8, <3>2 DEF Rec
    <3>3. CASE k = n + 1
      BY <2>3, <2>7, <2>8, <3>3
    <3> QED BY <3>1, <3>2, <3>3
  <2>11. \A g, d : SealedElements(g, d)' = SealedElements(g, d)
    BY <2>9 DEF SealedElements
  <2> QED BY <2>4, <2>7, <2>8, <2>10, <2>11 DEF SealInv, Rec
<1>2. CASE EndSeal
  <2>1. /\ pass = "seal" /\ pass' = "open" /\ UNCHANGED <<selected, sealed>>
        /\ list'.shape \in {"whole", "cut"} /\ list'.records = list.records
    BY <1>2 DEF EndSeal, TypeInv, Lists
  <2> QED BY <2>1 DEF SealInv, Rec, SealedElements
<1>3. CASE GivenList
  <2>1. pass = "seal" /\ pass' = "open" /\ sealed' = sealed /\ list.records = <<>>
    BY <1>3 DEF GivenList
  <2>2. sealed = <<>>
    BY <2>1 DEF SealInv
  <2> QED BY <2>1, <2>2 DEF SealInv
<1>4. CASE FileChanges
  <2>1. UNCHANGED <<pass, list, sealed, selected>>
    BY <1>4 DEF FileChanges
  <2> QED BY <2>1 DEF SealInv, Rec, SealedElements
<1>5. CASE Parser
  <2>1. pass # "seal" /\ pass' # "seal" /\ UNCHANGED <<list, sealed, selected>>
    BY <1>5 DEF Parser, OpenList, BeginRecord, NextElement, EndRecord, EndOfList, world,
                Finish, Crash
  <2> QED BY <2>1 DEF SealInv, Rec, SealedElements
<1>6. CASE UNCHANGED vars
  <2>1. UNCHANGED <<pass, list, sealed, selected>>
    BY <1>6 DEF vars, world
  <2> QED BY <2>1 DEF SealInv, Rec, SealedElements
<1> QED BY <1>1, <1>2, <1>3, <1>4, <1>5, <1>6 DEF Next, Stopped

LEMMA SealAlways == Spec => []SealInv
BY SealInit, SealStep, TypeAlways, PTL DEF Spec

\* The type whose sum decides in a sealed record.
SealedType == IF "sha1" \in selected THEN "sha1" ELSE Last(Kept(selected))

\* A sealed record is well-formed, and means the file and the content it was
\* made from.
LEMMA SealedRecord ==
  ASSUME selected \in Selections, NEW f \in Files, NEW c \in Contents, NEW r,
         r = Record(FALSE, SealedElements(f, c))
  PROVE  /\ ~r.ref /\ WellFormed(r) /\ FileOf(r) = f
         /\ r.elements[Deciding(r)] = Element(SealedType, <<SealedType, c>>)
         /\ SealedType \in Types
<1>1. PICK kept, es, m : kept = Kept(selected) /\ es = SealedElements(f, c) /\ m = Len(kept)
  OBVIOUS
<1>2. selected \in SUBSET Types /\ selected # {}
  BY ParseAssumption DEF ParseAssumption
<1>3. /\ kept \in Seq(selected) /\ m \in {1, 2}
      /\ "sha1" \in selected => kept[1] = "sha1"
  BY <1>1, <1>2, KeptShape
<1>4. \A k \in 1..m : kept[k] \in selected /\ kept[k] \in Types
  BY <1>1, <1>2, <1>3
<1>5. /\ es \in Seq(Elements) /\ Len(es) = 2 + m
      /\ es[1] = Element("file", f) /\ es[2] = Element("size", Fine)
      /\ \A k \in 1..m : es[k + 2] = Element(kept[k], <<kept[k], c>>)
  BY <1>1, SealedElementsAre
<1>6. r.elements = es /\ ~r.ref /\ r \in Records
  BY <1>1, <1>5 DEF Record, Records
<1>7. /\ Tag(r, 1) = "file" /\ Value(r, 1) = f /\ Tag(r, 2) = "size" /\ Value(r, 2) = Fine
      /\ \A k \in 1..m : Tag(r, k + 2) = kept[k] /\ Value(r, k + 2) = <<kept[k], c>>
  <2>1. r.elements[1] = [tag |-> "file", value |-> f]
    BY ONLY <1>5, <1>6 DEF Element
  <2>2. r.elements[2] = [tag |-> "size", value |-> Fine]
    BY ONLY <1>5, <1>6 DEF Element
  <2>3. ASSUME NEW k \in 1..m
        PROVE  Tag(r, k + 2) = kept[k] /\ Value(r, k + 2) = <<kept[k], c>>
    <3>1. r.elements[k + 2] = [tag |-> kept[k], value |-> <<kept[k], c>>]
      BY ONLY <1>5, <1>6, k \in 1..m DEF Element
    <3> QED BY ONLY <3>1 DEF Tag, Value
  <2>4. Tag(r, 1) = "file" /\ Value(r, 1) = f
    BY ONLY <2>1 DEF Tag, Value
  <2>5. Tag(r, 2) = "size" /\ Value(r, 2) = Fine
    BY ONLY <2>2 DEF Tag, Value
  <2> QED BY <2>3, <2>4, <2>5
<1>8. f # Bad /\ Fine # Bad /\ \A t \in Types : <<t, c>> # Bad
  <2>1. \A t \in Types : <<t, c>> \in SumOf(t)
    BY DEF SumOf
  <2> QED BY <2>1, SumsAreUsable, ParseAssumption DEF ParseAssumption
<1>9. PICK n : n = 2 + m
  OBVIOUS
<1>10. n \in {3, 4} /\ \A k \in 1..n : k = 1 \/ k = 2 \/ (k - 2 \in 1..m /\ k - 2 + 2 = k)
  BY <1>3, <1>9
<1>11. \A k \in 1..n : k # 1 /\ k # 2 => Tag(r, k) \in Types /\ Value(r, k) # Bad
                                           /\ Tag(r, k) = kept[k - 2]
  <2> TAKE k \in 1..n
  <2> HAVE k # 1 /\ k # 2
  <2>1. k - 2 \in 1..m /\ k - 2 + 2 = k
    BY <1>10
  <2>2. Tag(r, k - 2 + 2) = kept[k - 2] /\ Value(r, k - 2 + 2) = <<kept[k - 2], c>>
    BY <1>7, <2>1
  <2>3. kept[k - 2] \in Types
    BY <1>4, <2>1
  <2> QED BY <1>8, <2>1, <2>2, <2>3
<1>12. n = Len(r.elements)
  BY <1>5, <1>6, <1>9
<1>13. FileOf(r) = f
  <2>1. 1 \in 1..n /\ \A j \in (1 + 1)..n : j \in 1..n /\ j # 1
    BY <1>10
  <2>2. \A j \in (1 + 1)..n : Tag(r, j) # "file"
    <3> TAKE j \in (1 + 1)..n
    <3>1. CASE j = 2
      BY <1>7, <3>1
    <3>2. CASE j # 2
      BY <1>11, <2>1, <3>2, TheTypes
    <3> QED BY <3>1, <3>2
  <2>3. FileOf(r) = Value(r, 1)
    BY <1>6, <1>7, <1>12, <2>1, <2>2, FileIs
  <2> QED BY <1>7, <2>3
<1>14. IsSum(r, n) /\ NoSha(r, 2)
  <2>1. n \in 1..n /\ n # 1 /\ n # 2
    BY <1>10
  <2>2. IsSum(r, n)
    BY <1>11, <2>1 DEF IsSum, SumTags
  <2>3. \A j \in 1..2 : j = 1 \/ j = 2
    OBVIOUS
  <2>4. Tag(r, 1) # "sha1" /\ Tag(r, 2) # "sha1"
    BY <1>7
  <2> QED BY <2>2, <2>3, <2>4 DEF NoSha
<1>15. WellFormed(r)
  <2>1. 1 \in Places(r, {"file"}) /\ 2 \in Places(r, {"size"}) /\ n \in Places(r, SumTags)
    <3>1. 1 \in 1..n /\ 2 \in 1..n /\ n \in 1..n
      BY <1>10
    <3>2. \A tags : Places(r, tags) = {k \in 1..n : Tag(r, k) \in tags}
      BY <1>6, <1>12, PlacesAre
    <3>3. Tag(r, 1) = "file" /\ Tag(r, 2) = "size" /\ Tag(r, n) \in SumTags
      BY <1>7, <1>14 DEF IsSum
    <3> QED BY <3>1, <3>2, <3>3
  <2>2. \A k \in 1..n : Value(r, k) # Bad
    BY <1>7, <1>8, <1>11
  <2>3. \A tags : \A k \in Places(r, tags) : r.elements[k].value # Bad
    BY <1>6, <1>12, <2>2, PlacesAre DEF Value
  <2> QED BY <2>1, <2>3 DEF WellFormed
<1>16. PICK d \in 1..n : d > 2 /\ Decides(r, d, n) /\ kept[d - 2] = SealedType
  <2>1. CASE "sha1" \in selected
    <3>1. 3 \in 1..n /\ 3 - 1 = 2 /\ 3 - 2 = 1 /\ Tag(r, 3) = kept[1] /\ kept[1] = "sha1"
      <4>1. 3 \in 1..n /\ 3 - 1 = 2 /\ 3 - 2 = 1
        BY <1>10
      <4>2. PICK k : k = 3
        OBVIOUS
      <4>3. k \in 1..n /\ k # 1 /\ k # 2 /\ k - 2 = 1
        BY <4>1, <4>2
      <4>4. Tag(r, k) = kept[k - 2]
        BY ONLY <1>11, <4>3, Zenon
      <4> QED BY <1>3, <2>1, <4>1, <4>2, <4>3, <4>4
    <3>2. Decides(r, 3, n)
      BY <1>14, <3>1 DEF Decides
    <3>3. SealedType = "sha1" /\ kept[3 - 2] = "sha1" /\ 3 > 2
      BY <2>1, <3>1 DEF SealedType
    <3> QED BY <3>1, <3>2, <3>3
  <2>2. CASE "sha1" \notin selected
    <3>1. NoSha(r, n)
      <4>1. \A k \in 1..n : k # 1 /\ k # 2 => Tag(r, k) # "sha1"
        <5> TAKE k \in 1..n
        <5> HAVE k # 1 /\ k # 2
        <5>1. k - 2 \in 1..m
          BY <1>10
        <5>2. kept[k - 2] \in selected
          BY <1>4, <5>1
        <5> QED BY <1>11, <2>2, <5>2
      <4> QED BY <1>7, <4>1 DEF NoSha
    <3>2. (n + 1)..n = {} /\ n \in 1..n /\ n > 2 /\ n - 2 = m
      BY <1>3, <1>9, <1>10
    <3>3. Decides(r, n, n)
      BY <1>14, <3>1, <3>2 DEF Decides
    <3>4. Last(Kept(selected)) = kept[m]
      BY <1>1 DEF Last
    <3> QED BY <2>2, <3>2, <3>3, <3>4 DEF SealedType
  <2> QED BY <2>1, <2>2
<1>17. Deciding(r) = d
  BY <1>6, <1>12, <1>16, DecidingIs
<1>18. d - 2 \in 1..m /\ d - 2 + 2 = d
  BY <1>10, <1>16
<1>19. es[d] = Element(SealedType, <<SealedType, c>>)
  <2>1. es[d - 2 + 2] = Element(kept[d - 2], <<kept[d - 2], c>>)
    BY <1>5, <1>18
  <2> QED BY <1>16, <1>18, <2>1
<1>20. SealedType \in Types
  BY <1>4, <1>16, <1>18
<1> QED BY <1>6, <1>13, <1>15, <1>17, <1>19, <1>20

\* A list with its footer that 'mhl seal' has made is parsed, and what will be
\* compared with a file is a sum of the content it was first sealed with: the
\* sha1 if it was selected, otherwise the last one that was kept.  A list cut
\* off is refused.
THEOREM SealedListsCanBeVerified == Spec => []SealedListsAreVerifiable
<1>1. TypeInv /\ ParseInv /\ SealInv => SealedListsAreVerifiable
  <2> SUFFICES ASSUME TypeInv, ParseInv, SealInv, sealed # <<>>, pass \in {"exited", "crashed"}
               PROVE  IF list.shape # "whole" THEN result = "WRONG_MHL_FORMAT" /\ table = <<>>
                      ELSE /\ pass = "exited" /\ result = "OK"
                           /\ \A k \in DOMAIN sealed :
                                (\A j \in 1..(k - 1) :
                                   FileOf(list.records[j]) # FileOf(list.records[k])) =>
                                  /\ table[FileOf(list.records[k])].type = SealedType
                                  /\ table[FileOf(list.records[k])].sum = <<SealedType, sealed[k]>>
    BY DEF SealedListsAreVerifiable, SealedType
  <2>1. /\ list.shape \in {"whole", "cut"} /\ sealed \in Seq(Contents)
        /\ Len(sealed) = Len(list.records) /\ Len(list.records) \in Nat
        /\ \A k \in 1..Len(list.records) :
             \E f \in Files : Rec(k) = Record(FALSE, SealedElements(f, sealed[k]))
    BY ListShape DEF SealInv, TypeInv
  <2>2. \A k \in 1..Len(list.records) :
          /\ ~Rec(k).ref /\ WellFormed(Rec(k))
          /\ Rec(k).elements[Deciding(Rec(k))] = Element(SealedType, <<SealedType, sealed[k]>>)
          /\ SealedType \in Types
    <3> TAKE k \in 1..Len(list.records)
    <3>1. sealed[k] \in Contents /\ selected \in Selections
      BY <2>1 DEF TypeInv
    <3>2. PICK f \in Files : Rec(k) = Record(FALSE, SealedElements(f, sealed[k]))
      BY <2>1
    <3> QED BY <3>1, <3>2, SealedRecord
  <2>3. ~HasReference /\ ~HasMalformed
    BY <2>2 DEF HasReference, HasMalformed
  <2>4. CASE list.shape = "cut"
    BY <2>4 DEF ParseInv
  <2>5. CASE list.shape = "whole"
    <3>1. pass = "exited" /\ result = "OK" /\ TableOf(Len(list.records))
      BY <2>3, <2>5 DEF ParseInv
    <3>2. ASSUME NEW k \in DOMAIN sealed,
                 \A j \in 1..(k - 1) : FileOf(list.records[j]) # FileOf(list.records[k])
          PROVE  /\ table[FileOf(list.records[k])].type = SealedType
                 /\ table[FileOf(list.records[k])].sum = <<SealedType, sealed[k]>>
      <4>1. k \in 1..Len(list.records) /\ Rec(k) = list.records[k]
        BY <2>1 DEF Rec
      <4>2. PICK f : f = FileOf(Rec(k))
        OBVIOUS
      <4>3. f \in DOMAIN table
        BY <3>1, <4>1, <4>2 DEF TableOf
      <4>4. PICK i \in 1..Len(list.records) :
              /\ FileOf(Rec(i)) = f /\ \A j \in 1..(i - 1) : FileOf(Rec(j)) # f
              /\ Means(table[f], Rec(i))
        BY <3>1, <4>3 DEF TableOf
      <4>5. i = k
        <5>1. ~(i < k)
          BY <2>1, <3>2, <4>1, <4>2, <4>4 DEF Rec
        <5>2. ~(k < i)
          BY <2>1, <4>1, <4>2, <4>4
        <5> QED BY <2>1, <4>1, <4>4, <5>1, <5>2
      <4>6. /\ Means(table[f], Rec(k)) /\ SealedType \in Types
            /\ Rec(k).elements[Deciding(Rec(k))] = Element(SealedType, <<SealedType, sealed[k]>>)
        BY <2>2, <4>1, <4>4, <4>5
      <4>7. table[f].type = SealedType /\ table[f].sum = <<SealedType, sealed[k]>>
        BY <4>6, TheTypes DEF Means, Element
      <4> QED BY <4>1, <4>2, <4>7
    <3> QED BY <2>5, <3>1, <3>2
  <2> QED BY <2>1, <2>4, <2>5
<1> QED BY <1>1, TypeAlways, ParseAlways, SealAlways, PTL
=============================================================================
