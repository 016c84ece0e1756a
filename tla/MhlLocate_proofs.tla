-------------------------- MODULE MhlLocate_proofs --------------------------
(***************************************************************************)
(* Theorems about mhl verify looking for the list that has a record of a   *)
(* path, for every tree of folders, every set of arguments and any number  *)
(* of lists that come and go.                                              *)
(*                                                                         *)
(* The program computes with the text of a path ("." and ".." are items it *)
(* removes one by one) and the operating system walks the folders.  The    *)
(* first half of the module shows that, as long as the system gets         *)
(* anywhere, both are at the same folder after every item (AddedIsReached);*)
(* the second half is the inductive invariant of the search, of the keys   *)
(* of the records and of their lookup, and the theorems that follow.       *)
(***************************************************************************)
EXTENDS MhlLocate, SequenceTheorems, WellFoundedInduction, TLAPS

(***************************************************************************)
(* Sequences, item by item.                                                *)
(***************************************************************************)
\* What is true of 0, and of every number after one it is true of, is true up
\* to n.

LEMMA UpTo ==
  ASSUME NEW n \in Nat, NEW S, 0 \in S, \A i \in 1..n : i - 1 \in S => i \in S
  PROVE  0..n \subseteq S
<1> DEFINE R == {ss \in Nat \X Nat : ss[1] < ss[2]}
           T == {i \in 0..n : i \notin S}
<1>1. SUFFICES ASSUME T # {} PROVE FALSE
  OBVIOUS
<1>2. IsWellFoundedOn(R, Nat)
  BY NatLessThanWellFounded DEF OpToRel
<1>3. T \subseteq Nat
  OBVIOUS
<1>4. PICK m \in T : \A y \in T : ~(<<y, m>> \in R)
  <2> HIDE DEF R, T
  <2> QED BY <1>1, <1>2, <1>3, WFMin
<1>5. m # 0 /\ m \in 1..n
  BY <1>4
<1>6. m - 1 \in T
  BY <1>5, <1>4
<1>7. m - 1 < m /\ <<m - 1, m>> \in R
  BY <1>5
<1> QED BY <1>4, <1>6, <1>7

LEMMA Lengths == ASSUME NEW I, NEW p \in Seq(I) PROVE p = <<>> <=> Len(p) = 0
<1>1. ASSUME p = <<>> PROVE Len(p) = 0
  BY <1>1
<1>2. ASSUME Len(p) = 0 PROVE p = <<>>
  BY <1>2
<1> QED BY <1>1, <1>2

\* A recursion over a sequence defines a function.
IsFold(f, R, step, r, s) ==
  /\ f \in [0..Len(s) -> R] /\ f[0] = r
  /\ \A i \in 1..Len(s) : f[i] = step[f[i - 1]][s[i]]

LEMMA FoldExists ==
  ASSUME NEW R, NEW I, NEW step \in [R -> [I -> R]], NEW r \in R, NEW s \in Seq(I)
  PROVE  \E f : IsFold(f, R, step, r, s)
<1> DEFINE n == Len(s)
           Upto(k, f) == f = [i \in 0..k |-> IF i = 0 THEN r ELSE step[f[i - 1]][s[i]]]
           S == {k \in 0..n : \E f \in [0..k -> R] : Upto(k, f)}
<1>0. n \in Nat /\ \A i \in 1..n : s[i] \in I
  OBVIOUS
<1>1. 0 \in S
  <2> DEFINE f == [i \in 0..0 |-> r]
  <2>1. f \in [0..0 -> R] /\ Upto(0, f)
    OBVIOUS
  <2>2. 0 \in 0..n
    BY <1>0
  <2> QED
    <3> HIDE DEF f, Upto
    <3> QED BY <2>1, <2>2
<1>2. ASSUME NEW k \in 1..n, k - 1 \in S PROVE k \in S
  <2>1. PICK f \in [0..(k - 1) -> R] : Upto(k - 1, f)
    BY <1>2
  <2> DEFINE g == [i \in 0..k |-> IF i = k THEN step[f[k - 1]][s[k]] ELSE f[i]]
  <2>2. k - 1 \in 0..(k - 1) /\ f[k - 1] \in R /\ s[k] \in I
    BY <1>0
  <2>3. step[f[k - 1]][s[k]] \in R
    BY <2>2
  <2>4. g \in [0..k -> R]
    BY <2>3
  <2>5. ASSUME NEW i \in 0..k
        PROVE  g[i] = IF i = 0 THEN r ELSE step[g[i - 1]][s[i]]
    <3>1. CASE i = k
      <4>1. k - 1 \in 0..k /\ k - 1 # k /\ g[k - 1] = f[k - 1]
        OBVIOUS
      <4> QED BY <3>1, <4>1
    <3>2. CASE i # k
      <4>1. i \in 0..(k - 1)
        BY <3>2
      <4>2. g[i] = f[i]
        BY <3>2
      <4>3. f[i] = IF i = 0 THEN r ELSE step[f[i - 1]][s[i]]
        BY <4>1, <2>1
      <4>4. i # 0 => g[i - 1] = f[i - 1]
        BY <4>1
      <4> QED BY <4>2, <4>3, <4>4
    <3> QED BY <3>1, <3>2
  <2>6. Upto(k, g)
    BY <2>5
  <2> QED
    <3> HIDE DEF Upto, g
    <3> QED BY <2>4, <2>6
<1>3. n \in S
  <2> HIDE DEF S, n
  <2>1. 0..n \subseteq S
    BY <1>0, <1>1, <1>2, UpTo
  <2> QED BY <1>0, <2>1
<1>4. PICK f \in [0..n -> R] : Upto(n, f)
  BY <1>3
<1>5. 0 \in 0..n /\ \A i \in 1..n : i \in 0..n /\ i # 0
  BY <1>0
<1>6. f[0] = r /\ \A i \in 1..n : f[i] = step[f[i - 1]][s[i]]
  <2> HIDE DEF n
  <2> QED BY <1>4, <1>5
<1> QED BY <1>4, <1>6 DEF IsFold


\* The function a recursive definition chooses is one of them.
LEMMA FoldChosen ==
  ASSUME NEW R, NEW I, NEW step \in [R -> [I -> R]], NEW r \in R, NEW s \in Seq(I), NEW f,
         f = [i \in 0..Len(s) |-> IF i = 0 THEN r ELSE step[f[i - 1]][s[i]]]
  PROVE  IsFold(f, R, step, r, s)
<1> DEFINE n == Len(s)
           S == {i \in 0..n : f[i] \in R}
<1>1. n \in Nat /\ \A i \in 1..n : s[i] \in I /\ i \in 0..n /\ i - 1 \in 0..n /\ i # 0
  OBVIOUS
<1>2. f[0] = r /\ \A i \in 1..n : f[i] = step[f[i - 1]][s[i]]
  <2>1. 0 \in 0..n
    BY <1>1
  <2>2. \A i \in 0..n : f[i] = IF i = 0 THEN r ELSE step[f[i - 1]][s[i]]
    OBVIOUS
  <2> QED BY ONLY <1>1, <2>1, <2>2
<1>3. ASSUME NEW i \in 1..n, i - 1 \in S PROVE i \in S
  <2>1. f[i - 1] \in R /\ s[i] \in I
    BY <1>1, <1>3
  <2>2. step[f[i - 1]][s[i]] \in R
    BY ONLY <2>1, step \in [R -> [I -> R]]
  <2> QED BY <1>1, <1>2, <2>2
<1>4. 0 \in S
  BY <1>1, <1>2
<1>5. 0..n \subseteq S
  <2> HIDE DEF S, n
  <2> QED BY <1>1, <1>3, <1>4, UpTo
<1>6. \A i \in 0..n : f[i] \in R
  BY ONLY <1>5
<1>7. f \in [0..n -> R]
  BY <1>6
<1> QED BY <1>2, <1>7 DEF IsFold

LEMMA FoldAppend ==
  ASSUME NEW R, NEW I, NEW step, NEW r, NEW s \in Seq(I), NEW x \in I, NEW f, NEW g,
         IsFold(f, R, step, r, s), IsFold(g, R, step, r, Append(s, x))
  PROVE  g[Len(s) + 1] = step[f[Len(s)]][x] /\ f[Len(s)] \in R
<1> DEFINE n == Len(s)
           t == Append(s, x)
           S == {i \in 0..n : g[i] = f[i]}
<1>1. n \in Nat /\ Len(t) = n + 1 /\ t[n + 1] = x /\ \A i \in 1..n : t[i] = s[i]
  OBVIOUS
<1>2. \A i \in 1..n : f[i] = step[f[i - 1]][s[i]] /\ i \in 1..(n + 1)
  BY <1>1 DEF IsFold
<1>3. \A i \in 1..(n + 1) : g[i] = step[g[i - 1]][t[i]]
  <2> HIDE DEF t, n
  <2> QED BY <1>1 DEF IsFold, t
<1> HIDE DEF t, n
<1>4. 0 \in S
  BY <1>1 DEF IsFold
<1>5. ASSUME NEW i \in 1..n, i - 1 \in S PROVE i \in S
  <2>1. i \in 0..n /\ i - 1 \in 0..n /\ g[i - 1] = f[i - 1] /\ t[i] = s[i]
    BY <1>1, <1>5
  <2>2. g[i] = step[g[i - 1]][t[i]] /\ f[i] = step[f[i - 1]][s[i]]
    BY <1>1, <1>2, <1>3
  <2> QED BY ONLY <2>1, <2>2
<1>6. 0..n \subseteq S
  <2> HIDE DEF S
  <2> QED BY <1>1, <1>4, <1>5, UpTo
<1>7. g[n] = f[n] /\ n \in 0..n /\ n + 1 \in 1..(n + 1) /\ (n + 1) - 1 = n
  BY <1>1, <1>6
<1> QED BY <1>1, <1>3, <1>7 DEF IsFold, n

\* What holds of the empty sequence, and still holds when an item is added,
\* holds of every sequence.
LEMMA ItemByItem ==
  ASSUME NEW I, NEW S, <<>> \in S, \A s \in Seq(I), x \in I : s \in S => Append(s, x) \in S
  PROVE  Seq(I) \subseteq S
<1> SUFFICES ASSUME NEW s \in Seq(I) PROVE s \in S
  OBVIOUS
<1> DEFINE n == Len(s)
           T == {i \in 0..n : SubSeq(s, 1, i) \in S}
<1>1. n \in Nat /\ SubSeq(s, 1, n) = s /\ SubSeq(s, 1, 0) = <<>>
  OBVIOUS
<1>2. ASSUME NEW i \in 1..n, i - 1 \in T PROVE i \in T
  <2>1. SubSeq(s, 1, i - 1) \in Seq(I) /\ s[i] \in I
    OBVIOUS
  <2>2. SubSeq(s, 1, i) = Append(SubSeq(s, 1, i - 1), s[i])
    OBVIOUS
  <2>3. SubSeq(s, 1, i - 1) \in S
    BY ONLY <1>2
  <2>4. SubSeq(s, 1, i) \in S
    <3> HIDE DEF n, T
    <3> QED BY <2>1, <2>2, <2>3
  <2>5. i \in 0..n
    BY <1>1
  <2> QED BY ONLY <2>4, <2>5
<1>3. 0..n \subseteq T
  <2>1. 0 \in T
    <3>1. 0 \in 0..n
      BY <1>1
    <3> QED BY ONLY <1>1, <3>1, <<>> \in S
  <2> HIDE DEF T, n
  <2> QED BY <1>1, <1>2, <2>1, UpTo
<1>4. n \in T
  <2> HIDE DEF T, n
  <2> QED BY <1>1, <1>3
<1> QED BY ONLY <1>1, <1>4

(***************************************************************************)
(* The functions on paths, item by item.                                   *)
(***************************************************************************)
LEMMA KeepItemIs ==
  /\ KeepItem \in [Seq(Items) -> [Items -> Seq(Items)]]
  /\ \A s \in Seq(Items), x \in Items :
       KeepItem[s][x] = IF x = "" THEN s ELSE Append(s, x)
<1>1. ASSUME NEW s \in Seq(Items), NEW x \in Items
      PROVE  (IF x = "" THEN s ELSE Append(s, x)) \in Seq(Items)
  <2>1. Append(s, x) \in Seq(Items)
    OBVIOUS
  <2> QED BY ONLY <2>1
<1>2. KeepItem = [s \in Seq(Items) |-> [x \in Items |-> IF x = "" THEN s ELSE Append(s, x)]]
  BY DEF KeepItem
<1> QED BY ONLY <1>1, <1>2

Kept(s) == InitFsPath(Rel(s)).items

LEMMA KeptFold ==
  ASSUME NEW s \in Seq(Items)
  PROVE  \E f : IsFold(f, Seq(Items), KeepItem, <<>>, s) /\ Kept(s) = f[Len(s)]
<1> DEFINE P(g) == g = [i \in 0..Len(s) |-> IF i = 0 THEN <<>> ELSE KeepItem[g[i - 1]][s[i]]]
           h == CHOOSE g : P(g)
<1>1. <<>> \in Seq(Items) /\ Len(s) \in Nat
  OBVIOUS
<1>2. PICK f : IsFold(f, Seq(Items), KeepItem, <<>>, s)
  BY <1>1, KeepItemIs, FoldExists
<1>3. P(f)
  BY <1>1, <1>2 DEF IsFold
<1>4. P(h)
  <2> HIDE DEF P
  <2> QED BY <1>3
<1>5. Kept(s) = h[Len(s)]
  BY DEF Kept, InitFsPath, Rel, WithItems
<1>6. IsFold(h, Seq(Items), KeepItem, <<>>, s)
  <2> HIDE DEF h
  <2> QED BY <1>1, <1>4, KeepItemIs, FoldChosen
<1> QED
  <2> HIDE DEF h
  <2> QED BY <1>5, <1>6

LEMMA KeptEmpty == Kept(<<>>) = <<>>
<1>1. <<>> \in Seq(Items) /\ Len(<<>>) = 0
  OBVIOUS
<1> QED BY <1>1, KeptFold DEF IsFold

LEMMA KeptAppend ==
  ASSUME NEW s \in Seq(Items), NEW x \in Items
  PROVE  /\ Kept(s) \in Seq(Items)
         /\ Kept(Append(s, x)) = IF x = "" THEN Kept(s) ELSE Append(Kept(s), x)
<1>1. PICK f : IsFold(f, Seq(Items), KeepItem, <<>>, s) /\ Kept(s) = f[Len(s)]
  BY KeptFold
<1>2. Append(s, x) \in Seq(Items) /\ Len(Append(s, x)) = Len(s) + 1
  OBVIOUS
<1>3. PICK g : IsFold(g, Seq(Items), KeepItem, <<>>, Append(s, x))
               /\ Kept(Append(s, x)) = g[Len(s) + 1]
  BY <1>2, KeptFold
<1>4. g[Len(s) + 1] = KeepItem[f[Len(s)]][x] /\ f[Len(s)] \in Seq(Items)
  BY <1>1, <1>3, FoldAppend
<1> QED BY <1>1, <1>3, <1>4, KeepItemIs

(***************************************************************************)
(* add_normalized, item by item.                                           *)
(***************************************************************************)
LEMMA RemoveLastIs ==
  ASSUME NEW p \in Paths
  PROVE  /\ RemoveLast(p) \in Results
         /\ p.items = <<>> => RemoveLast(p) = Bad("WRONG_FILE_LOCATION")
         /\ p.items # <<>> => RemoveLast(p) = Good(WithItems(p, Front(p.items)))
         /\ p.items # <<>> => Front(p.items) \in Seq(Items)
  BY DEF RemoveLast, WithItems, Paths, Results, Good, Bad, Front, NoPath, Rel

LEMMA AddItemIs ==
  /\ AddItem \in [Results -> [Items -> Results]]
  /\ \A r \in Results, x \in Items :
       AddItem[r][x] = IF r.res # "OK" \/ x \in {"", "."} THEN r
         ELSE IF x = ".." THEN RemoveLast(r.path)
         ELSE Good(WithItems(r.path, Append(r.path.items, x)))
<1> DEFINE Added(r, x) == IF r.res # "OK" \/ x \in {"", "."} THEN r
         ELSE IF x = ".." THEN RemoveLast(r.path)
         ELSE Good(WithItems(r.path, Append(r.path.items, x)))
<1>1. ASSUME NEW r \in Results, NEW x \in Items PROVE Added(r, x) \in Results
  <2>1. r.path \in Paths /\ r.path.items \in Seq(Items) /\ r.path.abs \in BOOLEAN
    BY DEF Results, Paths
  <2>2. RemoveLast(r.path) \in Results
    BY <2>1, RemoveLastIs
  <2>3. Append(r.path.items, x) \in Seq(Items)
    BY <2>1
  <2>4. Good(WithItems(r.path, Append(r.path.items, x))) \in Results
    BY <2>1, <2>3 DEF Good, WithItems, Results, Paths
  <2> QED BY <2>2, <2>4
<1>2. AddItem = [r \in Results |-> [x \in Items |-> Added(r, x)]]
  BY DEF AddItem
<1> HIDE DEF Added
<1>3. AddItem \in [Results -> [Items -> Results]]
      /\ \A r \in Results, x \in Items : AddItem[r][x] = Added(r, x)
  BY ONLY <1>1, <1>2
<1> QED BY <1>3 DEF Added

LEMMA AddItemType ==
  ASSUME NEW r \in Results, NEW x \in Items
  PROVE  AddItem[r][x] \in Results /\ r.path \in Paths
<1>1. AddItem \in [Results -> [Items -> Results]]
  BY AddItemIs
<1> QED BY ONLY <1>1, r \in Results, x \in Items DEF Results

LEMMA AddItemKeeps ==
  ASSUME NEW r \in Results, NEW x \in Items, r.res # "OK" \/ x \in {"", "."}
  PROVE  AddItem[r][x] = r
  BY AddItemIs

LEMMA AddItemRemoves ==
  ASSUME NEW r \in Results, NEW x \in Items, r.res = "OK", x = ".."
  PROVE  AddItem[r][x] = RemoveLast(r.path)
  BY AddItemIs

LEMMA AddItemAdds ==
  ASSUME NEW r \in Results, NEW x \in Names, r.res = "OK"
  PROVE  AddItem[r][x] = Good(WithItems(r.path, Append(r.path.items, x)))
<1>1. x \in Items /\ x \notin {"", ".", ".."}
  BY NamesAssumption DEF Items
<1> QED BY <1>1, AddItemIs

Added(dst, s) == AddNormalized(dst, Rel(s))

LEMMA AddedFold ==
  ASSUME NEW dst \in Paths, NEW s \in Seq(Items)
  PROVE  \E f : IsFold(f, Results, AddItem, Good(dst), s) /\ Added(dst, s) = f[Len(s)]
<1> DEFINE P(g) == g = [i \in 0..Len(s) |-> IF i = 0 THEN Good(dst) ELSE AddItem[g[i - 1]][s[i]]]
           h == CHOOSE g : P(g)
<1>1. Good(dst) \in Results /\ Len(s) \in Nat
  BY DEF Good, Results
<1>2. PICK f : IsFold(f, Results, AddItem, Good(dst), s)
  BY <1>1, AddItemIs, FoldExists
<1>3. P(f)
  BY <1>1, <1>2 DEF IsFold
<1>4. P(h)
  <2> HIDE DEF P
  <2> QED BY <1>3
<1>5. Added(dst, s) = h[Len(s)]
  BY DEF Added, AddNormalized, Rel
<1>6. IsFold(h, Results, AddItem, Good(dst), s)
  <2> HIDE DEF h
  <2> QED BY <1>1, <1>4, AddItemIs, FoldChosen
<1> QED
  <2> HIDE DEF h
  <2> QED BY <1>5, <1>6

LEMMA AddedEmpty == ASSUME NEW dst \in Paths PROVE Added(dst, <<>>) = Good(dst)
<1>1. <<>> \in Seq(Items) /\ Len(<<>>) = 0
  OBVIOUS
<1> QED BY <1>1, AddedFold DEF IsFold

LEMMA AddedAppend ==
  ASSUME NEW dst \in Paths, NEW s \in Seq(Items), NEW x \in Items
  PROVE  /\ Added(dst, s) \in Results
         /\ Added(dst, Append(s, x)) = AddItem[Added(dst, s)][x]
<1>1. PICK f : IsFold(f, Results, AddItem, Good(dst), s) /\ Added(dst, s) = f[Len(s)]
  BY AddedFold
<1>2. Append(s, x) \in Seq(Items) /\ Len(Append(s, x)) = Len(s) + 1
  OBVIOUS
<1>3. PICK g : IsFold(g, Results, AddItem, Good(dst), Append(s, x))
               /\ Added(dst, Append(s, x)) = g[Len(s) + 1]
  BY <1>2, AddedFold
<1>4. g[Len(s) + 1] = AddItem[f[Len(s)]][x] /\ f[Len(s)] \in Results
  BY <1>1, <1>3, FoldAppend
<1> QED BY <1>1, <1>3, <1>4

(***************************************************************************)
(* The path resolution of the operating system, item by item.              *)
(***************************************************************************)
LEMMA EnterIs ==
  /\ Enter \in [Seq(Items) -> [Items -> Seq(Items)]]
  /\ \A place \in Seq(Items), x \in Items :
       Enter[place][x] = IF place \notin Folders THEN Nowhere
         ELSE IF x \in {"", "."} \/ (x = ".." /\ place = <<>>) THEN place
         ELSE IF x = ".." THEN Front(place)
         ELSE Append(place, x)
<1> DEFINE Entered(place, x) ==
             IF place \notin Folders THEN Nowhere
         ELSE IF x \in {"", "."} \/ (x = ".." /\ place = <<>>) THEN place
         ELSE IF x = ".." THEN Front(place)
         ELSE Append(place, x)
<1>1. ASSUME NEW place \in Seq(Items), NEW x \in Items PROVE Entered(place, x) \in Seq(Items)
  <2>1. Append(place, x) \in Seq(Items)
    OBVIOUS
  <2>2. place # <<>> => Front(place) \in Seq(Items)
    BY DEF Front
  <2>3. "" \in Items
    BY DEF Items
  <2>4. Nowhere \in Seq(Items)
    <3>1. \A e \in Items : <<e>> \in Seq(Items)
      OBVIOUS
    <3>2. <<"">> \in Seq(Items)
      BY <2>3, <3>1, Zenon
    <3> QED BY <3>2 DEF Nowhere
  <2> QED BY <2>1, <2>2, <2>4
<1>2. Enter = [place \in Seq(Items) |-> [x \in Items |-> Entered(place, x)]]
  BY DEF Enter
<1> HIDE DEF Entered
<1>3. Enter \in [Seq(Items) -> [Items -> Seq(Items)]]
      /\ \A place \in Seq(Items), x \in Items : Enter[place][x] = Entered(place, x)
  BY ONLY <1>1, <1>2
<1> QED BY <1>3 DEF Entered

LEMMA ReachedFold ==
  ASSUME NEW start \in Seq(Items), NEW s \in Seq(Items)
  PROVE  \E f : IsFold(f, Seq(Items), Enter, start, s) /\ Reached(start, s) = f[Len(s)]
<1> DEFINE P(g) == g = [i \in 0..Len(s) |-> IF i = 0 THEN start ELSE Enter[g[i - 1]][s[i]]]
           h == CHOOSE g : P(g)
<1>1. Len(s) \in Nat
  OBVIOUS
<1>2. PICK f : IsFold(f, Seq(Items), Enter, start, s)
  BY EnterIs, FoldExists
<1>3. P(f)
  BY <1>1, <1>2 DEF IsFold
<1>4. P(h)
  <2> HIDE DEF P
  <2> QED BY <1>3
<1>5. Reached(start, s) = h[Len(s)]
  BY DEF Reached
<1>6. IsFold(h, Seq(Items), Enter, start, s)
  <2> HIDE DEF h
  <2> QED BY <1>4, EnterIs, FoldChosen
<1> QED
  <2> HIDE DEF h
  <2> QED BY <1>5, <1>6

LEMMA ReachedEmpty == ASSUME NEW start \in Seq(Items) PROVE Reached(start, <<>>) = start
<1>1. <<>> \in Seq(Items) /\ Len(<<>>) = 0
  OBVIOUS
<1> QED BY <1>1, ReachedFold DEF IsFold

LEMMA ReachedAppend ==
  ASSUME NEW start \in Seq(Items), NEW s \in Seq(Items), NEW x \in Items
  PROVE  /\ Reached(start, s) \in Seq(Items)
         /\ Reached(start, Append(s, x)) = Enter[Reached(start, s)][x]
<1>1. PICK f : IsFold(f, Seq(Items), Enter, start, s) /\ Reached(start, s) = f[Len(s)]
  BY ReachedFold
<1>2. Append(s, x) \in Seq(Items) /\ Len(Append(s, x)) = Len(s) + 1
  OBVIOUS
<1>3. PICK g : IsFold(g, Seq(Items), Enter, start, Append(s, x))
               /\ Reached(start, Append(s, x)) = g[Len(s) + 1]
  BY <1>2, ReachedFold
<1>4. g[Len(s) + 1] = Enter[f[Len(s)]][x] /\ f[Len(s)] \in Seq(Items)
  BY <1>1, <1>3, FoldAppend
<1> QED BY <1>1, <1>3, <1>4

(***************************************************************************)
(* What the functions on paths return.                                     *)
(***************************************************************************)
LEMMA NamesAreItems ==
  /\ Names \subseteq Items /\ Seq(Names) \subseteq Seq(Items)
  /\ \A x \in Names : x \notin {"", ".", ".."}
<1>1. Names \subseteq Items
  BY DEF Items
<1>2. ASSUME NEW s \in Seq(Names) PROVE s \in Seq(Items)
  BY <1>1
<1> QED BY <1>1, <1>2, NamesAssumption

LEMMA Concats ==
  ASSUME NEW I, NEW s \in Seq(I), NEW t \in Seq(I)
  PROVE  s \o t \in Seq(I) /\ s \o <<>> = s /\ <<>> \o s = s
  OBVIOUS

LEMMA ConcatAppend ==
  ASSUME NEW I, NEW s \in Seq(I), NEW t \in Seq(I), NEW x \in I
  PROVE  s \o Append(t, x) = Append(s \o t, x)
  OBVIOUS

LEMMA FrontAppend ==
  ASSUME NEW I, NEW s \in Seq(I), NEW x \in I
  PROVE  Front(Append(s, x)) = s
  BY DEF Front

\* A path written with names only is split up at every separator, and what
\* precedes it does not matter.
LEMMA KeptNames ==
  ASSUME NEW s \in Seq(Items), NEW t \in Seq(Names)
  PROVE  /\ Kept(s) \in Seq(Items)
         /\ Kept(s \o t) = Kept(s) \o t
<1> DEFINE S == {u \in Seq(Names) : Kept(s \o u) = Kept(s) \o u}
<1>1. PICK x : x \in Items
  BY DEF Items
<1>2. Kept(s) \in Seq(Items)
  BY <1>1, KeptAppend
<1>3. <<>> \in S
  <2>1. s \o <<>> = s /\ Kept(s) \o <<>> = Kept(s) /\ <<>> \in Seq(Names)
    BY <1>2, Concats
  <2> QED BY <2>1
<1>4. ASSUME NEW u \in Seq(Names), NEW n \in Names, u \in S PROVE Append(u, n) \in S
  <2>1. u \in Seq(Items) /\ n \in Items
    BY NamesAreItems
  <2>2. s \o u \in Seq(Items) /\ s \o Append(u, n) = Append(s \o u, n)
    BY <2>1, Concats, ConcatAppend
  <2>3. Kept(s) \o Append(u, n) = Append(Kept(s) \o u, n)
    BY <1>2, <2>1, ConcatAppend
  <2>4. Kept(Append(s \o u, n)) = Append(Kept(s \o u), n)
    BY <2>1, <2>2, KeptAppend, NamesAreItems
  <2>5. Append(u, n) \in Seq(Names)
    OBVIOUS
  <2> QED BY ONLY <1>4, <2>2, <2>3, <2>4, <2>5
<1>5. t \in S
  <2> HIDE DEF S
  <2> QED BY <1>3, <1>4, ItemByItem
<1> QED BY <1>2, <1>5

LEMMA InitIs ==
  ASSUME NEW p \in Paths
  PROVE  /\ InitFsPath(p) = WithItems(p, Kept(p.items))
         /\ InitFsPath(p) \in Paths
         /\ InitFsPath(p).items = Kept(p.items) /\ InitFsPath(p).abs = p.abs
         /\ Kept(p.items) \in Seq(Items) /\ p.items \in Seq(Items) /\ p.abs \in BOOLEAN
<1>1. p.items \in Seq(Items) /\ p.abs \in BOOLEAN
  BY DEF Paths
<1>2. Kept(p.items) \in Seq(Items)
  <2>1. <<>> \in Seq(Names)
    OBVIOUS
  <2> QED BY <1>1, <2>1, KeptNames
<1>3. InitFsPath(p) = WithItems(p, Kept(p.items))
  BY DEF InitFsPath, Kept, Rel, WithItems
<1> QED BY <1>1, <1>2, <1>3 DEF WithItems, Paths

LEMMA AddIs == ASSUME NEW dst, NEW src PROVE AddNormalized(dst, src) = Added(dst, src.items)
  BY DEF AddNormalized, Added, Rel

\* What add_normalized returns: it fails in one way only, and a destination
\* without dots stays without.
GoodOf(dst, r) ==
  /\ r \in Results
  /\ r.res = "OK" \/ r = Bad("WRONG_FILE_LOCATION")
  /\ r.res = "OK" => r.path.abs = dst.abs
  /\ r.res = "OK" /\ dst.items \in Seq(Names) => r.path.items \in Seq(Names)

LEMMA GoodPath ==
  ASSUME NEW dst \in Paths, NEW q \in Paths, q.abs = dst.abs,
         dst.items \in Seq(Names) => q.items \in Seq(Names)
  PROVE  GoodOf(dst, Good(q))
  BY DEF GoodOf, Good, Results

LEMMA BadPath == ASSUME NEW dst \in Paths PROVE GoodOf(dst, Bad("WRONG_FILE_LOCATION"))
  BY DEF GoodOf, Bad, Results, NoPath, Rel, Paths

LEMMA AddedType ==
  ASSUME NEW dst \in Paths, NEW s \in Seq(Items)
  PROVE  GoodOf(dst, Added(dst, s))
<1> DEFINE S == {u \in Seq(Items) : GoodOf(dst, Added(dst, u))}
<1>1. <<>> \in S
  <2>1. <<>> \in Seq(Items) /\ Added(dst, <<>>) = Good(dst)
    BY AddedEmpty
  <2>2. GoodOf(dst, Good(dst))
    BY DEF GoodOf, Good, Results
  <2> QED BY <2>1, <2>2
<1>2. ASSUME NEW u \in Seq(Items), NEW x \in Items, u \in S PROVE Append(u, x) \in S
  <2> DEFINE r == Added(dst, u)
  <2>1. r \in Results /\ Added(dst, Append(u, x)) = AddItem[r][x]
    BY AddedAppend
  <2>2. GoodOf(dst, r)
    BY <1>2
  <2>3. r.path \in Paths /\ r.path.items \in Seq(Items)
    BY <2>1 DEF Results, Paths
  <2>4. AddItem[r][x] \in Results
    BY <2>1, AddItemType
  <2> HIDE DEF r
  <2>5. ASSUME r.res # "OK" \/ x \in {"", "."} PROVE GoodOf(dst, AddItem[r][x])
    <3>1. AddItem[r][x] = r
      BY <2>1, <2>5, AddItemKeeps
    <3> QED BY ONLY <2>2, <3>1
  <2>6. ASSUME r.res = "OK", x = ".." PROVE GoodOf(dst, AddItem[r][x])
    <3>1. AddItem[r][x] = RemoveLast(r.path)
      BY <2>1, <2>6, AddItemRemoves
    <3>2. CASE r.path.items = <<>>
      <4>1. RemoveLast(r.path) = Bad("WRONG_FILE_LOCATION")
        BY <2>3, <3>2, RemoveLastIs
      <4>2. GoodOf(dst, Bad("WRONG_FILE_LOCATION"))
        BY BadPath
      <4> QED BY ONLY <3>1, <4>1, <4>2
    <3>3. CASE r.path.items # <<>>
      <4>1. RemoveLast(r.path) = Good(WithItems(r.path, Front(r.path.items)))
        BY <2>3, <3>3, RemoveLastIs
      <4>2. r.path.items \in Seq(Names) => Front(r.path.items) \in Seq(Names)
        BY <3>3 DEF Front
      <4>3. r.path.abs = dst.abs /\ (dst.items \in Seq(Names) => r.path.items \in Seq(Names))
        BY <2>2, <2>6 DEF GoodOf
      <4> DEFINE q == WithItems(r.path, Front(r.path.items))
      <4>4. q \in Paths /\ q.abs = dst.abs /\ (dst.items \in Seq(Names) => q.items \in Seq(Names))
        <5>1. Front(r.path.items) \in Seq(Items) /\ r.path.abs \in BOOLEAN
          BY <2>3, <3>3, RemoveLastIs DEF Paths
        <5> QED BY ONLY <4>2, <4>3, <5>1 DEF Paths, WithItems
      <4>5. GoodOf(dst, Good(q))
        <5> HIDE DEF q
        <5> QED BY <4>4, GoodPath
      <4> QED BY ONLY <3>1, <4>1, <4>5
    <3> QED BY <3>2, <3>3
  <2>7. ASSUME r.res = "OK", x \in Names PROVE GoodOf(dst, AddItem[r][x])
    <3>1. AddItem[r][x] = Good(WithItems(r.path, Append(r.path.items, x)))
      BY <2>1, <2>7, AddItemAdds
    <3>2. r.path.items \in Seq(Names) => Append(r.path.items, x) \in Seq(Names)
      BY ONLY <2>7
    <3>3. r.path.abs = dst.abs /\ (dst.items \in Seq(Names) => r.path.items \in Seq(Names))
      BY <2>2, <2>7 DEF GoodOf
    <3> DEFINE q == WithItems(r.path, Append(r.path.items, x))
    <3>4. q \in Paths /\ q.abs = dst.abs /\ (dst.items \in Seq(Names) => q.items \in Seq(Names))
      <4>1. Append(r.path.items, x) \in Seq(Items) /\ r.path.abs \in BOOLEAN
        BY <2>3 DEF Paths
      <4> QED BY ONLY <3>2, <3>3, <4>1 DEF Paths, WithItems
    <3>5. GoodOf(dst, Good(q))
      <4> HIDE DEF q
      <4> QED BY <3>4, GoodPath
    <3> QED BY ONLY <3>1, <3>5
  <2>9. GoodOf(dst, AddItem[r][x])
    <3>1. x \in {"", "."} \/ x = ".." \/ x \in Names
      BY DEF Items
    <3> QED BY ONLY <3>1, <2>5, <2>6, <2>7
  <2>10. Append(u, x) \in Seq(Items)
    OBVIOUS
  <2> QED BY <2>1, <2>9, <2>10
<1> QED
  <2> HIDE DEF S
  <2>1. s \in S
    BY <1>1, <1>2, ItemByItem
  <2> QED BY <2>1 DEF S

\* Splitting a path up before it is added makes no difference.
LEMMA AddedKept ==
  ASSUME NEW dst \in Paths, NEW s \in Seq(Items)
  PROVE  Added(dst, Kept(s)) = Added(dst, s)
<1> DEFINE S == {u \in Seq(Items) : Added(dst, Kept(u)) = Added(dst, u)}
<1>1. <<>> \in S
  BY KeptEmpty
<1>2. ASSUME NEW u \in Seq(Items), NEW x \in Items, u \in S PROVE Append(u, x) \in S
  <2>1. Added(dst, u) \in Results /\ Added(dst, Append(u, x)) = AddItem[Added(dst, u)][x]
    BY AddedAppend
  <2>2. Kept(u) \in Seq(Items)
    BY KeptAppend
  <2>3. Added(dst, Append(Kept(u), x)) = AddItem[Added(dst, Kept(u))][x]
    BY <2>2, AddedAppend
  <2>4. Added(dst, Kept(u)) = Added(dst, u)
    BY <1>2
  <2>7. Append(u, x) \in Seq(Items)
    OBVIOUS
  <2>5. CASE x = ""
    <3>1. Kept(Append(u, x)) = Kept(u)
      BY <2>5, KeptAppend
    <3>2. AddItem[Added(dst, u)][x] = Added(dst, u)
      BY <2>1, <2>5, AddItemKeeps
    <3>3. Added(dst, Kept(Append(u, x))) = Added(dst, Append(u, x))
      BY ONLY <2>1, <2>4, <3>1, <3>2
    <3> QED BY ONLY <2>7, <3>3
  <2>6. CASE x # ""
    <3>1. Kept(Append(u, x)) = Append(Kept(u), x)
      BY <2>6, KeptAppend
    <3>2. Added(dst, Kept(Append(u, x))) = Added(dst, Append(u, x))
      BY ONLY <2>1, <2>3, <2>4, <3>1
    <3> QED BY ONLY <2>7, <3>2
  <2> QED BY <2>5, <2>6
<1> QED
  <2> HIDE DEF S
  <2>1. s \in S
    BY <1>1, <1>2, ItemByItem
  <2> QED BY <2>1 DEF S

\* Names are added as they are.
LEMMA AddedNames ==
  ASSUME NEW dst \in Paths, NEW s \in Seq(Items), NEW t \in Seq(Names)
  PROVE  /\ Added(dst, s).res = "OK" =>
              Added(dst, s \o t) =
                Good(WithItems(Added(dst, s).path, Added(dst, s).path.items \o t))
         /\ Added(dst, s).res # "OK" => Added(dst, s \o t) = Added(dst, s)
<1> DEFINE r == Added(dst, s)
           After(u) == IF r.res = "OK" THEN Good(WithItems(r.path, r.path.items \o u)) ELSE r
           S == {u \in Seq(Names) : Added(dst, s \o u) = After(u)}
<1>1. r \in Results
  BY AddedType DEF GoodOf
<1>2. r.path.items \in Seq(Items) /\ r = [res |-> r.res, path |-> r.path]
      /\ r.path = WithItems(r.path, r.path.items)
  BY <1>1 DEF Results, Paths, WithItems
<1>3. <<>> \in S
  <2>1. s \o <<>> = s /\ r.path.items \o <<>> = r.path.items /\ <<>> \in Seq(Names)
    BY <1>2, Concats
  <2>2. r.res = "OK" => r = Good(r.path)
    BY ONLY <1>2 DEF Good
  <2>3. After(<<>>) = r
    <3> HIDE DEF r
    <3> QED BY ONLY <1>2, <2>1, <2>2
  <2> QED BY ONLY <2>1, <2>3
<1>4. ASSUME NEW u \in Seq(Names), NEW n \in Names, u \in S PROVE Append(u, n) \in S
  <2>1. u \in Seq(Items) /\ n \in Items
    BY NamesAreItems
  <2>2. s \o u \in Seq(Items) /\ s \o Append(u, n) = Append(s \o u, n)
    BY <2>1, Concats, ConcatAppend
  <2>3. r.path.items \o Append(u, n) = Append(r.path.items \o u, n)
    <3>1. r.path.items \in Seq(Items)
      BY ONLY <1>2
    <3> DEFINE w == r.path.items
    <3> HIDE DEF w
    <3>2. w \in Seq(Items)
      BY ONLY <3>1 DEF w
    <3>3. w \o Append(u, n) = Append(w \o u, n)
      BY ONLY <3>2, <2>1
    <3> QED BY ONLY <3>3 DEF w
  <2>4. Append(u, n) \in Seq(Names)
    OBVIOUS
  <2>5. After(u) \in Results /\ Added(dst, Append(s \o u, n)) = AddItem[After(u)][n]
    <3>1. Added(dst, s \o u) \in Results
          /\ Added(dst, Append(s \o u, n)) = AddItem[Added(dst, s \o u)][n]
      BY <2>1, <2>2, AddedAppend
    <3>2. Added(dst, s \o u) = After(u)
      BY ONLY <1>4
    <3> HIDE DEF After
    <3> QED BY ONLY <3>1, <3>2
  <2>6. AddItem[After(u)][n] = After(Append(u, n))
    <3>1. CASE r.res = "OK"
      <4> DEFINE q == WithItems(r.path, r.path.items \o u)
      <4>1. After(u) = Good(q)
        BY ONLY <3>1
      <4>2. Good(q) \in Results /\ Good(q).res = "OK" /\ Good(q).path = q
        BY ONLY <2>5, <4>1 DEF Good
      <4>3. AddItem[Good(q)][n] = Good(WithItems(q, Append(q.items, n)))
        <5> HIDE DEF q
        <5> QED BY <4>2, AddItemAdds
      <4>4. WithItems(q, Append(q.items, n)) = WithItems(r.path, Append(r.path.items \o u, n))
        BY ONLY DEF WithItems
      <4> HIDE DEF q, r
      <4> QED BY ONLY <2>3, <3>1, <4>1, <4>3, <4>4
    <3>2. CASE r.res # "OK"
      <4>1. After(u) = r /\ After(Append(u, n)) = r
        BY ONLY <3>2
      <4>2. AddItem[r][n] = r
        <5> HIDE DEF r
        <5> QED BY <1>1, <2>1, <3>2, AddItemKeeps
      <4> HIDE DEF After, r
      <4> QED BY ONLY <4>1, <4>2
    <3> QED BY ONLY <3>1, <3>2
  <2> HIDE DEF After
  <2> QED BY ONLY <2>2, <2>4, <2>5, <2>6
<1>5. t \in S
  <2> HIDE DEF S
  <2> QED BY <1>3, <1>4, ItemByItem
<1>6. Added(dst, s \o t) = After(t)
  BY ONLY <1>5
<1> QED BY ONLY <1>6

(***************************************************************************)
(* Where a path leads.                                                     *)
(***************************************************************************)
LEMMA FoldersAre ==
  /\ Folders \subseteq Seq(Names) /\ Folders \subseteq Seq(Items)
  /\ <<>> \in Folders /\ Nowhere \notin Folders /\ Nowhere \notin Seq(Names)
  /\ \A d \in Folders : d # <<>> => Front(d) \in Folders
<1>1. Folders \subseteq Seq(Names) /\ <<>> \in Folders
      /\ \A d \in Folders : d # <<>> => Front(d) \in Folders
  BY LocateAssumption
<1>2. Folders \subseteq Seq(Items)
  BY <1>1, NamesAreItems
<1>3. Nowhere \notin Seq(Names)
  <2>1. "" \notin Names
    BY NamesAssumption
  <2>2. ASSUME NEW s \in Seq(Names), s = Nowhere PROVE FALSE
    <3>1. Len(s) = 1
      BY <2>2 DEF Nowhere
    <3>2. s[1] \in Names
      BY ONLY <3>1, s \in Seq(Names)
    <3>3. s[1] = ""
      BY <2>2 DEF Nowhere
    <3> QED BY <2>1, <3>2, <3>3
  <2> QED BY <2>2
<1> QED BY <1>1, <1>2, <1>3

LEMMA EnterName ==
  ASSUME NEW d \in Folders, NEW x \in Names
  PROVE  Enter[d][x] = Append(d, x)
<1>1. d \in Seq(Items) /\ x \in Items /\ x \notin {"", ".", ".."}
  BY FoldersAre, NamesAreItems
<1> QED BY <1>1, EnterIs

LEMMA EnterNowhere ==
  ASSUME NEW d \in Seq(Items), NEW x \in Items, d \notin Folders
  PROVE  Enter[d][x] = Nowhere
  BY EnterIs

\* The system goes from a place it has reached through the folders named.
LEMMA ReachedNames ==
  ASSUME NEW start \in Seq(Items), NEW s \in Seq(Items), NEW t \in Seq(Names),
         NEW p, p = Reached(start, s), p \in Seq(Names),
         t = <<>> \/ Front(Join(p, t)) \in Folders
  PROVE  Reached(start, Join(s, t)) = Join(p, t)
<1> DEFINE S == {u \in Seq(Names) : u = <<>> \/ Front(p \o u) \in Folders =>
                                      Reached(start, s \o u) = p \o u}
<1>1. <<>> \in S
  <2>1. s \o <<>> = s /\ p \o <<>> = p /\ <<>> \in Seq(Names)
    BY Concats
  <2> QED BY <2>1
<1>2. ASSUME NEW u \in Seq(Names), NEW n \in Names, u \in S PROVE Append(u, n) \in S
  <2>1. u \in Seq(Items) /\ n \in Items
    BY NamesAreItems
  <2>2. s \o u \in Seq(Items) /\ s \o Append(u, n) = Append(s \o u, n)
    BY <2>1, Concats, ConcatAppend
  <2>3. p \o Append(u, n) = Append(p \o u, n) /\ p \o u \in Seq(Names)
        /\ Append(u, n) \in Seq(Names) /\ Append(u, n) # <<>>
        /\ (p \o u = <<>> => u = <<>>)
    <3>1. Append(u, n) \in Seq(Names) /\ Append(u, n) # <<>>
      <4>1. Append(u, n) \in Seq(Names) /\ Len(Append(u, n)) = Len(u) + 1 /\ Len(u) \in Nat
        BY ONLY u \in Seq(Names), n \in Names
      <4>2. Len(Append(u, n)) # 0
        BY ONLY <4>1
      <4>3. Append(u, n) # <<>>
        <5>1. Append(u, n) \in Seq(Names)
          BY ONLY <4>1
        <5> QED BY ONLY <4>2, <5>1, Lengths
      <4> QED BY ONLY <4>1, <4>3
    <3>2. p \o u \in Seq(Names)
      BY ONLY u \in Seq(Names), p \in Seq(Names)
    <3>3. p \o u = <<>> => u = <<>>
      BY ONLY u \in Seq(Names), p \in Seq(Names)
    <3>4. p \o Append(u, n) = Append(p \o u, n)
      BY ONLY u \in Seq(Names), p \in Seq(Names), n \in Names
    <3> QED BY <3>1, <3>2, <3>3, <3>4
  <2>4. Front(Append(p \o u, n)) = p \o u
    BY <2>3, FrontAppend
  <2>5. ASSUME p \o u \in Folders
        PROVE  Reached(start, s \o Append(u, n)) = p \o Append(u, n)
    <3>1. Reached(start, s \o u) = p \o u
      <4>1. p \o u # <<>> => Front(p \o u) \in Folders
        BY <2>5, FoldersAre
      <4>2. u = <<>> \/ Front(p \o u) \in Folders
        BY ONLY <2>3, <4>1
      <4> QED BY ONLY <1>2, <4>2
    <3>2. Reached(start, Append(s \o u, n)) = Enter[Reached(start, s \o u)][n]
      BY <2>1, <2>2, ReachedAppend
    <3>3. Enter[p \o u][n] = Append(p \o u, n)
      BY <2>5, EnterName
    <3> QED BY ONLY <2>2, <2>3, <3>1, <3>2, <3>3
  <2> QED BY ONLY <2>3, <2>4, <2>5
<1> QED
  <2> HIDE DEF S
  <2>1. t \in S
    BY <1>1, <1>2, ItemByItem
  <2> QED BY <2>1 DEF S, Join

\* As long as the system gets anywhere, and the program does not give up, they
\* are at the same place.
LEMMA AddedIsReached ==
  ASSUME NEW start \in Folders, NEW s \in Seq(Items),
         Added(Abs(start), s).res = "OK", Reached(start, s) # Nowhere
  PROVE  Added(Abs(start), s).path = Abs(Reached(start, s))
<1> DEFINE dst == Abs(start)
           S == {u \in Seq(Items) :
                   Added(dst, u).res = "OK" /\ Reached(start, u) # Nowhere =>
                     Added(dst, u).path = Abs(Reached(start, u))}
<1>0. start \in Seq(Items) /\ dst \in Paths
  BY FoldersAre DEF Paths, Abs
<1>1. <<>> \in S
  <2>1. Added(dst, <<>>) = Good(dst) /\ Reached(start, <<>>) = start /\ <<>> \in Seq(Items)
    BY <1>0, AddedEmpty, ReachedEmpty
  <2> QED BY ONLY <2>1 DEF Good
<1>2. ASSUME NEW u \in Seq(Items), NEW x \in Items, u \in S PROVE Append(u, x) \in S
  <2> DEFINE r == Added(dst, u)
             p == Reached(start, u)
  <2> HIDE DEF dst
  <2>1. r \in Results /\ Added(dst, Append(u, x)) = AddItem[r][x]
    BY <1>0, AddedAppend
  <2>2. p \in Seq(Items) /\ Reached(start, Append(u, x)) = Enter[p][x]
    BY <1>0, ReachedAppend
  <2>3. r.res = "OK" /\ p # Nowhere => r.path = Abs(p)
    BY ONLY <1>2
  <2>4. Append(u, x) \in Seq(Items)
    OBVIOUS
  <2> HIDE DEF r, p
  <2>5. ASSUME AddItem[r][x].res = "OK", Enter[p][x] # Nowhere
        PROVE  AddItem[r][x].path = Abs(Enter[p][x])
    <3>1. p \in Folders
      BY <2>2, <2>5, EnterNowhere
    <3>2. r.res = "OK"
      <4> SUFFICES ASSUME r.res # "OK" PROVE FALSE
        OBVIOUS
      <4>1. AddItem[r][x] = r
        BY <2>1, AddItemKeeps
      <4> QED BY <4>1, <2>5
    <3>3. r.path = Abs(p) /\ r.path.items = p /\ r.path.abs = TRUE /\ r.path \in Paths
      <4>1. p # Nowhere /\ r.path \in Paths
        BY <2>1, <3>1, FoldersAre DEF Results
      <4> QED BY ONLY <4>1, <2>3, <3>2 DEF Abs
    <3>4. CASE x \in {"", "."}
      <4>1. AddItem[r][x] = r
        BY <2>1, <3>4, AddItemKeeps
      <4>2. Enter[p][x] = p
        BY <2>2, <3>1, <3>4, EnterIs
      <4> QED BY ONLY <3>3, <4>1, <4>2
    <3>5. CASE x = ".."
      <4>1. AddItem[r][x] = RemoveLast(r.path)
        BY <2>1, <3>2, <3>5, AddItemRemoves
      <4>2. p # <<>>
        <5> SUFFICES ASSUME p = <<>> PROVE FALSE
          OBVIOUS
        <5>1. RemoveLast(r.path) = Bad("WRONG_FILE_LOCATION")
          BY <3>3, RemoveLastIs
        <5> QED BY ONLY <2>5, <4>1, <5>1 DEF Bad
      <4>3. RemoveLast(r.path) = Good(WithItems(r.path, Front(p)))
        BY ONLY <3>3, <4>2, RemoveLastIs
      <4>4. Enter[p][x] = Front(p)
        BY <2>2, <3>1, <3>5, <4>2, EnterIs
      <4> DEFINE q == Front(p)
      <4>5. AddItem[r][x] = Good(WithItems(r.path, q)) /\ Enter[p][x] = q
        BY ONLY <4>1, <4>3, <4>4
      <4> HIDE DEF q
      <4> QED BY ONLY <3>3, <4>5 DEF Good, WithItems, Abs
    <3>6. CASE x \in Names
      <4>1. AddItem[r][x] = Good(WithItems(r.path, Append(p, x)))
        BY <2>1, <3>2, <3>3, <3>6, AddItemAdds
      <4>2. Enter[p][x] = Append(p, x)
        BY <3>1, <3>6, EnterName
      <4> QED BY ONLY <3>3, <4>1, <4>2 DEF Good, WithItems, Abs
    <3> QED BY <3>4, <3>5, <3>6 DEF Items
  <2> QED BY ONLY <2>1, <2>2, <2>4, <2>5 DEF r, p
<1> QED
  <2> HIDE DEF S
  <2>1. s \in S
    BY <1>1, <1>2, ItemByItem
  <2>2. Added(dst, s).res = "OK" /\ Reached(start, s) # Nowhere =>
          Added(dst, s).path = Abs(Reached(start, s))
    BY ONLY <2>1 DEF S
  <2> QED BY ONLY <2>2, Added(Abs(start), s).res = "OK", Reached(start, s) # Nowhere

(***************************************************************************)
(* Folders below folders.                                                  *)
(***************************************************************************)
LEMMA BelowIs ==
  ASSUME NEW I, NEW d \in Seq(I), NEW p \in Seq(I)
  PROVE  Below(d, p) <=> Len(d) <= Len(p) /\ \A i \in 1..Len(d) : d[i] = p[i]
<1>1. SubSeq(d, 1, Len(d)) = d
  OBVIOUS
<1>2. Len(d) <= Len(p) =>
        /\ SubSeq(p, 1, Len(d)) \in Seq(I) /\ Len(SubSeq(p, 1, Len(d))) = Len(d)
        /\ \A i \in 1..Len(d) : SubSeq(p, 1, Len(d))[i] = p[i]
  OBVIOUS
<1> QED BY <1>1, <1>2, SeqEqual DEF Below, IsPrefix

LEMMA RestIs ==
  ASSUME NEW I, NEW d \in Seq(I), NEW p \in Seq(I), Below(d, p)
  PROVE  /\ Rest(d, p) \in Seq(I) /\ d \o Rest(d, p) = p
         /\ Len(Rest(d, p)) = Len(p) - Len(d) /\ Len(d) <= Len(p)
         /\ Rest(d, p) = <<>> <=> d = p
<1>1. Len(d) <= Len(p) /\ \A i \in 1..Len(d) : d[i] = p[i]
  BY BelowIs
<1>2. /\ Rest(d, p) \in Seq(I) /\ Len(Rest(d, p)) = Len(p) - Len(d)
      /\ \A i \in 1..(Len(p) - Len(d)) : Rest(d, p)[i] = p[Len(d) + i]
  BY <1>1 DEF Rest
<1>3. d \o Rest(d, p) = p
  <2> DEFINE r == Rest(d, p)
  <2> HIDE DEF r
  <2>1. r \in Seq(I) /\ Len(r) = Len(p) - Len(d)
        /\ \A i \in 1..(Len(p) - Len(d)) : r[i] = p[Len(d) + i]
    BY <1>2 DEF r
  <2>2. d \o r \in Seq(I) /\ Len(d \o r) = Len(p)
    BY <1>1, <2>1
  <2>3. ASSUME NEW i \in 1..Len(p) PROVE (d \o r)[i] = p[i]
    <3>1. CASE i \in 1..Len(d)
      <4>1. (d \o r)[i] = d[i]
        BY ONLY <2>1, <3>1, d \in Seq(I)
      <4> QED BY ONLY <1>1, <3>1, <4>1
    <3>2. CASE i \notin 1..Len(d)
      <4>1. Len(d) \in Nat /\ Len(p) \in Nat
        BY ONLY d \in Seq(I), p \in Seq(I)
      <4>2. i - Len(d) \in 1..(Len(p) - Len(d)) /\ Len(d) + (i - Len(d)) = i
        BY ONLY <1>1, <3>2, <4>1, i \in 1..Len(p)
      <4>3. (d \o r)[i] = r[i - Len(d)]
        BY ONLY <2>1, <3>2, <4>2, d \in Seq(I)
      <4> QED BY ONLY <2>1, <4>2, <4>3
    <3> QED BY ONLY <3>1, <3>2
  <2>4. d \o r = p
    BY <2>2, <2>3, SeqEqual
  <2> QED BY <2>4 DEF r
<1>4. Rest(d, p) = <<>> <=> d = p
  <2>1. CASE Rest(d, p) = <<>>
    BY <1>3, <2>1
  <2>2. CASE d = p
    BY <1>2, <2>2
  <2> QED BY <2>1, <2>2
<1> QED BY <1>1, <1>2, <1>3, <1>4

LEMMA BelowConcat ==
  ASSUME NEW I, NEW d \in Seq(I), NEW t \in Seq(I)
  PROVE  Below(d, d \o t) /\ Rest(d, d \o t) = t
<1>1. /\ d \o t \in Seq(I) /\ Len(d \o t) = Len(d) + Len(t)
      /\ \A i \in 1..Len(d) : (d \o t)[i] = d[i]
      /\ \A i \in 1..Len(t) : (d \o t)[Len(d) + i] = t[i]
  OBVIOUS
<1>2. Below(d, d \o t)
  <2> DEFINE p == d \o t
  <2>1. p \in Seq(I) /\ Len(d) <= Len(p) /\ \A i \in 1..Len(d) : d[i] = p[i]
    BY ONLY <1>1, d \in Seq(I), t \in Seq(I)
  <2> HIDE DEF p
  <2>2. Below(d, p)
    BY ONLY <2>1, d \in Seq(I), BelowIs
  <2> QED BY <2>2 DEF p
<1>3. /\ Rest(d, d \o t) \in Seq(I) /\ Len(Rest(d, d \o t)) = Len(t)
      /\ \A i \in 1..Len(t) : Rest(d, d \o t)[i] = t[i]
  BY <1>1 DEF Rest
<1> QED BY <1>2, <1>3, SeqEqual

LEMMA FrontOf ==
  ASSUME NEW I, NEW p \in Seq(I), Len(p) # 0
  PROVE  /\ Front(p) \in Seq(I) /\ Len(Front(p)) = Len(p) - 1
         /\ \A i \in 1..(Len(p) - 1) : Front(p)[i] = p[i]
<1> DEFINE n == Len(p) - 1
           q == SubSeq(p, 1, n)
<1>1. n \in Nat /\ n <= Len(p)
  OBVIOUS
<1> HIDE DEF n
<1>2. q \in Seq(I) /\ Len(q) = n /\ \A i \in 1..n : q[i] = p[i]
  BY <1>1
<1>3. q = Front(p)
  BY DEF Front, n
<1> HIDE DEF q
<1> QED BY <1>2, <1>3 DEF n

LEMMA BelowFront ==
  ASSUME NEW I, NEW d \in Seq(I), NEW p \in Seq(I), Below(d, p), d # p
  PROVE  p # <<>> /\ Front(p) \in Seq(I) /\ Below(d, Front(p)) /\ Len(Front(p)) = Len(p) - 1
<1>1. Len(d) <= Len(p) /\ \A i \in 1..Len(d) : d[i] = p[i]
  BY BelowIs
<1>2. Len(d) # Len(p)
  BY <1>1, SeqEqual
<1>3. /\ p # <<>> /\ Front(p) \in Seq(I) /\ Len(Front(p)) = Len(p) - 1
      /\ \A i \in 1..(Len(p) - 1) : Front(p)[i] = p[i]
  <2>1. Len(p) # 0
    BY <1>1, <1>2
  <2> QED BY <2>1, FrontOf, Lengths
<1>4. Len(d) <= Len(Front(p)) /\ \A i \in 1..Len(d) : d[i] = Front(p)[i]
  BY <1>1, <1>2, <1>3
<1> QED BY <1>3, <1>4, BelowIs

LEMMA FrontIs ==
  ASSUME NEW I, NEW p \in Seq(I), p # <<>>
  PROVE  /\ Front(p) \in Seq(I) /\ Below(Front(p), p) /\ Front(p) # p
         /\ Len(Front(p)) = Len(p) - 1
         /\ \A i \in 1..(Len(p) - 1) : Front(p)[i] = p[i]
<1>1. /\ Front(p) \in Seq(I) /\ Len(Front(p)) = Len(p) - 1
      /\ \A i \in 1..(Len(p) - 1) : Front(p)[i] = p[i]
  BY Lengths, FrontOf
<1>2. Len(Front(p)) <= Len(p) /\ \A i \in 1..Len(Front(p)) : Front(p)[i] = p[i]
  BY <1>1
<1>3. Below(Front(p), p)
  BY ONLY <1>1, <1>2, p \in Seq(I), BelowIs
<1>4. Front(p) # p
  BY <1>1
<1> QED BY <1>1, <1>3, <1>4

LEMMA BelowBelow ==
  ASSUME NEW I, NEW a \in Seq(I), NEW b \in Seq(I), NEW c \in Seq(I)
  PROVE  /\ Below(a, a)
         /\ Below(a, b) /\ Below(b, c) => Below(a, c)
         /\ Below(a, c) /\ Below(b, c) => Below(a, b) \/ Below(b, a)
         /\ Below(a, c) /\ Below(b, c) /\ Len(a) <= Len(b) => Below(a, b)
         /\ Below(a, b) /\ Len(a) = Len(b) => a = b
         /\ Below(a, b) => Len(a) <= Len(b)
         /\ Below(<<>>, a)
<1>1. Below(a, b) => Len(a) <= Len(b) /\ \A i \in 1..Len(a) : a[i] = b[i]
  BY BelowIs
<1>2. Below(b, c) => Len(b) <= Len(c) /\ \A i \in 1..Len(b) : b[i] = c[i]
  BY BelowIs
<1>3. Below(a, c) => Len(a) <= Len(c) /\ \A i \in 1..Len(a) : a[i] = c[i]
  BY BelowIs
<1>4. Below(a, a) /\ Below(<<>>, a)
  <2>1. Below(a, a)
    BY BelowIs
  <2>2. <<>> \in Seq(I) /\ Len(<<>>) = 0 /\ 1..0 = {}
    OBVIOUS
  <2>3. Len(<<>>) <= Len(a) /\ \A i \in 1..Len(<<>>) : <<>>[i] = a[i]
    BY <2>2
  <2>4. Below(<<>>, a)
    BY ONLY <2>2, <2>3, a \in Seq(I), BelowIs
  <2> QED BY <2>1, <2>4
<1>5. Below(a, b) /\ Below(b, c) => Below(a, c)
  BY <1>1, <1>2, BelowIs
<1>6. Below(a, c) /\ Below(b, c) /\ Len(a) <= Len(b) => Below(a, b)
  BY <1>2, <1>3, BelowIs
<1>7. Below(a, c) /\ Below(b, c) /\ Len(b) <= Len(a) => Below(b, a)
  BY <1>2, <1>3, BelowIs
<1>8. Below(a, b) /\ Len(a) = Len(b) => a = b
  BY <1>1, SeqEqual
<1> QED BY <1>1, <1>4, <1>5, <1>6, <1>7, <1>8

\* With a folder or a file all folders above it exist.
LEMMA FoldersAbove ==
  ASSUME NEW p \in Seq(Names), p = <<>> \/ Front(p) \in Folders,
         NEW d \in Seq(Names), Below(d, p), d # p
  PROVE  d \in Folders
<1> DEFINE S == {i \in 0..Len(p) : i = 0 \/ SubSeq(p, 1, Len(p) - i) \in Folders}
<1>0. Len(p) \in Nat /\ p # <<>>
  BY BelowFront
<1>1. 0 \in S
  BY <1>0
<1>2. ASSUME NEW i \in 1..Len(p), i - 1 \in S PROVE i \in S
  <2>1. CASE i = 1
    BY <1>0, <2>1 DEF Front
  <2>2. CASE i # 1
    <3> DEFINE q == SubSeq(p, 1, Len(p) - (i - 1))
    <3>1. q \in Folders
      BY <1>2, <2>2
    <3>2. q # <<>> /\ Front(q) = SubSeq(p, 1, Len(p) - i)
      <4>1. q \in Seq(Names) /\ Len(q) = Len(p) - (i - 1) /\ Len(q) # 0
        BY <1>0
      <4>2. SubSeq(q, 1, Len(q) - 1) = SubSeq(p, 1, Len(p) - i)
        BY <1>0, <4>1
      <4> QED BY <4>1, <4>2 DEF Front
    <3>3. SubSeq(p, 1, Len(p) - i) \in Folders
      BY <3>1, <3>2, FoldersAre
    <3> QED BY <3>3
  <2> QED BY <2>1, <2>2
<1>3. 0..Len(p) \subseteq S
  <2> HIDE DEF S
  <2> QED BY <1>0, <1>1, <1>2, UpTo
<1>4. Len(d) < Len(p) /\ Len(d) \in Nat /\ d = SubSeq(p, 1, Len(d))
  <2>1. Len(d) <= Len(p) /\ \A i \in 1..Len(d) : d[i] = p[i]
    BY BelowIs
  <2>2. Len(d) # Len(p)
    BY <2>1, SeqEqual
  <2>3. d = SubSeq(p, 1, Len(d))
    <3>1. SubSeq(d, 1, Len(d)) = d
      OBVIOUS
    <3> QED BY <3>1 DEF Below, IsPrefix
  <2> QED BY <2>1, <2>2, <2>3
<1>5. Len(p) - Len(d) \in S
  <2> HIDE DEF S
  <2> QED BY <1>0, <1>3, <1>4
<1>6. SubSeq(p, 1, Len(p) - (Len(p) - Len(d))) \in Folders
  BY <1>0, <1>4, <1>5
<1>7. Len(p) - (Len(p) - Len(d)) = Len(d)
  BY <1>0, <1>4
<1> QED BY <1>4, <1>6, <1>7

(***************************************************************************)
(* What the program and the system make of a text.                         *)
(***************************************************************************)
Start(w, p)  == IF p.abs THEN <<>> ELSE w
Place(w, p)  == Reached(Start(w, p), p.items)

LEMMA PathIs ==
  ASSUME NEW p \in Paths
  PROVE  /\ p.abs \in BOOLEAN /\ p.items \in Seq(Items)
         /\ p = [abs |-> p.abs, items |-> p.items]
         /\ WithItems(p, p.items) = p
  BY DEF Paths, WithItems

LEMMA MadePath ==
  ASSUME NEW s \in Seq(Items)
  PROVE  /\ Abs(s) \in Paths /\ Abs(s).items = s /\ Abs(s).abs = TRUE
         /\ Rel(s) \in Paths /\ Rel(s).items = s /\ Rel(s).abs = FALSE
         /\ Abs(s) # NoPath
         /\ \A p \in Paths : /\ WithItems(p, s) \in Paths /\ WithItems(p, s).items = s
                             /\ WithItems(p, s).abs = p.abs
                             /\ p.abs => WithItems(p, s) = Abs(s)
                             /\ ~p.abs => WithItems(p, s) = Rel(s)
  BY DEF Paths, WithItems, Abs, Rel, NoPath

LEMMA NamesOfRoot ==
  ASSUME NEW s \in Seq(Names)
  PROVE  /\ Added(Abs(<<>>), s) = Good(Abs(s))
         /\ Kept(s) = s
<1>1. <<>> \in Seq(Items) /\ <<>> \in Seq(Names) /\ s \in Seq(Items)
  <2>1. s \in Seq(Items)
    BY NamesAreItems
  <2>2. <<>> \in Seq(Items) /\ <<>> \in Seq(Names)
    OBVIOUS
  <2> QED BY <2>1, <2>2
<1>2. <<>> \o s = s
  OBVIOUS
<1>3. Kept(<<>> \o s) = Kept(<<>>) \o s
  BY <1>1, KeptNames
<1>4. Kept(s) = s
  BY ONLY <1>2, <1>3, KeptEmpty
<1>5. Abs(<<>>) \in Paths /\ Abs(<<>>).items = <<>> /\ Abs(<<>>).abs = TRUE
  BY <1>1, MadePath
<1>6. Added(Abs(<<>>), <<>>) = Good(Abs(<<>>))
  BY <1>5, AddedEmpty
<1>7. Added(Abs(<<>>), <<>>).res = "OK" /\ Added(Abs(<<>>), <<>>).path = Abs(<<>>)
  BY ONLY <1>6 DEF Good
<1>8. Added(Abs(<<>>), <<>> \o s) = Good(WithItems(Abs(<<>>), Abs(<<>>).items \o s))
  <2> DEFINE root == Abs(<<>>)
             none == <<>>
  <2>1. root \in Paths /\ none \in Seq(Items) /\ s \in Seq(Names)
        /\ Added(root, none).res = "OK" /\ Added(root, none).path = root
    BY <1>1, <1>5, <1>7
  <2> HIDE DEF root, none
  <2>2. Added(root, none \o s) = Good(WithItems(root, root.items \o s))
    BY ONLY <2>1, AddedNames
  <2> QED BY ONLY <2>2 DEF root, none
<1>9. WithItems(Abs(<<>>), s) = Abs(s)
  BY <1>1, <1>5, MadePath
<1> QED BY ONLY <1>2, <1>4, <1>5, <1>8, <1>9

LEMMA NamesOnto ==
  ASSUME NEW d \in Seq(Names), NEW t \in Seq(Names)
  PROVE  /\ Added(Abs(d), t) = Good(Abs(Join(d, t)))
         /\ Join(d, t) \in Seq(Names)
<1> DEFINE none == <<>>
           dst == Abs(d)
<1>1. d \in Seq(Items) /\ none \in Seq(Items)
  <2>1. d \in Seq(Items)
    BY NamesAreItems
  <2>2. none \in Seq(Items)
    OBVIOUS
  <2> QED BY <2>1, <2>2
<1>2. dst \in Paths /\ dst.items = d /\ dst.abs = TRUE
  BY <1>1, MadePath
<1>3. Added(dst, none) = Good(dst)
  BY <1>2, AddedEmpty
<1>4. none \o t = t /\ d \o t \in Seq(Names)
  BY Concats
<1> HIDE DEF none, dst
<1>5. Added(dst, none).res = "OK" /\ Added(dst, none).path = dst
  BY ONLY <1>3 DEF Good
<1>6. Added(dst, none \o t) = Good(WithItems(dst, d \o t))
  BY ONLY <1>1, <1>2, <1>5, t \in Seq(Names), AddedNames
<1>7. WithItems(dst, d \o t) = Abs(Join(d, t))
  BY ONLY <1>2 DEF WithItems, Abs, Join
<1> QED BY ONLY <1>4, <1>6, <1>7 DEF dst, Join

LEMMA CanonicalIs ==
  ASSUME NEW w \in Folders, NEW p \in Paths
  PROVE  /\ Canonical(Abs(w), p) = Added(Abs(Start(w, p)), p.items)
         /\ Start(w, p) \in Folders
<1>1. w \in Seq(Names) /\ w \in Seq(Items) /\ <<>> \in Folders /\ <<>> \in Seq(Items)
  BY FoldersAre
<1> DEFINE q == InitFsPath(p)
           b == InitFsPath(Abs(w))
<1>2. q \in Paths /\ q.items = Kept(p.items) /\ q.abs = p.abs /\ p.items \in Seq(Items)
      /\ p.abs \in BOOLEAN
  BY InitIs
<1>3. Abs(w) \in Paths /\ Abs(w).items = w /\ Abs(w).abs = TRUE
  BY <1>1, MadePath
<1>4. b \in Paths /\ b.items = w /\ b.abs = TRUE
  BY <1>1, <1>3, InitIs, NamesOfRoot
<1> HIDE DEF q, b
<1>5. CASE p.abs
  <2>1. Canonical(Abs(w), p) = AddNormalized(WithItems(q, <<>>), q)
    BY <1>5 DEF Canonical, Normalize, q
  <2>2. WithItems(q, <<>>) = Abs(<<>>) /\ Abs(<<>>) \in Paths
    BY <1>1, <1>2, <1>5, MadePath
  <2>3. Added(Abs(<<>>), Kept(p.items)) = Added(Abs(<<>>), p.items)
    BY <1>2, <2>2, AddedKept
  <2> QED BY ONLY <1>1, <1>2, <1>5, <2>1, <2>2, <2>3, AddIs DEF Start
<1>6. CASE ~p.abs
  <2>1. Canonical(Abs(w), p) = ConvertToAbsolute(b, q)
    BY <1>6 DEF Canonical, b, q
  <2>2. ConvertToAbsolute(b, q) =
          IF AddNormalized(Abs(<<>>), b).res = "OK"
            THEN AddNormalized(AddNormalized(Abs(<<>>), b).path, q)
            ELSE AddNormalized(Abs(<<>>), b)
    BY <1>2, <1>4, <1>6 DEF ConvertToAbsolute, Then
  <2>3. AddNormalized(Abs(<<>>), b) = Good(Abs(w))
    BY <1>1, <1>4, AddIs, NamesOfRoot
  <2>4. Added(Abs(w), Kept(p.items)) = Added(Abs(w), p.items)
    BY <1>2, <1>3, AddedKept
  <2>5. AddNormalized(Abs(w), q) = Added(Abs(w), p.items)
    BY <1>2, <2>4, AddIs
  <2>6. ConvertToAbsolute(b, q) = AddNormalized(Abs(w), q)
    BY ONLY <2>2, <2>3 DEF Good
  <2> QED BY ONLY <2>1, <2>5, <2>6, <1>6, w \in Folders DEF Start
<1> QED BY <1>2, <1>5, <1>6

LEMMA CreateIs ==
  ASSUME NEW b \in Paths, b.abs, NEW p \in Paths, ~p.abs
  PROVE  CreateAbsoluteNormalized(b, p) =
           IF Added(Abs(<<>>), b.items).res # "OK" THEN Added(Abs(<<>>), b.items)
           ELSE IF Added(Added(Abs(<<>>), b.items).path, p.items).res # "OK"
             THEN Added(Added(Abs(<<>>), b.items).path, p.items)
           ELSE ToText(Added(Added(Abs(<<>>), b.items).path, p.items).path)
<1> DEFINE c == InitFsPath(b)
           q == InitFsPath(p)
           root == Abs(<<>>)
           r == AddNormalized(root, c)
           t == AddNormalized(r.path, q)
<1>1. c \in Paths /\ c.items = Kept(b.items) /\ c.abs = b.abs /\ b.items \in Seq(Items)
  BY InitIs
<1>2. q \in Paths /\ q.items = Kept(p.items) /\ q.abs = p.abs /\ p.items \in Seq(Items)
  BY InitIs
<1>3. root \in Paths
  <2>1. <<>> \in Seq(Items)
    OBVIOUS
  <2> QED BY <2>1, MadePath
<1> HIDE DEF c, q, root
<1>4. ConvertToAbsolute(c, q) = IF r.res = "OK" THEN t ELSE r
  BY <1>1, <1>2 DEF ConvertToAbsolute, Then, root
<1>5. r = Added(root, b.items) /\ r \in Results
  BY <1>1, <1>3, AddIs, AddedKept, AddedType DEF GoodOf
<1>6. r.path \in Paths
  BY ONLY <1>5 DEF Results
<1> HIDE DEF r
<1>7. t = Added(r.path, p.items)
  BY <1>2, <1>6, AddIs, AddedKept
<1> HIDE DEF t
<1>8. CreateAbsoluteNormalized(b, p) =
        IF ConvertToAbsolute(c, q).res = "OK"
          THEN ToText(ConvertToAbsolute(c, q).path) ELSE ConvertToAbsolute(c, q)
  BY DEF CreateAbsoluteNormalized, Then, c, q
<1> DEFINE u == Added(root, b.items)
           v == Added(u.path, p.items)
<1>9. r = u /\ t = v
  BY ONLY <1>5, <1>7
<1> HIDE DEF u, v
<1>10. CreateAbsoluteNormalized(b, p) =
         IF u.res # "OK" THEN u ELSE IF v.res # "OK" THEN v ELSE ToText(v.path)
  BY ONLY <1>4, <1>8, <1>9
<1> QED BY ONLY <1>10 DEF u, v, root

LEMMA ToTextIs ==
  ASSUME NEW p \in Paths
  PROVE  /\ ToText(p) \in Results
         /\ p.items = <<>> => ToText(p) = Bad("INTERNAL_ERROR")
         /\ p.items # <<>> => ToText(p) = Good(p)
  BY DEF ToText, Good, Bad, Results, NoPath, Rel, Paths

Absolute(p) == p \in Paths /\ p.abs /\ p.items \in Seq(Names) /\ p.items # <<>>

LEMMA CreateType ==
  ASSUME NEW b \in Paths, b.abs, NEW p \in Paths, ~p.abs
  PROVE  /\ CreateAbsoluteNormalized(b, p) \in Results
         /\ CreateAbsoluteNormalized(b, p).res = "OK" =>
              Absolute(CreateAbsoluteNormalized(b, p).path)
<1> DEFINE root == Abs(<<>>)
           u == Added(root, b.items)
           v == Added(u.path, p.items)
<1>1. root \in Paths /\ root.items \in Seq(Names) /\ root.abs = TRUE
  <2>1. <<>> \in Seq(Items) /\ <<>> \in Seq(Names)
    OBVIOUS
  <2> QED BY <2>1, MadePath
<1>2. b.items \in Seq(Items) /\ p.items \in Seq(Items)
  BY PathIs
<1>3. CreateAbsoluteNormalized(b, p) =
        IF u.res # "OK" THEN u ELSE IF v.res # "OK" THEN v ELSE ToText(v.path)
  BY CreateIs
<1> HIDE DEF root
<1>4. GoodOf(root, u)
  BY <1>1, <1>2, AddedType
<1>5. /\ u \in Results /\ u.path \in Paths
      /\ u.res = "OK" => u.path.abs = TRUE /\ u.path.items \in Seq(Names)
  BY ONLY <1>1, <1>4 DEF GoodOf, Results
<1> HIDE DEF u
<1>6. GoodOf(u.path, v)
  BY <1>2, <1>5, AddedType
<1>7. /\ v \in Results /\ v.path \in Paths
      /\ u.res = "OK" /\ v.res = "OK" => v.path.abs = TRUE /\ v.path.items \in Seq(Names)
  BY ONLY <1>5, <1>6 DEF GoodOf, Results
<1> HIDE DEF v
<1>8. /\ ToText(v.path) \in Results
      /\ ToText(v.path).res = "OK" => v.path.items # <<>> /\ ToText(v.path).path = v.path
  <2>1. ToText(v.path) \in Results /\ (v.path.items = <<>> => ToText(v.path) = Bad("INTERNAL_ERROR"))
        /\ (v.path.items # <<>> => ToText(v.path) = Good(v.path))
    BY <1>7, ToTextIs
  <2> QED BY ONLY <2>1 DEF Good, Bad
<1> QED BY ONLY <1>3, <1>5, <1>7, <1>8 DEF Absolute

LEMMA ConvertIs ==
  ASSUME NEW w \in Folders, NEW p \in Paths
  PROVE  /\ p.abs => ConvertToAbsoluteNormalized(Abs(w), p) = Good(p)
         /\ ~p.abs => ConvertToAbsoluteNormalized(Abs(w), p) =
              IF Canonical(Abs(w), p).res = "OK" THEN ToText(Canonical(Abs(w), p).path)
                                                 ELSE Canonical(Abs(w), p)
<1>1. ASSUME p.abs PROVE ConvertToAbsoluteNormalized(Abs(w), p) = Good(p)
  BY <1>1 DEF ConvertToAbsoluteNormalized
<1>2. ASSUME ~p.abs
      PROVE  ConvertToAbsoluteNormalized(Abs(w), p) =
              IF Canonical(Abs(w), p).res = "OK" THEN ToText(Canonical(Abs(w), p).path)
                                                 ELSE Canonical(Abs(w), p)
  BY <1>2 DEF ConvertToAbsoluteNormalized, Canonical, CreateAbsoluteNormalized, Then
<1> QED BY <1>1, <1>2

LEMMA ConvertType ==
  ASSUME NEW w \in Folders, NEW p \in Paths
  PROVE  /\ ConvertToAbsoluteNormalized(Abs(w), p) \in Results
         /\ ConvertToAbsoluteNormalized(Abs(w), p).res = "OK" =>
              ConvertToAbsoluteNormalized(Abs(w), p).path.abs
         /\ ~p.abs /\ ConvertToAbsoluteNormalized(Abs(w), p).res = "OK" =>
              Absolute(ConvertToAbsoluteNormalized(Abs(w), p).path)
<1>1. w \in Seq(Items) /\ p.abs \in BOOLEAN
  BY FoldersAre, PathIs
<1>2. Abs(w) \in Paths /\ Abs(w).abs = TRUE
  BY <1>1, MadePath
<1>3. CASE p.abs
  <2>1. ConvertToAbsoluteNormalized(Abs(w), p) = Good(p)
    BY <1>3, ConvertIs
  <2> QED BY ONLY <2>1, <1>3, p \in Paths DEF Good, Results
<1>4. CASE ~p.abs
  <2>1. ConvertToAbsoluteNormalized(Abs(w), p) = CreateAbsoluteNormalized(Abs(w), p)
    BY <1>4 DEF ConvertToAbsoluteNormalized
  <2>2. /\ CreateAbsoluteNormalized(Abs(w), p) \in Results
        /\ CreateAbsoluteNormalized(Abs(w), p).res = "OK" =>
              Absolute(CreateAbsoluteNormalized(Abs(w), p).path)
    BY <1>2, <1>4, CreateType
  <2> QED BY ONLY <2>1, <2>2 DEF Absolute
<1> QED BY <1>3, <1>4

LEMMA ParentIs ==
  ASSUME NEW p \in Paths, NEW k, k = Kept(p.items)
  PROVE  /\ ParentDir(p) \in Results /\ k \in Seq(Items)
         /\ k = <<>> => ParentDir(p).res = "WRONG_FILE_LOCATION"
         /\ k # <<>> /\ Front(k) = <<>> => ParentDir(p).res = "INTERNAL_ERROR"
         /\ k # <<>> /\ Front(k) # <<>> => ParentDir(p) = Good(WithItems(p, Front(k)))
         /\ k # <<>> => Front(k) \in Seq(Items)
<1> DEFINE q == InitFsPath(p)
           r == RemoveLast(q)
<1>1. q \in Paths /\ q.items = k /\ q.abs = p.abs /\ q = WithItems(p, k) /\ k \in Seq(Items)
  BY InitIs
<1>2. ParentDir(p) = IF r.res = "OK" THEN ToText(r.path) ELSE r
  BY DEF ParentDir, Then
<1> HIDE DEF q
<1>3. /\ r \in Results
      /\ k = <<>> => r = Bad("WRONG_FILE_LOCATION")
      /\ k # <<>> => r = Good(WithItems(q, Front(k))) /\ Front(k) \in Seq(Items)
  BY <1>1, RemoveLastIs
<1> HIDE DEF r
<1>4. r.path \in Paths
  BY ONLY <1>3 DEF Results
<1>5. /\ ToText(r.path) \in Results
      /\ r.path.items = <<>> => ToText(r.path) = Bad("INTERNAL_ERROR")
      /\ r.path.items # <<>> => ToText(r.path) = Good(r.path)
  BY <1>4, ToTextIs
<1>6. CASE k = <<>>
  BY ONLY <1>1, <1>2, <1>3, <1>6 DEF Bad
<1>7. CASE k # <<>>
  <2> DEFINE f == Front(k)
  <2>1. r = Good(WithItems(q, f)) /\ f \in Seq(Items)
    BY ONLY <1>3, <1>7
  <2> HIDE DEF f
  <2>2. r.res = "OK" /\ r.path = WithItems(p, f) /\ r.path.items = f
    BY ONLY <1>1, <2>1 DEF Good, WithItems
  <2>3. /\ ParentDir(p) \in Results
        /\ f = <<>> => ParentDir(p).res = "INTERNAL_ERROR"
        /\ f # <<>> => ParentDir(p) = Good(WithItems(p, f))
    BY ONLY <1>2, <1>5, <2>2 DEF Bad
  <2> QED BY ONLY <1>1, <1>7, <2>1, <2>3 DEF f
<1> QED BY <1>6, <1>7

\* What the system reaches is the root or lies in a folder.
LEMMA ReachedAbove ==
  ASSUME NEW start \in Folders, NEW s \in Seq(Items), Reached(start, s) # Nowhere
  PROVE  /\ Reached(start, s) \in Seq(Names)
         /\ Reached(start, s) = <<>> \/ Front(Reached(start, s)) \in Folders
<1> DEFINE Found(p) == p # Nowhere => p \in Seq(Names) /\ (p = <<>> \/ Front(p) \in Folders)
           S == {u \in Seq(Items) : Found(Reached(start, u))}
<1>0. start \in Seq(Items)
  BY FoldersAre
<1>1. \A d \in Folders : Found(d)
  BY FoldersAre
<1>2. <<>> \in S
  <2>1. <<>> \in Seq(Items) /\ Reached(start, <<>>) = start
    BY <1>0, ReachedEmpty
  <2> HIDE DEF Found
  <2> QED BY <1>1, <2>1
<1>3. ASSUME NEW u \in Seq(Items), NEW x \in Items, u \in S PROVE Append(u, x) \in S
  <2> DEFINE p == Reached(start, u)
  <2>1. p \in Seq(Items) /\ Reached(start, Append(u, x)) = Enter[p][x]
    BY <1>0, ReachedAppend
  <2>2. Append(u, x) \in Seq(Items)
    OBVIOUS
  <2> HIDE DEF p, Found
  <2>3. Found(Enter[p][x])
    <3>1. CASE p \notin Folders
      <4>1. Enter[p][x] = Nowhere
        BY <2>1, <3>1, EnterNowhere
      <4> QED BY <4>1 DEF Found
    <3>2. CASE p \in Folders /\ x \in Names
      <4>1. Enter[p][x] = Append(p, x) /\ p \in Seq(Names)
        BY <3>2, EnterName, FoldersAre
      <4>2. Front(Append(p, x)) = p /\ Append(p, x) \in Seq(Names)
        <5>1. Front(Append(p, x)) = p
          BY ONLY <3>2, <4>1, FrontAppend
        <5> QED BY ONLY <3>2, <4>1, <5>1
      <4> QED BY ONLY <3>2, <4>1, <4>2 DEF Found
    <3>3. CASE p \in Folders /\ x \in {"", ".", ".."}
      <4>1. Enter[p][x] = p \/ (p # <<>> /\ Enter[p][x] = Front(p))
        BY <2>1, <3>3, EnterIs
      <4>2. Enter[p][x] \in Folders
        BY ONLY <3>3, <4>1, FoldersAre
      <4> QED BY ONLY <4>2, <1>1
    <3> QED BY <3>1, <3>2, <3>3 DEF Items
  <2> QED BY ONLY <2>1, <2>2, <2>3 DEF p
<1>4. s \in S
  <2> HIDE DEF S
  <2> QED BY <1>2, <1>3, ItemByItem
<1>5. Found(Reached(start, s))
  BY ONLY <1>4 DEF S
<1> QED
  <2> DEFINE p == Reached(start, s)
  <2>1. Found(p) /\ p # Nowhere
    BY <1>5
  <2> HIDE DEF p
  <2>2. p \in Seq(Names) /\ (p = <<>> \/ Front(p) \in Folders)
    BY ONLY <2>1 DEF Found
  <2> QED BY ONLY <2>2 DEF p

LEMMA CanonicalPlace ==
  ASSUME NEW w \in Folders, NEW p \in Paths, Canonical(Abs(w), p).res = "OK",
         Place(w, p) # Nowhere
  PROVE  Canonical(Abs(w), p) = Good(Abs(Place(w, p)))
<1> DEFINE st == Start(w, p)
<1>1. Canonical(Abs(w), p) = Added(Abs(st), p.items) /\ st \in Folders /\ p.items \in Seq(Items)
  BY CanonicalIs, PathIs
<1>2. Place(w, p) = Reached(st, p.items)
  BY DEF Place
<1> HIDE DEF st
<1>3. Added(Abs(st), p.items).path = Abs(Place(w, p))
  BY <1>1, <1>2, AddedIsReached
<1>4. Added(Abs(st), p.items) \in Results
  <2>1. st \in Seq(Items)
    BY <1>1, FoldersAre
  <2>2. Abs(st) \in Paths
    BY <2>1, MadePath
  <2> QED BY <1>1, <2>2, AddedType DEF GoodOf
<1> QED BY ONLY <1>1, <1>3, <1>4, Canonical(Abs(w), p).res = "OK" DEF Good, Results

PlainAt(w, text) ==
  /\ Place(w, text) # Nowhere
  /\ IF text.abs THEN text.items \in Seq(Names) ELSE Canonical(Abs(w), text).res = "OK"

LEMMA PlainIs ==
  ASSUME NEW w \in Folders, NEW a \in Paths, PlainAt(w, a), NEW r, r = Place(w, a)
  PROVE  /\ r \in Seq(Names) /\ (r = <<>> \/ Front(r) \in Folders)
         /\ Canonical(Abs(w), a) = Good(Abs(r))
         /\ a.abs => a.items = r /\ ConvertToAbsoluteNormalized(Abs(w), a) = Good(Abs(r))
         /\ ~a.abs /\ r # <<>> => ConvertToAbsoluteNormalized(Abs(w), a) = Good(Abs(r))
         /\ ~a.abs /\ r = <<>> => ConvertToAbsoluteNormalized(Abs(w), a) = Bad("INTERNAL_ERROR")
<1> DEFINE st == Start(w, a)
<1>1. Canonical(Abs(w), a) = Added(Abs(st), a.items) /\ st \in Folders
      /\ a.items \in Seq(Items) /\ a.abs \in BOOLEAN
  BY CanonicalIs, PathIs
<1>2. r = Reached(st, a.items) /\ r # Nowhere
  BY DEF Place, PlainAt
<1>3. r \in Seq(Names) /\ (r = <<>> \/ Front(r) \in Folders)
  <2> HIDE DEF st
  <2> QED BY <1>1, <1>2, ReachedAbove
<1>4. Canonical(Abs(w), a).res = "OK"
  <2>1. CASE a.abs
    <3>1. a.items \in Seq(Names) /\ st = <<>>
      BY <2>1 DEF PlainAt, Start
    <3>2. Canonical(Abs(w), a) = Good(Abs(a.items))
      BY <1>1, <3>1, NamesOfRoot
    <3> QED BY ONLY <3>2 DEF Good
  <2>2. CASE ~a.abs
    BY <2>2 DEF PlainAt
  <2> QED BY <1>1, <2>1, <2>2
<1>5. Canonical(Abs(w), a) = Good(Abs(r))
  BY <1>2, <1>4, CanonicalPlace
<1>6. ASSUME a.abs PROVE a.items = r /\ ConvertToAbsoluteNormalized(Abs(w), a) = Good(Abs(r))
  <2>1. a.items \in Seq(Names) /\ st = <<>>
    BY <1>6 DEF PlainAt, Start
  <2>2. Canonical(Abs(w), a) = Good(Abs(a.items))
    BY <1>1, <2>1, NamesOfRoot
  <2>3. a.items = r
    BY ONLY <1>5, <2>2 DEF Good, Abs
  <2>4. a = Abs(r) /\ ConvertToAbsoluteNormalized(Abs(w), a) = Good(a)
    BY <1>1, <1>6, <2>3, PathIs, ConvertIs DEF Abs
  <2> QED BY ONLY <2>3, <2>4
<1>7. ASSUME ~a.abs
      PROVE  ConvertToAbsoluteNormalized(Abs(w), a) =
               IF r = <<>> THEN Bad("INTERNAL_ERROR") ELSE Good(Abs(r))
  <2>1. ConvertToAbsoluteNormalized(Abs(w), a) = ToText(Abs(r))
    BY <1>5, <1>7, ConvertIs DEF Good
  <2>2. Abs(r).items = r
    BY DEF Abs
  <2> QED BY ONLY <2>1, <2>2 DEF ToText
<1> QED BY ONLY <1>3, <1>5, <1>6, <1>7

\* The text the walk makes for a file below a path leads to the file.
TextOf(a, real, path) == WithItems(a, a.items \o Rest(real, path))

LEMMA TextIs ==
  ASSUME NEW w \in Folders, NEW a \in Paths, NEW real, real = Place(w, a), real \in Seq(Names),
         NEW path \in Seq(Names), path # <<>>, Front(path) \in Folders, Below(real, path),
         NEW t, t = TextOf(a, real, path)
  PROVE  /\ t \in Paths /\ t.abs = a.abs
         /\ Place(w, t) = path
         /\ Canonical(Abs(w), t).res = "OK" => Canonical(Abs(w), t) = Good(Abs(path))
         /\ PlainAt(w, a) => ConvertToAbsoluteNormalized(Abs(w), t) = Good(Abs(path))
<1> DEFINE u == Rest(real, path)
           st == Start(w, a)
<1>1. u \in Seq(Names) /\ u \in Seq(Items) /\ real \o u = path /\ (u = <<>> <=> real = path)
  <2>1. u \in Seq(Names) /\ real \o u = path /\ (u = <<>> <=> real = path)
    BY ONLY real \in Seq(Names), path \in Seq(Names), Below(real, path), RestIs
  <2> QED BY ONLY <2>1, NamesAreItems
<1>2. a.items \in Seq(Items) /\ a.abs \in BOOLEAN
  BY PathIs
<1> HIDE DEF u
<1> DEFINE s == a.items \o u
<1>3. s \in Seq(Items)
  BY <1>1, <1>2
<1>4. t = WithItems(a, s)
  BY DEF TextOf, u
<1>5. t \in Paths /\ t.abs = a.abs /\ t.items = s
  <2> HIDE DEF s
  <2> QED BY ONLY <1>3, <1>4, a \in Paths, MadePath
<1>6. st \in Folders /\ st \in Seq(Items) /\ Start(w, t) = st
  BY <1>5, CanonicalIs, FoldersAre DEF Start
<1>7. real = Reached(st, a.items)
  BY DEF Place
<1>8. Place(w, t) = path
  <2>1. Place(w, t) = Reached(st, a.items \o u)
    BY <1>5, <1>6 DEF Place
  <2> HIDE DEF st
  <2>2. Join(real, u) = path
    BY <1>1 DEF Join
  <2>3. u = <<>> \/ Front(Join(real, u)) \in Folders
    BY <1>1, <2>2
  <2>4. Reached(st, Join(a.items, u)) = Join(real, u)
    BY ONLY <1>1, <1>2, <1>6, <1>7, <2>3, real \in Seq(Names), ReachedNames
  <2> QED BY <2>1, <2>2, <2>4 DEF Join
<1>9. path # Nowhere
  BY FoldersAre
<1>10. ASSUME Canonical(Abs(w), t).res = "OK" PROVE Canonical(Abs(w), t) = Good(Abs(path))
  BY <1>5, <1>8, <1>9, <1>10, CanonicalPlace
<1>11. ASSUME PlainAt(w, a) PROVE ConvertToAbsoluteNormalized(Abs(w), t) = Good(Abs(path))
  <2>1. a.abs => a.items = real
    BY <1>11, PlainIs
  <2>2. Canonical(Abs(w), a) = Good(Abs(real))
    BY <1>11, PlainIs
  <2>3. CASE a.abs
    <3>1. t = Abs(path)
      BY ONLY <1>1, <1>4, <2>1, <2>3, <1>2 DEF WithItems, Abs
    <3>2. ConvertToAbsoluteNormalized(Abs(w), t) = Good(t)
      BY <1>5, <2>3, ConvertIs
    <3> QED BY ONLY <3>1, <3>2
  <2>4. CASE ~a.abs
    <3> DEFINE dst == Abs(st)
    <3>1. dst \in Paths
      BY <1>6, MadePath
    <3>2. Added(dst, a.items) = Good(Abs(real))
      BY <2>2, CanonicalIs
    <3>3. Added(dst, a.items).res = "OK" /\ Added(dst, a.items).path = Abs(real)
      BY ONLY <3>2 DEF Good
    <3> HIDE DEF dst
    <3>4. Added(dst, a.items \o u) = Good(WithItems(Abs(real), Abs(real).items \o u))
      BY <1>1, <1>2, <3>1, <3>3, AddedNames
    <3>5. Added(dst, s) = Good(Abs(path))
      BY ONLY <1>1, <3>4 DEF Abs, WithItems
    <3>6. Canonical(Abs(w), t) = Added(dst, s)
      BY <1>5, <1>6, CanonicalIs DEF dst
    <3>7. ConvertToAbsoluteNormalized(Abs(w), t) = ToText(Abs(path))
      BY <1>5, <2>4, <3>5, <3>6, ConvertIs DEF Good
    <3>8. Abs(path).items # <<>>
      BY DEF Abs
    <3> QED BY ONLY <3>7, <3>8 DEF ToText
  <2> QED BY <1>2, <2>3, <2>4
<1> QED BY ONLY <1>5, <1>8, <1>10, <1>11

(***************************************************************************)
(* The inductive invariant, in terms of operators of constant level.       *)
(***************************************************************************)
Codes == {"OK", "WRONG_FILE_LOCATION", "INTERNAL_ERROR", "IO_ERROR",
          "MHL_NOT_FOUND", "WRONG_MHL_FORMAT", "NO_MHL_ENTRY", "NO_SUCH_FILE"}

Over(place)   == {d \in Folders : d # place /\ Below(d, place)}
DirOf(w, p)   == Front(Place(w, p))

\* The folders above a place and below or at a folder can be read and have no
\* list, or had none meanwhile.
Passed(ls, changed, d) == d \notin Unreadable /\ (ls[d] = NoList \/ d \in changed)

Shape ==
  /\ workdir \in Workdirs
  /\ pass \in {"seal", "search", "parse", "check", "exited"}
  /\ DOMAIN lists = Folders /\ touched \subseteq Folders
  /\ seals \in 0..MaxSeals /\ edits \in 0..MaxEdits
  /\ args = <<>> \/ \E a \in ArgPaths : args = <<a>>
  /\ inner \in Paths /\ found \in Paths
  /\ result \in Codes

Phases ==
  /\ pass = "seal" => args = <<>> /\ found = NoPath
  /\ pass = "search" => inner.abs /\ found = NoPath
  /\ pass \in {"parse", "check"} =>
       found.abs /\ found.items # <<>> /\ Last(found.items) = MhlName

\* The name of a record, relative to the folder of its list.
IsName(n) == n \in Paths /\ ~n.abs /\ n.items \in Seq(Names) /\ n.items # <<>>

IsFile(f) == f \in Seq(Names) /\ f # <<>> /\ Front(f) \in Folders

Leading(n, d, fs) == IsName(n) /\ (Last(n.items) # MhlName => Join(d, n.items) \in fs)

Disk ==
  /\ \A f \in files : IsFile(f)
  /\ \A d \in Folders : lists[d] # NoList => \A n \in lists[d] : Leading(n, d, files)

\* The search has passed the folders between the path and "inner".
Searched ==
  pass = "search" /\ args # <<>> /\ PlainAt(workdir, args[1]) =>
    /\ inner.items \in Seq(Names) /\ Below(inner.items, Place(workdir, args[1]))
    /\ \A d \in Over(Place(workdir, args[1])) :
         Below(inner.items, d) => Passed(lists, touched, d)

Nearest ==
  args # <<>> /\ found # NoPath /\ PlainAt(workdir, args[1]) =>
    /\ DirOf(workdir, found) \in Over(Place(workdir, args[1]))
    /\ \A d \in Over(Place(workdir, args[1])) :
         Below(DirOf(workdir, found), d) /\ d # DirOf(workdir, found) =>
           Passed(lists, touched, d)

Reasons ==
  pass = "exited" /\ args # <<>> /\ PlainAt(workdir, args[1]) /\ found = NoPath =>
    \A d \in Over(Place(workdir, args[1])) :
      d # <<>> /\ d \notin touched /\ lists[d] # NoList =>
        \E u \in Unreadable : u \in Over(Place(workdir, args[1])) /\ Below(d, u)

\* Every record is filed under the path its name has in the folder of the list.
KeysOf(dir, ns) == {Abs(Join(dir, n.items)) : n \in ns}

Parsed ==
  pass = "check" =>
    /\ DirOf(workdir, found) \in Folders
    /\ \A n \in names : IsName(n)
    /\ keys = KeysOf(DirOf(workdir, found), names)

\* The list has no record of what a text leads to.
Missing(w, dir, ns, text) == ~\E n \in ns : Join(dir, n.items) = Place(w, text)

LookedUp ==
  pass = "exited" /\ result \in {"OK", "NO_MHL_ENTRY"} /\ args # <<>>
  /\ PlainAt(workdir, args[1]) =>
    \A text \in missed \cup {args[1]} :
      \/ Place(workdir, text) \in Folders
      \/ text \in missed <=> Missing(workdir, DirOf(workdir, found), names, text)

LEMMA FinishIs == \A code : Finish(code) <=> pass' = "exited" /\ result' = code
  BY DEF Finish

LEMMA ResultCodes == ASSUME NEW r \in Results PROVE r.res \in Codes /\ r.path \in Paths
  BY DEF Results, Codes

LEMMA Constants ==
  /\ Workdirs \subseteq Folders /\ ArgPaths \subseteq Paths /\ OutPaths \subseteq Paths
  /\ MhlName \in Names /\ "verify" \in Names /\ Unreadable \subseteq Folders
  /\ MaxSeals \in Nat /\ MaxEdits \in Nat
  BY LocateAssumption

LEMMA InitShape == Init => Shape /\ Phases
<1> SUFFICES ASSUME Init PROVE Shape /\ Phases
  OBVIOUS
<1>1. NoPath \in Paths
  <2>1. <<>> \in Seq(Items)
    OBVIOUS
  <2> QED BY <2>1, MadePath DEF NoPath
<1>2. 0 \in 0..MaxSeals /\ 0 \in 0..MaxEdits
  BY Constants
<1>3. Shape
  BY ONLY <1>1, <1>2, Init DEF Init, Shape, Codes
<1>4. Phases
  BY ONLY Init DEF Init, Phases
<1> QED BY <1>3, <1>4

LEMMA Started ==
  ASSUME Shape
  PROVE  /\ workdir \in Folders /\ workdir \in Seq(Items)
         /\ args # <<>> => args[1] \in ArgPaths /\ args[1] \in Paths
<1>1. workdir \in Folders /\ workdir \in Seq(Items)
  BY Constants, FoldersAre DEF Shape
<1>2. ASSUME NEW a \in ArgPaths, args = <<a>> PROVE args[1] \in ArgPaths
  BY <1>2
<1> QED BY ONLY <1>1, <1>2, Constants, Shape DEF Shape

LEMMA LastAppend ==
  ASSUME NEW I, NEW s \in Seq(I), NEW x \in I
  PROVE  /\ Append(s, x) \in Seq(I) /\ Append(s, x) # <<>>
         /\ Last(Append(s, x)) = x /\ Front(Append(s, x)) = s
<1> DEFINE t == Append(s, x)
<1>1. t \in Seq(I) /\ Len(t) = Len(s) + 1 /\ Len(s) \in Nat /\ t[Len(s) + 1] = x
  OBVIOUS
<1>2. Front(t) = s
  BY FrontAppend
<1> HIDE DEF t
<1>3. Len(t) # 0
  BY ONLY <1>1
<1>4. t # <<>>
  BY ONLY <1>1, <1>3, Lengths
<1>5. Last(t) = x
  BY ONLY <1>1 DEF Last
<1> QED BY ONLY <1>1, <1>2, <1>4, <1>5 DEF t

\* A name is added to any path the program can write out.
LEMMA AddedName ==
  ASSUME NEW dst \in Paths, NEW s \in Seq(Items), NEW x \in Names,
         NEW r, r = Added(dst, Append(s, x)), r.res = "OK"
  PROVE  /\ Added(dst, s).res = "OK"
         /\ r = Good(WithItems(Added(dst, s).path, Append(Added(dst, s).path.items, x)))
<1> DEFINE t == Added(dst, s)
<1>1. t \in Results /\ r = AddItem[t][x]
  BY NamesAreItems, AddedAppend
<1> HIDE DEF t
<1>2. x \in Items
  BY NamesAreItems
<1>3. t.res = "OK"
  <2> SUFFICES ASSUME t.res # "OK" PROVE FALSE
    OBVIOUS
  <2>1. AddItem[t][x] = t
    BY <1>1, <1>2, AddItemKeeps
  <2> QED BY ONLY <1>1, <2>1, t.res # "OK", r.res = "OK"
<1>4. r = Good(WithItems(t.path, Append(t.path.items, x)))
  BY <1>1, <1>3, AddItemAdds
<1> QED BY <1>3, <1>4 DEF t

LEMMA ListPath ==
  ASSUME NEW w \in Folders, NEW out \in Paths,
         NEW r, r = ConvertToAbsoluteNormalized(Abs(w), ConcatParts(out, MhlName)), r.res = "OK"
  PROVE  /\ r.path \in Paths /\ r.path.abs
         /\ r.path.items # <<>> /\ Last(r.path.items) = MhlName
<1> DEFINE s == out.items
           p == WithItems(out, Append(s, MhlName))
<1>1. MhlName \in Names /\ MhlName \in Items /\ s \in Seq(Items) /\ out.abs \in BOOLEAN
  BY Constants, NamesAreItems, PathIs
<1>2. p = ConcatParts(out, MhlName)
  BY DEF ConcatParts
<1> HIDE DEF s
<1>3. Append(s, MhlName) \in Seq(Items) /\ Append(s, MhlName) # <<>>
      /\ Last(Append(s, MhlName)) = MhlName
  BY ONLY <1>1, LastAppend
<1>4. p \in Paths /\ p.abs = out.abs /\ p.items = Append(s, MhlName)
  BY ONLY <1>3, out \in Paths, MadePath
<1> HIDE DEF p
<1>5. CASE out.abs
  <2>1. r = Good(p)
    BY <1>2, <1>4, <1>5, ConvertIs
  <2> QED BY ONLY <1>3, <1>4, <1>5, <2>1 DEF Good
<1>6. CASE ~out.abs
  <2> DEFINE c == Added(Abs(w), Append(s, MhlName))
             q == Added(Abs(w), s)
  <2>1. c = Canonical(Abs(w), p)
    BY <1>4, <1>6, CanonicalIs DEF Start
  <2>2. r = IF c.res = "OK" THEN ToText(c.path) ELSE c
    BY <1>2, <1>4, <1>6, <2>1, ConvertIs
  <2>3. Abs(w) \in Paths
    BY FoldersAre, MadePath
  <2>4. c.res = "OK"
    BY ONLY <2>2, r.res = "OK"
  <2>5. c = Good(WithItems(q.path, Append(q.path.items, MhlName)))
    BY <1>1, <2>3, <2>4, AddedName
  <2>6. q \in Results
    BY <1>1, <2>3, AddedAppend
  <2> HIDE DEF q, c
  <2>7. q.path \in Paths /\ q.path.items \in Seq(Items)
    BY ONLY <2>6, PathIs DEF Results
  <2> DEFINE t == Append(q.path.items, MhlName)
  <2>8. t \in Seq(Items) /\ t # <<>> /\ Last(t) = MhlName
    BY ONLY <1>1, <2>7, LastAppend
  <2>9. c = Good(WithItems(q.path, t))
    BY ONLY <2>5
  <2> HIDE DEF t
  <2>10. c.path = WithItems(q.path, t) /\ c.path.items = t
    BY ONLY <2>9 DEF Good, WithItems
  <2>11. r = Good(c.path)
    BY ONLY <2>2, <2>4, <2>8, <2>10 DEF ToText
  <2>12. r.path.items = t
    BY ONLY <2>10, <2>11 DEF Good
  <2>13. r.path \in Paths /\ r.path.abs
    BY <1>2, <1>4, <1>6, ConvertType, ResultCodes
  <2> QED BY ONLY <2>8, <2>12, <2>13
<1> QED BY <1>1, <1>5, <1>6

\* Even the name of the command, taken for a path, is one.
LEMMA CommandPath ==
  ASSUME NEW w \in Folders, NEW x \in Names
  PROVE  CreateAbsoluteNormalized(Abs(w), Rel(<<x>>)).path \in Paths
         /\ CreateAbsoluteNormalized(Abs(w), Rel(<<x>>)).path.abs
<1> DEFINE p == Rel(<<x>>)
           t == <<x>>
<1>1. w \in Seq(Names) /\ w \in Seq(Items) /\ x \in Items
  BY FoldersAre, NamesAreItems
<1>2. t \in Seq(Names) /\ t \in Seq(Items)
  BY ONLY <1>1, x \in Names
<1>3. p \in Paths /\ p.abs = FALSE /\ p.items = t
  <2> HIDE DEF t
  <2>1. Rel(t) \in Paths /\ Rel(t).items = t /\ Rel(t).abs = FALSE
    BY <1>2, MadePath
  <2> QED BY <2>1 DEF t
<1>4. Abs(w) \in Paths /\ Abs(w).abs = TRUE /\ Abs(w).items = w
  BY <1>1, MadePath
<1>5. Added(Abs(<<>>), w) = Good(Abs(w))
  BY <1>1, NamesOfRoot
<1>6. Added(Abs(w), t) = Good(Abs(w \o t))
  <2> HIDE DEF t
  <2> QED BY <1>1, <1>2, NamesOnto DEF Join
<1>7. w \o t \in Seq(Names) /\ w \o t # <<>> /\ w \o t \in Seq(Items)
  <2>1. w \o t \in Seq(Names) /\ Len(w \o t) = Len(w) + 1 /\ Len(w) \in Nat
    BY ONLY <1>1, x \in Names
  <2>2. Len(w \o t) # 0
    BY ONLY <2>1
  <2> QED BY ONLY <2>1, <2>2, Lengths, NamesAreItems
<1> DEFINE u == w \o t
<1> HIDE DEF t, p, u
<1>8. CreateAbsoluteNormalized(Abs(w), p) = ToText(Abs(u))
  <2>1. CreateAbsoluteNormalized(Abs(w), p) =
           IF Added(Abs(<<>>), w).res # "OK" THEN Added(Abs(<<>>), w)
           ELSE IF Added(Added(Abs(<<>>), w).path, t).res # "OK"
             THEN Added(Added(Abs(<<>>), w).path, t)
           ELSE ToText(Added(Added(Abs(<<>>), w).path, t).path)
    BY <1>3, <1>4, CreateIs
  <2>2. Added(Abs(w), t) = Good(Abs(u))
    BY <1>6 DEF u
  <2> QED BY ONLY <1>5, <2>1, <2>2 DEF Good
<1>9. u \in Seq(Items) /\ u # <<>>
  BY <1>7 DEF u
<1>10. CreateAbsoluteNormalized(Abs(w), p) = Good(Abs(u)) /\ Abs(u) \in Paths /\ Abs(u).abs
  BY ONLY <1>8, <1>9, MadePath DEF ToText
<1> QED BY ONLY <1>10 DEF p, Good

ShapeAndPhases == Shape /\ Phases

LEMMA SealShape == ASSUME Shape, Phases, SealList PROVE ShapeAndPhases'
<1>1. DOMAIN lists' = DOMAIN lists
  BY DEF SealList
<1>2. seals' \in 0..MaxSeals
  BY Constants DEF SealList, Shape
<1>3. UNCHANGED <<workdir, edits, touched, pass, verifyVars>>
  BY DEF SealList
<1> QED BY ONLY <1>1, <1>2, <1>3, Shape, Phases DEF Shape, Phases, verifyVars, ShapeAndPhases

LEMMA BeginShape ==
  ASSUME Shape, Phases, VerifyPath \/ VerifyNothing \/ VerifyList
  PROVE  ShapeAndPhases'
<1>1. workdir \in Folders
  BY Started
<1>2. CASE VerifyPath
  <2>1. PICK a \in ArgPaths :
          /\ args' = <<a>>
          /\ LET abs == ConvertToAbsoluteNormalized(Abs(workdir), a)
             IN IF abs.res = "OK"
                  THEN pass' = "search" /\ inner' = abs.path /\ UNCHANGED result
                  ELSE Finish(abs.res) /\ UNCHANGED inner
    BY <1>2 DEF VerifyPath
  <2> DEFINE abs == ConvertToAbsoluteNormalized(Abs(workdir), a)
  <2>2. a \in Paths
    BY Constants
  <2>3. abs.res \in Codes /\ abs.path \in Paths /\ (abs.res = "OK" => abs.path.abs)
    BY <1>1, <2>2, ConvertType, ResultCodes
  <2>4. \/ pass' = "search" /\ inner' = abs.path /\ abs.path.abs /\ result' = result
        \/ pass' = "exited" /\ result' = abs.res /\ inner' = inner
    BY ONLY <2>1, <2>3, FinishIs
  <2>5. pass = "seal" /\ UNCHANGED <<workdir, diskVars, found, names, keys, missed>>
    BY ONLY <1>2 DEF VerifyPath
  <2> HIDE DEF abs
  <2>6. Shape'
    BY ONLY <2>1, <2>3, <2>4, <2>5, Shape DEF Shape, diskVars
  <2>7. Phases'
    BY ONLY <2>1, <2>3, <2>4, <2>5, Phases DEF Phases, diskVars
  <2> QED BY <2>6, <2>7 DEF ShapeAndPhases
<1>3. CASE VerifyNothing
  <2> DEFINE p == CreateAbsoluteNormalized(Abs(workdir), Rel(<<"verify">>)).path
  <2>1. p \in Paths /\ p.abs
    BY ONLY <1>1, Constants, CommandPath
  <2>2. pass = "seal" /\ pass' = "search" /\ inner' = p
        /\ UNCHANGED <<workdir, diskVars, args, found, names, keys, missed, result>>
    BY ONLY <1>3 DEF VerifyNothing
  <2> HIDE DEF p
  <2>3. Shape'
    BY ONLY <2>1, <2>2, Shape DEF Shape, diskVars
  <2>4. Phases'
    BY ONLY <2>1, <2>2, Phases DEF Phases, diskVars
  <2> QED BY <2>3, <2>4 DEF ShapeAndPhases
<1>4. CASE VerifyList
  <2>1. PICK out \in OutPaths :
          LET abs == ConvertToAbsoluteNormalized(Abs(workdir), ConcatParts(out, MhlName))
          IN IF abs.res = "OK"
               THEN pass' = "parse" /\ found' = abs.path /\ UNCHANGED result
               ELSE Finish(abs.res) /\ UNCHANGED found
    BY <1>4 DEF VerifyList
  <2> DEFINE cp == ConcatParts(out, MhlName)
             abs == ConvertToAbsoluteNormalized(Abs(workdir), cp)
  <2>2. out \in Paths
    BY Constants
  <2>3. cp \in Paths
    <3> DEFINE s == out.items
    <3>1. s \in Seq(Items) /\ MhlName \in Items
      BY <2>2, Constants, NamesAreItems, PathIs
    <3> HIDE DEF s
    <3> DEFINE t == Append(s, MhlName)
    <3>2. t \in Seq(Items)
      BY <3>1
    <3> HIDE DEF t
    <3>3. WithItems(out, t) \in Paths
      BY <2>2, <3>2, MadePath
    <3> QED BY <3>3 DEF ConcatParts, t, s
  <2>4. abs.res \in Codes
    BY <1>1, <2>3, ConvertType, ResultCodes
  <2>5. abs.res = "OK" => /\ abs.path \in Paths /\ abs.path.abs
                          /\ abs.path.items # <<>> /\ Last(abs.path.items) = MhlName
    BY <1>1, <2>2, ListPath
  <2>6. \/ abs.res = "OK" /\ pass' = "parse" /\ found' = abs.path /\ result' = result
        \/ pass' = "exited" /\ result' = abs.res /\ found' = found
    BY ONLY <2>1, FinishIs
  <2>7. pass = "seal" /\ UNCHANGED <<workdir, diskVars, args, inner, names, keys, missed>>
    BY ONLY <1>4 DEF VerifyList
  <2> HIDE DEF abs
  <2>8. Shape'
    BY ONLY <2>4, <2>5, <2>6, <2>7, Shape DEF Shape, diskVars
  <2>9. Phases'
    BY ONLY <2>5, <2>6, <2>7, Phases DEF Phases, diskVars
  <2> QED BY <2>8, <2>9 DEF ShapeAndPhases
<1> QED BY <1>2, <1>3, <1>4

LEMMA PlaceIs == \A p : RealPath(p) = Place(workdir, p)
  BY DEF RealPath, Place, Start

\* The outcomes of one turn of the search.
Stands(dir)    == Place(workdir, dir) \in Folders /\ Place(workdir, dir) \notin Unreadable
SearchEnds(dir) ==
  /\ pass' = "exited" /\ UNCHANGED <<inner, found>>
  /\ \/ dir.res # "OK" /\ result' = dir.res
     \/ dir.res = "OK" /\ ~Stands(dir.path) /\ result' = "IO_ERROR"
SearchFinds(dir) ==
  /\ pass' = "parse" /\ found' = ConcatParts(dir.path, MhlName) /\ UNCHANGED <<inner, result>>
  /\ dir.res = "OK" /\ Stands(dir.path) /\ lists[Place(workdir, dir.path)] # NoList
SearchGoesOn(dir) ==
  /\ inner' = dir.path /\ UNCHANGED <<pass, found, result>>
  /\ dir.res = "OK" /\ Stands(dir.path) /\ lists[Place(workdir, dir.path)] = NoList

LEMMA SearchCases ==
  ASSUME SearchFolder, NEW dir, dir = ParentDir(inner)
  PROVE  /\ pass = "search" /\ UNCHANGED <<workdir, diskVars, args, names, keys, missed>>
         /\ SearchEnds(dir) \/ SearchFinds(dir) \/ SearchGoesOn(dir)
<1> DEFINE real == Place(workdir, dir.path)
<1>1. pass = "search" /\ UNCHANGED <<workdir, diskVars, args, names, keys, missed>>
  BY DEF SearchFolder
<1>2. (CASE dir.res # "OK" -> Finish(dir.res) /\ UNCHANGED <<inner, found>>
        [] dir.res = "OK" /\ (~(real \in Folders) \/ real \in Unreadable) ->
               Finish("IO_ERROR") /\ UNCHANGED <<inner, found>>
        [] OTHER ->
               IF lists[real] # NoList
                 THEN /\ pass' = "parse" /\ found' = ConcatParts(dir.path, MhlName)
                      /\ UNCHANGED <<inner, result>>
                 ELSE inner' = dir.path /\ UNCHANGED <<pass, found, result>>)
  BY PlaceIs DEF SearchFolder, Leads
<1> HIDE DEF real
<1>3. CASE dir.res # "OK"
  <2>1. SearchEnds(dir)
    BY ONLY <1>2, <1>3 DEF Finish, SearchEnds
  <2> QED BY <1>1, <2>1
<1>4. CASE dir.res = "OK" /\ (real \notin Folders \/ real \in Unreadable)
  <2>1. SearchEnds(dir)
    BY ONLY <1>2, <1>4 DEF Finish, SearchEnds, Stands, real
  <2> QED BY <1>1, <2>1
<1>5. CASE dir.res = "OK" /\ real \in Folders /\ real \notin Unreadable
  <2>1. SearchFinds(dir) \/ SearchGoesOn(dir)
    BY ONLY <1>2, <1>5 DEF SearchFinds, SearchGoesOn, Stands, real
  <2> QED BY <1>1, <2>1
<1> QED BY <1>3, <1>4, <1>5

LEMMA ParentPath ==
  ASSUME NEW p \in Paths, p.abs, NEW dir, dir = ParentDir(p)
  PROVE  /\ dir \in Results /\ dir.path \in Paths
         /\ dir.res = "OK" => dir.path.abs /\ dir.path.items # <<>>
         /\ p.items \in Seq(Names) =>
              /\ dir.res = "OK" => p.items # <<>> /\ dir = Good(Abs(Front(p.items)))
              /\ dir.res # "OK" => p.items = <<>> \/ Front(p.items) = <<>>
<1> DEFINE k == Kept(p.items)
           f == Front(k)
<1>1. /\ dir \in Results /\ k \in Seq(Items)
      /\ k = <<>> => dir.res = "WRONG_FILE_LOCATION"
      /\ k # <<>> /\ Front(k) = <<>> => dir.res = "INTERNAL_ERROR"
      /\ k # <<>> /\ Front(k) # <<>> => dir = Good(WithItems(p, Front(k)))
      /\ k # <<>> => Front(k) \in Seq(Items)
  BY ParentIs
<1>2. p.items \in Seq(Names) => k = p.items
  BY NamesOfRoot
<1> HIDE DEF k
<1>3. dir.res = "OK" => k # <<>> /\ f # <<>> /\ dir = Good(WithItems(p, f)) /\ f \in Seq(Items)
  BY ONLY <1>1
<1>4. dir.path \in Paths
  BY ONLY <1>1 DEF Results
<1>5. dir.res # "OK" => k = <<>> \/ f = <<>>
  BY ONLY <1>1 DEF Good
<1> HIDE DEF f
<1>6. dir.res = "OK" => dir = Good(Abs(f)) /\ dir.path.abs /\ dir.path.items = f
  BY ONLY <1>3, p.abs, p \in Paths DEF Good, WithItems, Abs, Paths
<1> QED BY ONLY <1>1, <1>2, <1>3, <1>4, <1>5, <1>6 DEF f

LEMMA SearchShape == ASSUME Shape, Phases, SearchFolder PROVE ShapeAndPhases'
<1> DEFINE dir == ParentDir(inner)
<1>1. /\ pass = "search" /\ UNCHANGED <<workdir, diskVars, args, names, keys, missed>>
      /\ SearchEnds(dir) \/ SearchFinds(dir) \/ SearchGoesOn(dir)
  BY SearchCases
<1>2. inner \in Paths /\ inner.abs /\ found = NoPath
  BY <1>1 DEF Shape, Phases
<1>3. /\ dir \in Results /\ dir.path \in Paths
      /\ dir.res = "OK" => dir.path.abs /\ dir.path.items # <<>>
  BY ONLY <1>2, ParentPath
<1>4. dir.res \in Codes
  BY <1>3, ResultCodes
<1> HIDE DEF dir
<1>5. CASE SearchEnds(dir)
  <2>1. Shape'
    BY ONLY <1>1, <1>4, <1>5, Shape DEF SearchEnds, Shape, diskVars, Codes
  <2>2. Phases'
    BY ONLY <1>1, <1>5, Phases DEF SearchEnds, Phases, diskVars
  <2> QED BY <2>1, <2>2 DEF ShapeAndPhases
<1>6. CASE SearchGoesOn(dir)
  <2>1. Shape'
    BY ONLY <1>1, <1>3, <1>6, Shape DEF SearchGoesOn, Shape, diskVars
  <2>2. Phases'
    BY ONLY <1>1, <1>3, <1>6, Phases DEF SearchGoesOn, Phases, diskVars
  <2> QED BY <2>1, <2>2 DEF ShapeAndPhases
<1>7. CASE SearchFinds(dir)
  <2> DEFINE s == dir.path.items
             t == Append(s, MhlName)
  <2>1. s \in Seq(Items) /\ MhlName \in Items
    BY <1>3, PathIs, Constants, NamesAreItems
  <2>2. found' = WithItems(dir.path, t)
    BY <1>7 DEF SearchFinds, ConcatParts
  <2> HIDE DEF s
  <2>3. t \in Seq(Items) /\ t # <<>> /\ Last(t) = MhlName
    BY <2>1, LastAppend
  <2> HIDE DEF t
  <2>4. found' \in Paths /\ found'.abs /\ found'.items = t
    <3> DEFINE p == dir.path
    <3>1. p \in Paths /\ p.abs /\ found' = WithItems(p, t)
      BY ONLY <1>3, <1>7, <2>2 DEF SearchFinds
    <3> HIDE DEF p
    <3>2. t \in Seq(Items) /\ p \in Paths
      BY ONLY <2>3, <3>1
    <3>3. WithItems(p, t) \in Paths /\ WithItems(p, t).items = t /\ WithItems(p, t).abs = p.abs
      <4> DEFINE w == WithItems(p, t)
      <4>1. w \in Paths
        BY ONLY <3>2, MadePath
      <4> QED BY ONLY <4>1 DEF w, WithItems
    <3> QED BY ONLY <3>1, <3>3
  <2>5. Shape'
    BY ONLY <1>1, <1>3, <1>7, <2>4, Shape DEF SearchFinds, Shape, diskVars
  <2>6. Phases'
    BY ONLY <1>1, <1>7, <2>3, <2>4, Phases DEF SearchFinds, Phases, diskVars
  <2> QED BY <2>5, <2>6 DEF ShapeAndPhases
<1> QED BY <1>1, <1>5, <1>6, <1>7

\* The outcomes of parsing.
LEMMA ParseCases ==
  ASSUME ParseList, NEW base, base = ParentDir(found), NEW dir,
         dir = SubSeq(Place(workdir, found), 1, Len(Place(workdir, found)) - 1)
  PROVE  /\ pass = "parse" /\ UNCHANGED <<workdir, diskVars, args, inner, found, missed>>
         /\ \/ pass' = "exited" /\ UNCHANGED <<names, keys>>
               /\ result' \in {"MHL_NOT_FOUND", "WRONG_MHL_FORMAT"}
            \/ pass' = "exited" /\ UNCHANGED <<names, keys>> /\ result' = base.res /\ base.res # "OK"
            \/ /\ Place(workdir, found) \in ListFiles /\ base.res = "OK"
               /\ \A n \in lists[dir] : KeyOf(base.path, n).res = "OK"
               /\ pass' = "check" /\ UNCHANGED result
               /\ names' = lists[dir]
               /\ keys' = {KeyOf(base.path, n).path : n \in lists[dir]}
<1>1. pass = "parse" /\ UNCHANGED <<workdir, diskVars, args, inner, found, missed>>
  BY DEF ParseList
<1> DEFINE Leading1 == Place(workdir, found) \in ListFiles
           Broken == \E n \in lists[dir] : KeyOf(base.path, n).res # "OK"
           P == /\ pass' = "check" /\ UNCHANGED result
                /\ names' = lists[dir]
                /\ keys' = {KeyOf(base.path, n).path : n \in lists[dir]}
<1>2. (CASE ~Leading1 -> Finish("MHL_NOT_FOUND") /\ UNCHANGED <<names, keys>>
        [] Leading1 /\ base.res # "OK" -> Finish(base.res) /\ UNCHANGED <<names, keys>>
        [] OTHER -> IF Broken THEN Finish("WRONG_MHL_FORMAT") /\ UNCHANGED <<names, keys>>
                              ELSE P)
  BY PlaceIs DEF ParseList, Leads
<1> HIDE DEF Leading1, P, Broken
<1>3. \/ pass' = "exited" /\ UNCHANGED <<names, keys>> /\ result' \in {"MHL_NOT_FOUND", "WRONG_MHL_FORMAT"}
      \/ pass' = "exited" /\ UNCHANGED <<names, keys>> /\ result' = base.res /\ base.res # "OK"
      \/ Leading1 /\ base.res = "OK" /\ ~Broken /\ P
  <2>1. CASE ~Leading1
    BY ONLY <1>2, <2>1 DEF Finish
  <2>2. CASE Leading1 /\ base.res # "OK"
    BY ONLY <1>2, <2>2 DEF Finish
  <2>3. CASE Leading1 /\ base.res = "OK"
    BY ONLY <1>2, <2>3 DEF Finish
  <2> QED BY <2>1, <2>2, <2>3
<1> QED BY ONLY <1>1, <1>3 DEF Leading1, Broken, P

LEMMA ParseShape == ASSUME Shape, Phases, ParseList PROVE ShapeAndPhases'
<1> DEFINE base == ParentDir(found)
<1>1. base.res \in Codes
  BY ParentPath, ResultCodes, ParentIs DEF Shape
<1>2. pass = "parse" /\ UNCHANGED <<workdir, diskVars, args, inner, found, missed>>
      /\ \/ pass' = "exited" /\ result' \in Codes
         \/ pass' = "check" /\ result' = result
  <2>1. /\ pass = "parse" /\ UNCHANGED <<workdir, diskVars, args, inner, found, missed>>
        /\ \/ pass' = "exited" /\ result' \in {"MHL_NOT_FOUND", "WRONG_MHL_FORMAT", base.res}
           \/ pass' = "check" /\ result' = result
    BY ParseCases
  <2> HIDE DEF base
  <2> QED BY ONLY <1>1, <2>1 DEF Codes
<1>3. Shape'
  BY ONLY <1>2, Shape DEF Shape, diskVars
<1>4. Phases'
  BY ONLY <1>2, Phases DEF Phases, diskVars
<1> QED BY <1>3, <1>4 DEF ShapeAndPhases

LEMMA CheckShape == ASSUME Shape, Phases, CheckPaths \/ CheckList PROVE ShapeAndPhases'
<1>1. pass = "check" /\ pass' = "exited" /\ result' \in Codes
      /\ UNCHANGED <<workdir, diskVars, args, inner, found, names, keys>>
  BY FinishIs DEF CheckPaths, CheckList, Codes
<1>2. Shape'
  BY ONLY <1>1, Shape DEF Shape, diskVars
<1>3. Phases'
  BY ONLY <1>1, Phases DEF Phases, diskVars
<1> QED BY <1>2, <1>3 DEF ShapeAndPhases

LEMMA OthersShape == ASSUME Shape, Phases, RemoveList \/ CopyFolder PROVE ShapeAndPhases'
<1>1. CASE RemoveList
  <2>1. PICK d \in Folders : /\ lists' = [lists EXCEPT ![d] = NoList]
                             /\ Touch({d}) /\ UNCHANGED files
    BY <1>1 DEF RemoveList
  <2>2. DOMAIN lists' = DOMAIN lists /\ touched' \subseteq touched \cup {d}
    BY ONLY <2>1 DEF Touch
  <2>3. edits < MaxEdits /\ edits' = edits + 1 /\ UNCHANGED <<workdir, seals, pass, verifyVars>>
    BY ONLY <2>1 DEF Touch
  <2>4. edits' \in 0..MaxEdits
    BY ONLY <2>3, Shape, Constants DEF Shape
  <2>5. Shape'
    BY ONLY <2>2, <2>3, <2>4, Shape DEF Shape, verifyVars
  <2>6. Phases'
    BY ONLY <2>3, Phases DEF Phases, verifyVars
  <2> QED BY <2>5, <2>6 DEF ShapeAndPhases
<1>2. CASE CopyFolder
  <2> DEFINE copied == {d \in Folders : Below(CopyFrom, d) /\ lists[d] # NoList}
             images == {Image(d) : d \in copied}
  <2>1. DOMAIN lists' = Folders /\ Touch(images)
    BY <1>2 DEF CopyFolder
  <2>2. images \subseteq Folders
    BY LocateAssumption
  <2> HIDE DEF images
  <2>3. touched' \subseteq touched \cup images
    BY ONLY <2>1 DEF Touch
  <2>4. edits < MaxEdits /\ edits' = edits + 1 /\ UNCHANGED <<workdir, seals, pass, verifyVars>>
    BY ONLY <2>1 DEF Touch
  <2>5. edits' \in 0..MaxEdits
    BY ONLY <2>4, Shape, Constants DEF Shape
  <2>6. Shape'
    BY ONLY <2>1, <2>2, <2>3, <2>4, <2>5, Shape DEF Shape, verifyVars
  <2>7. Phases'
    BY ONLY <2>4, Phases DEF Phases, verifyVars
  <2> QED BY <2>6, <2>7 DEF ShapeAndPhases
<1> QED BY <1>1, <1>2

LEMMA ShapeStep == ASSUME Shape, Phases, [Next]_vars PROVE ShapeAndPhases'
<1>1. CASE UNCHANGED vars
  BY <1>1 DEF ShapeAndPhases, Shape, Phases, vars, diskVars, verifyVars
<1>2. CASE Stopped
  BY <1>1, <1>2 DEF Stopped
<1> QED BY <1>1, <1>2, SealShape, BeginShape, SearchShape, ParseShape, CheckShape, OthersShape
        DEF Next, Program

\* Whatever lists come and go, mhl verify keeps its variables in their types:
\* paths keep the items file_path_decomposition.c allows, and the result is one
\* of the codes that search_mhl_wfile and what it calls return.
THEOREM TypeCorrect == Spec => []TypeOK
<1>1. Init => Shape /\ Phases
  BY InitShape
<1>2. Shape /\ Phases /\ [Next]_vars => (Shape /\ Phases)'
  BY ShapeStep DEF ShapeAndPhases
<1>3. Shape /\ Phases => TypeOK
  <2> SUFFICES ASSUME Shape, Phases PROVE TypeOK
    OBVIOUS
  <2>1. Len(args) <= 1
    <3>1. CASE args = <<>>
      BY <3>1
    <3>2. ASSUME NEW a \in ArgPaths, args = <<a>> PROVE Len(args) <= 1
      BY <3>2
    <3> QED BY ONLY <3>1, <3>2, Shape DEF Shape
  <2> QED BY ONLY <2>1, Shape, Phases DEF Shape, Phases, TypeOK, Codes
<1> QED BY <1>1, <1>2, <1>3, PTL DEF Spec

(***************************************************************************)
(* Lists lead to files.                                                    *)
(***************************************************************************)
LEMMA LastRest ==
  ASSUME NEW I, NEW d \in Seq(I), NEW p \in Seq(I), Below(d, p), Rest(d, p) # <<>>
  PROVE  Last(Rest(d, p)) = Last(p)
<1> DEFINE r == Rest(d, p)
<1>1. r \in Seq(I) /\ Len(r) = Len(p) - Len(d) /\ Len(d) <= Len(p) /\ r # <<>>
  BY RestIs
<1>2. Len(r) # 0
  BY ONLY <1>1, Lengths
<1>3. \A i \in 1..(Len(p) - Len(d)) : r[i] = p[Len(d) + i]
  BY <1>1 DEF Rest
<1> HIDE DEF r
<1>4. r[Len(p) - Len(d)] = p[Len(p)]
  <2>1. Len(p) - Len(d) \in 1..(Len(p) - Len(d)) /\ Len(d) + (Len(p) - Len(d)) = Len(p)
    BY ONLY <1>1, <1>2, d \in Seq(I), p \in Seq(I)
  <2>2. r[Len(p) - Len(d)] = p[Len(d) + (Len(p) - Len(d))]
    BY ONLY <1>3, <2>1
  <2> QED BY ONLY <2>1, <2>2
<1> QED BY ONLY <1>1, <1>4 DEF Last, r

LEMMA ListFile ==
  ASSUME NEW d \in Folders
  PROVE  /\ IsFile(Append(d, MhlName)) /\ Last(Append(d, MhlName)) = MhlName
         /\ Front(Append(d, MhlName)) = d
<1>1. d \in Seq(Names) /\ MhlName \in Names
  BY FoldersAre, Constants
<1>2. /\ Append(d, MhlName) \in Seq(Names) /\ Append(d, MhlName) # <<>>
      /\ Last(Append(d, MhlName)) = MhlName /\ Front(Append(d, MhlName)) = d
  BY ONLY <1>1, LastAppend
<1> QED BY ONLY <1>2, d \in Folders DEF IsFile

\* The walk over the files below a path.
LEMMA TextsAre ==
  ASSUME NEW p, NEW real, real = Place(workdir, p), \A f \in files : IsFile(f)
  PROVE  /\ \A t \in TextsOf(p) : \E path \in files \cup ListFiles :
              Below(real, path) /\ t = TextOf(p, real, path)
         /\ \A path \in files \cup ListFiles :
              Below(real, path) => TextOf(p, real, path) \in TextsOf(p)
         /\ \A path \in files \cup ListFiles :
              IsFile(path) /\ (path \in files \/ Last(path) = MhlName)
<1>1. \A path \in ListFiles : IsFile(path) /\ Last(path) = MhlName
  BY ListFile DEF ListFiles
<1>2. TextsOf(p) = {TextOf(p, real, path) : path \in {f \in files \cup ListFiles : Below(real, f)}}
  BY PlaceIs DEF TextsOf, TextOf
<1> QED BY <1>1, <1>2

\* The name of a file in a list made for a folder.
NameFrom(w, out, t) ==
  Then(Canonical(Abs(w), out), LAMBDA dir :
    Then(Canonical(Abs(w), t), LAMBDA f : ExtractRelative(dir, f)))

LEMMA NameIs ==
  ASSUME NEW w \in Folders, NEW out \in Paths, NEW o \in Folders, o = Place(w, out),
         NEW t \in Paths, NEW path \in Seq(Names), Place(w, t) = path,
         NEW r, r = NameFrom(w, out, t), r.res = "OK"
  PROVE  Below(o, path) /\ r.path = Rel(Rest(o, path)) /\ IsName(r.path)
<1> DEFINE c == Canonical(Abs(w), out)
           e == Canonical(Abs(w), t)
           x == ExtractRelative(c.path, e.path)
<1>1. r = IF c.res = "OK" THEN (IF e.res = "OK" THEN x ELSE e) ELSE c
  BY DEF Then, NameFrom
<1>2. c.res = "OK" /\ e.res = "OK" /\ r = x
  <2> HIDE DEF c, e, x
  <2> QED BY ONLY <1>1, r.res = "OK"
<1>3. o \in Seq(Names) /\ o # Nowhere /\ path # Nowhere
  BY FoldersAre
<1>4. c = Good(Abs(o))
  BY <1>2, <1>3, CanonicalPlace
<1>5. e = Good(Abs(path))
  BY <1>2, <1>3, CanonicalPlace
<1>6. c.path = Abs(o) /\ e.path = Abs(path)
  BY ONLY <1>4, <1>5 DEF Good
<1> HIDE DEF c, e
<1>7. x = IF Below(o, path) THEN ToText(Rel(Rest(o, path))) ELSE Bad("WRONG_FILE_LOCATION")
  BY ONLY <1>6 DEF ExtractRelative, IsNested, Abs, Below, Rest
<1>8. Below(o, path) /\ r = ToText(Rel(Rest(o, path)))
  <2> HIDE DEF x
  <2> QED BY ONLY <1>2, <1>7, r.res = "OK" DEF Bad
<1>9. Rest(o, path) \in Seq(Names)
  BY <1>3, <1>8, RestIs
<1> DEFINE n == Rest(o, path)
<1>10. n \in Seq(Items) /\ n \in Seq(Names)
  BY <1>9, NamesAreItems
<1> HIDE DEF n
<1>11. r = ToText(Rel(n))
  BY <1>8 DEF n
<1>12. n # <<>> /\ r = Good(Rel(n))
  BY ONLY <1>11, r.res = "OK" DEF ToText, Rel, Bad
<1>13. IsName(r.path) /\ r.path = Rel(n)
  <2>1. Rel(n) \in Paths /\ Rel(n).items = n /\ Rel(n).abs = FALSE
    BY <1>10, MadePath
  <2> QED BY ONLY <1>10, <1>12, <2>1 DEF Good, IsName
<1> QED BY ONLY <1>8, <1>13 DEF n

LEMMA SealDisk == ASSUME Shape, Disk, SealList PROVE Disk'
<1>1. PICK out \in OutPaths, arg \in ArgPaths :
        /\ Leads(out, Folders) /\ Leads(arg, Folders \cup files)
        /\ LET given == {NameIn(out, text) : text \in TextsOf(arg)}
           IN /\ \A r \in given : r.res = "OK"
              /\ lists' = [lists EXCEPT ![RealPath(out)] = {r.path : r \in given}]
  BY DEF SealList
<1> DEFINE o == Place(workdir, out)
           real == Place(workdir, arg)
           given == {NameIn(out, text) : text \in TextsOf(arg)}
<1>2. workdir \in Folders /\ out \in Paths /\ arg \in Paths
  BY Started, Constants
<1>3. o \in Folders /\ real \in Folders \cup files
  BY <1>1, PlaceIs DEF Leads
<1>4. real \in Seq(Names)
  BY <1>3, FoldersAre DEF Disk, IsFile
<1>5. lists' = [lists EXCEPT ![o] = {r.path : r \in given}] /\ \A r \in given : r.res = "OK"
  BY <1>1, PlaceIs
<1>6. files' = files
  BY DEF SealList
<1> HIDE DEF o, real
<1>7. ASSUME NEW r \in given PROVE Leading(r.path, o, files)
  <2>1. PICK t \in TextsOf(arg) : r = NameIn(out, t)
    BY <1>7
  <2>2. PICK path \in files \cup ListFiles :
          Below(real, path) /\ t = TextOf(arg, real, path)
          /\ IsFile(path) /\ (path \in files \/ Last(path) = MhlName)
    BY <2>1, TextsAre DEF Disk, real
  <2>3. t \in Paths /\ Place(workdir, t) = path
    BY <1>2, <1>4, <2>2, TextIs DEF IsFile, real
  <2>4. r.res = "OK"
    BY <1>5, <1>7
  <2>5. path \in Seq(Names)
    BY <2>2 DEF IsFile
  <2>6. r = NameFrom(workdir, out, t)
    BY <2>1 DEF NameIn, NameFrom
  <2>7. Below(o, path) /\ r.path = Rel(Rest(o, path)) /\ IsName(r.path)
    BY <1>2, <1>3, <2>3, <2>4, <2>5, <2>6, NameIs DEF o
  <2> DEFINE n == Rest(o, path)
  <2>8. r.path.items = n /\ n # <<>>
    BY ONLY <2>7 DEF Rel, IsName
  <2>9. o \in Seq(Names)
    BY <1>3, FoldersAre
  <2>10. Join(o, n) = path /\ Last(n) = Last(path)
    BY ONLY <2>5, <2>7, <2>8, <2>9, RestIs, LastRest DEF Join
  <2> HIDE DEF n
  <2> QED BY ONLY <2>2, <2>7, <2>8, <2>10 DEF Leading
<1> HIDE DEF given
<1>8. \A d \in Folders : lists'[d] # NoList => \A n \in lists'[d] : Leading(n, d, files)
  <2> SUFFICES ASSUME NEW d \in Folders, lists'[d] # NoList, NEW n \in lists'[d]
               PROVE  Leading(n, d, files)
    OBVIOUS
  <2>1. CASE d = o
    <3>1. PICK r \in given : n = r.path
      BY <1>5, <2>1 DEF Shape
    <3> QED BY <1>7, <2>1, <3>1
  <2>2. CASE d # o
    <3>1. lists'[d] = lists[d]
      BY <1>5, <2>2 DEF Shape
    <3> QED BY <3>1 DEF Disk
  <2> QED BY <2>1, <2>2
<1> QED BY ONLY <1>6, <1>8, Disk DEF Disk

LEMMA FrontLast ==
  ASSUME NEW I, NEW s \in Seq(I), s # <<>>
  PROVE  Front(s) \in Seq(I) /\ Last(s) \in I /\ s = Append(Front(s), Last(s))
<1> DEFINE f == Front(s)
           x == Last(s)
<1>1. Len(s) # 0 /\ Len(s) \in Nat
  BY Lengths
<1>2. f \in Seq(I) /\ Len(f) = Len(s) - 1 /\ \A i \in 1..(Len(s) - 1) : f[i] = s[i]
  BY <1>1, FrontOf
<1>3. x = s[Len(s)] /\ x \in I
  BY <1>1 DEF Last
<1> HIDE DEF f, x
<1> DEFINE t == Append(f, x)
<1>4. t \in Seq(I) /\ Len(t) = Len(f) + 1 /\ t[Len(f) + 1] = x /\ \A i \in 1..Len(f) : t[i] = f[i]
  BY ONLY <1>2, <1>3
<1> HIDE DEF t
<1>5. Len(t) = Len(s)
  BY ONLY <1>1, <1>2, <1>4
<1>6. ASSUME NEW i \in 1..Len(s) PROVE t[i] = s[i]
  <2>1. CASE i = Len(s)
    BY ONLY <1>1, <1>2, <1>3, <1>4, <2>1
  <2>2. CASE i # Len(s)
    <3>1. i \in 1..Len(f)
      BY ONLY <1>1, <1>2, <2>2, i \in 1..Len(s)
    <3> QED BY ONLY <1>2, <1>4, <3>1
  <2> QED BY <2>1, <2>2
<1>7. t = s
  BY ONLY <1>4, <1>5, <1>6, s \in Seq(I), SeqEqual
<1> QED BY ONLY <1>2, <1>3, <1>7 DEF f, x, t

LEMMA ConcatFront ==
  ASSUME NEW I, NEW d \in Seq(I), NEW s \in Seq(I), s # <<>>
  PROVE  d \o s # <<>> /\ Front(d \o s) = d \o Front(s) /\ Last(d \o s) = Last(s)
<1> DEFINE f == Front(s)
           x == Last(s)
<1>1. f \in Seq(I) /\ x \in I /\ s = Append(f, x)
  BY FrontLast
<1> HIDE DEF f, x
<1>2. d \o f \in Seq(I) /\ d \o Append(f, x) = Append(d \o f, x)
  BY <1>1, Concats, ConcatAppend
<1> DEFINE g == d \o f
<1>3. g \in Seq(I) /\ d \o s = Append(g, x)
  BY ONLY <1>1, <1>2
<1> HIDE DEF g
<1>4. Append(g, x) # <<>> /\ Front(Append(g, x)) = g /\ Last(Append(g, x)) = x
  BY ONLY <1>1, <1>3, LastAppend
<1> QED BY ONLY <1>3, <1>4 DEF g, f, x

\* Copying keeps the names below a folder.
LEMMA ImageJoin ==
  ASSUME NEW e \in Seq(Names), Below(CopyFrom, e), NEW u \in Seq(Names)
  PROVE  /\ Image(e) \in Seq(Names) /\ Join(e, u) \in Seq(Names)
         /\ Below(CopyFrom, Join(e, u))
         /\ Image(Join(e, u)) = Join(Image(e), u)
<1> DEFINE r == Rest(CopyFrom, e)
           v == r \o u
<1>1. CopyFrom \in Seq(Names) /\ CopyTo \in Seq(Names)
  BY LocateAssumption, FoldersAre
<1>2. r \in Seq(Names) /\ CopyFrom \o r = e
  BY <1>1, RestIs
<1> HIDE DEF r
<1>3. v \in Seq(Names)
  BY <1>2, Concats
<1>4. (CopyFrom \o r) \o u = CopyFrom \o v /\ (CopyTo \o r) \o u = CopyTo \o v
  <2>0. r \in Seq(Names)
    BY <1>2
  <2>1. (CopyFrom \o r) \o u = CopyFrom \o v
    BY ONLY <1>1, <2>0, u \in Seq(Names)
  <2>2. (CopyTo \o r) \o u = CopyTo \o v
    BY ONLY <1>1, <2>0, u \in Seq(Names)
  <2> QED BY <2>1, <2>2, Zenon
<1>5. Join(e, u) = CopyFrom \o v /\ Join(e, u) \in Seq(Names)
  <2>1. Join(e, u) = CopyFrom \o v
    BY ONLY <1>2, <1>4, Zenon DEF Join
  <2>2. e \o u \in Seq(Names)
    BY ONLY e \in Seq(Names), u \in Seq(Names)
  <2> QED BY ONLY <2>1, <2>2, Zenon DEF Join
<1> HIDE DEF v
<1> DEFINE w == CopyFrom \o v
<1>6. Below(CopyFrom, w) /\ Rest(CopyFrom, w) = v
  BY <1>1, <1>3, BelowConcat
<1>7. Join(e, u) = w
  BY <1>5
<1> HIDE DEF w
<1>8. Image(Join(e, u)) = CopyTo \o v
  BY ONLY <1>6, <1>7 DEF Image, Join
<1>9. Image(e) = CopyTo \o r /\ Image(e) \in Seq(Names)
  BY <1>1, <1>2 DEF Image, Join, r
<1>10. Join(Image(e), u) = CopyTo \o v
  BY ONLY <1>4, <1>9 DEF Join
<1> QED BY ONLY <1>5, <1>6, <1>7, <1>8, <1>9, <1>10

LEMMA ImageFile ==
  ASSUME NEW f, IsFile(f), Below(CopyFrom, Front(f))
  PROVE  IsFile(Image(f))
<1> DEFINE d == Front(f)
           x == Last(f)
           u == <<x>>
<1>1. f \in Seq(Names) /\ f # <<>> /\ d \in Folders
  BY DEF IsFile
<1>2. d \in Seq(Names) /\ x \in Names /\ f = Append(d, x)
  BY <1>1, FrontLast
<1> HIDE DEF d, x
<1>3. u \in Seq(Names) /\ Join(d, u) = Append(d, x)
  BY <1>2 DEF Join
<1>4. Image(d) \in Seq(Names) /\ Image(Join(d, u)) = Join(Image(d), u)
  <2> HIDE DEF u
  <2> QED BY <1>2, <1>3, ImageJoin DEF d
<1> DEFINE i == Image(d)
<1>5. i \in Folders /\ i \in Seq(Names)
  BY <1>1, <1>4, LocateAssumption DEF d
<1> HIDE DEF i
<1>6. Join(i, u) = Append(i, x)
  BY <1>2, <1>5 DEF Join
<1>7. Image(f) = Append(i, x)
  BY ONLY <1>2, <1>3, <1>4, <1>6 DEF i
<1>8. Append(i, x) \in Seq(Names) /\ Append(i, x) # <<>> /\ Front(Append(i, x)) = i
  BY ONLY <1>2, <1>5, LastAppend
<1> QED BY ONLY <1>5, <1>7, <1>8 DEF IsFile

LEMMA CopyDisk == ASSUME Shape, Disk, CopyFolder PROVE Disk'
<1> DEFINE copied == {d \in Folders : Below(CopyFrom, d) /\ lists[d] # NoList}
           source(d) == CHOOSE e \in copied : Image(e) = d
<1>1. /\ files' = files \cup {Image(f) : f \in {f \in files : Below(CopyFrom, Front(f))}}
      /\ lists' = [d \in Folders |-> IF \E e \in copied : Image(e) = d
                                       THEN lists[source(d)] ELSE lists[d]]
  BY DEF CopyFolder
<1>2. \A f \in files' : IsFile(f)
  <2>1. \A f \in files : IsFile(f) /\ (Below(CopyFrom, Front(f)) => IsFile(Image(f)))
    BY ImageFile DEF Disk
  <2> QED BY ONLY <1>1, <2>1
<1>3. ASSUME NEW e \in copied, NEW n \in lists[e] PROVE Leading(n, Image(e), files')
  <2> DEFINE s == n.items
             f == Join(e, s)
  <2>1. e \in Folders /\ Below(CopyFrom, e) /\ Leading(n, e, files)
    BY DEF Disk
  <2>2. e \in Seq(Names) /\ s \in Seq(Names) /\ s # <<>>
    BY <2>1, FoldersAre DEF Leading, IsName
  <2>3. IsName(n) /\ (Last(s) # MhlName => f \in files)
    BY <2>1 DEF Leading
  <2> HIDE DEF s
  <2>4. Image(f) = Join(Image(e), s)
    BY <2>1, <2>2, ImageJoin
  <2>5. Front(s) \in Seq(Names) /\ Front(f) = Join(e, Front(s))
    BY <2>2, FrontLast, ConcatFront DEF Join
  <2>6. Below(CopyFrom, Front(f))
    BY <2>1, <2>2, <2>5, ImageJoin
  <2> HIDE DEF f
  <2>7. Last(s) # MhlName => Image(f) \in files'
    BY ONLY <1>1, <2>3, <2>6
  <2> QED BY ONLY <2>3, <2>4, <2>7 DEF Leading, s
<1>4. ASSUME NEW d \in Folders, NEW n \in lists[d], lists[d] # NoList PROVE Leading(n, d, files')
  BY <1>1, <1>4 DEF Leading, Disk
<1>5. ASSUME NEW d \in Folders, lists'[d] # NoList, NEW n \in lists'[d]
      PROVE  Leading(n, d, files')
  <2>1. CASE \E e \in copied : Image(e) = d
    <3>1. source(d) \in copied /\ Image(source(d)) = d
      BY <2>1
    <3>2. lists'[d] = lists[source(d)]
      BY <1>1, <2>1
    <3> HIDE DEF source, copied
    <3>3. Leading(n, Image(source(d)), files')
      BY ONLY <1>3, <3>1, <3>2, n \in lists'[d]
    <3> QED BY ONLY <3>1, <3>3
  <2>2. CASE ~\E e \in copied : Image(e) = d
    <3>1. lists'[d] = lists[d]
      BY <1>1, <2>2
    <3> QED BY <1>4, <1>5, <3>1
  <2> QED BY <2>1, <2>2
<1> QED BY ONLY <1>2, <1>5 DEF Disk

LEMMA DiskStep == ASSUME Shape, Disk, [Next]_vars PROVE Disk'
<1>1. CASE UNCHANGED <<files, lists>>
  BY <1>1 DEF Disk
<1>2. CASE RemoveList
  <2>1. PICK d \in Folders : lists' = [lists EXCEPT ![d] = NoList] /\ files' = files
    BY <1>2 DEF RemoveList
  <2>2. \A e \in Folders : lists'[e] # NoList => lists'[e] = lists[e]
    BY <2>1 DEF Shape
  <2> QED BY ONLY <2>1, <2>2, Disk DEF Disk
<1>3. CASE Program
  <2>1. UNCHANGED diskVars
    BY <1>3 DEF Program, VerifyPath, VerifyNothing, VerifyList, SearchFolder, ParseList,
                CheckPaths, CheckList
  <2> QED BY <1>1, <2>1 DEF diskVars
<1>4. CASE Stopped \/ UNCHANGED vars
  BY <1>1, <1>4 DEF Stopped, vars, diskVars
<1> QED BY <1>2, <1>3, <1>4, SealDisk, CopyDisk DEF Next

LEMMA InitDisk == Init => Disk
<1> SUFFICES ASSUME Init PROVE Disk
  OBVIOUS
<1>1. files = FilesAtStart /\ \A d \in Folders : lists[d] = NoList
  BY DEF Init
<1>2. \A f \in FilesAtStart : f \in Seq(Names) /\ f # <<>> /\ Front(f) \in Folders
  BY LocateAssumption
<1> QED BY ONLY <1>1, <1>2 DEF Disk, IsFile

\* A name mhl seal -o writes into a list (create_mhl_write_file), taken from
\* the folder of the list, leads to a file, also in a copy of the folder.
THEOREM NamesLead == Spec => []NamesLeadToFiles
<1>1. Init => Shape /\ Phases /\ Disk
  BY InitShape, InitDisk
<1>2. Shape /\ Phases /\ Disk /\ [Next]_vars => (Shape /\ Phases /\ Disk)'
  BY ShapeStep, DiskStep DEF ShapeAndPhases
<1>3. Shape /\ Phases /\ Disk => NamesLeadToFiles
  BY DEF Disk, Leading, NamesLeadToFiles
<1> QED BY <1>1, <1>2, <1>3, PTL DEF Spec

(***************************************************************************)
(* The search.                                                             *)
(***************************************************************************)
LEMMA NamedPlace ==
  ASSUME NEW w, NEW t \in Seq(Names), t = <<>> \/ Front(t) \in Folders
  PROVE  Place(w, Abs(t)) = t
<1> DEFINE none == <<>>
<1>1. none \in Seq(Items) /\ none \in Seq(Names) /\ none \o t = t
  BY Concats
<1>2. Reached(none, none) = none
  BY <1>1, ReachedEmpty
<1>3. Join(none, t) = t
  BY <1>1 DEF Join
<1>4. Place(w, Abs(t)) = Reached(none, t)
  BY DEF Place, Start, Abs
<1> HIDE DEF none
<1>5. t = <<>> \/ Front(Join(none, t)) \in Folders
  BY ONLY <1>3, t = <<>> \/ Front(t) \in Folders
<1>6. Reached(none, Join(none, t)) = Join(none, t)
  BY ONLY <1>1, <1>2, <1>5, t \in Seq(Names), ReachedNames
<1> QED BY ONLY <1>3, <1>4, <1>6

\* One step up from a path below which everything is passed.
LEMMA StepUp ==
  ASSUME NEW r \in Seq(Names), r = <<>> \/ Front(r) \in Folders,
         NEW i \in Seq(Names), i # <<>>, Below(i, r), NEW q, q = Front(i)
  PROVE  /\ q \in Over(r) /\ q \in Seq(Names)
         /\ \A d \in Over(r) : /\ Below(q, d) /\ d # q => Below(i, d)
                               /\ ~Below(i, d) => Below(d, q)
<1>1. q \in Seq(Names) /\ Len(q) = Len(i) - 1 /\ Below(q, i)
  BY FrontIs
<1>2. Len(i) <= Len(r) /\ Below(q, r)
  BY <1>1, BelowBelow
<1>3. q # r
  BY <1>1, <1>2
<1>4. q \in Folders
  BY <1>1, <1>2, <1>3, FoldersAbove
<1>5. ASSUME NEW d \in Over(r)
      PROVE  /\ Below(q, d) /\ d # q => Below(i, d)
             /\ ~Below(i, d) => Below(d, q)
  <2>1. d \in Seq(Names) /\ Below(d, r)
    BY FoldersAre DEF Over
  <2>2. ASSUME Len(i) <= Len(d) PROVE Below(i, d)
    BY <2>1, <2>2, BelowBelow
  <2>3. ASSUME ~(Len(i) <= Len(d)) PROVE Below(d, q)
    <3>1. Len(d) <= Len(q)
      BY ONLY <1>1, <2>1, <2>3, i \in Seq(Names)
    <3> QED BY ONLY <1>1, <1>2, <2>1, <3>1, r \in Seq(Names), BelowBelow
  <2>4. ASSUME Below(q, d), d # q PROVE Len(i) <= Len(d)
    <3>1. Len(q) <= Len(d) /\ Len(q) # Len(d)
      BY ONLY <1>1, <2>1, <2>4, BelowBelow
    <3> QED BY ONLY <1>1, <2>1, <3>1, i \in Seq(Names)
  <2> QED BY ONLY <2>2, <2>3, <2>4
<1> QED BY <1>1, <1>2, <1>3, <1>4, <1>5 DEF Over

SearchInv == Searched /\ Nearest /\ Reasons

LEMMA SearchSearch == ASSUME Shape, Phases, SearchInv, SearchFolder PROVE SearchInv'
<1> DEFINE dir == ParentDir(inner)
           a == args[1]
           r == Place(workdir, a)
           i == inner.items
           q == Front(i)
<1>1. /\ pass = "search" /\ UNCHANGED <<workdir, diskVars, args, names, keys, missed>>
      /\ SearchEnds(dir) \/ SearchFinds(dir) \/ SearchGoesOn(dir)
  BY SearchCases
<1>2. inner \in Paths /\ inner.abs /\ found = NoPath
  BY <1>1 DEF Shape, Phases
<1>3. CASE ~(args # <<>> /\ PlainAt(workdir, a))
  BY <1>1, <1>3 DEF SearchInv, Searched, Nearest, Reasons, diskVars
<1>4. CASE args # <<>> /\ PlainAt(workdir, a)
  <2>1. workdir \in Folders /\ a \in Paths
    BY <1>4, Started
  <2>2. r \in Seq(Names) /\ (r = <<>> \/ Front(r) \in Folders)
    BY <1>4, <2>1, PlainIs
  <2>3. i \in Seq(Names) /\ Below(i, r) /\ \A d \in Over(r) : Below(i, d) => Passed(lists, touched, d)
    BY <1>1, <1>4 DEF SearchInv, Searched
  <2>4. /\ dir.res = "OK" => i # <<>> /\ dir = Good(Abs(q))
        /\ dir.res # "OK" => i = <<>> \/ q = <<>>
    BY ONLY <1>2, <2>3, ParentPath
  <2>5. ASSUME i # <<>>
        PROVE  /\ q \in Over(r) /\ q \in Seq(Names) /\ Len(q) = Len(i) - 1
               /\ \A d \in Over(r) : /\ Below(q, d) /\ d # q => Below(i, d)
                                     /\ ~Below(i, d) => Below(d, q)
    BY ONLY <2>2, <2>3, <2>5, StepUp, FrontIs
  <2>6. ASSUME i # <<>> PROVE Place(workdir, Abs(q)) = q /\ q \in Folders
    <3>1. q \in Folders
      BY <2>5, <2>6 DEF Over
    <3>2. q \in Seq(Names) /\ (q = <<>> \/ Front(q) \in Folders)
      BY <3>1, FoldersAre
    <3> QED BY ONLY <3>1, <3>2, NamedPlace
  <2> HIDE DEF dir, a, r, i, q
  <2>7. CASE SearchEnds(dir)
    <3>1. pass' = "exited" /\ found' = NoPath /\ UNCHANGED <<workdir, args, lists, touched>>
      BY ONLY <1>1, <1>2, <2>7 DEF SearchEnds, diskVars
    <3>2. ASSUME NEW d \in Over(r), d # <<>>, d \notin touched, lists[d] # NoList
          PROVE  \E u \in Unreadable : u \in Over(r) /\ Below(d, u)
      <4>1. ~Below(i, d)
        BY <2>3, <3>2 DEF Passed
      <4>2. d \in Seq(Names) /\ Below(d, r) /\ Len(d) # 0
        BY <3>2, FoldersAre, Lengths DEF Over
      <4>3. ~(Len(i) <= Len(d))
        BY ONLY <4>1, <4>2, <2>2, <2>3, BelowBelow
      <4>4. i # <<>>
        BY ONLY <2>3, <4>2, <4>3, Lengths
      <4>5. q # <<>>
        <5>1. Len(q) # 0
          BY ONLY <2>3, <2>5, <4>2, <4>3, <4>4
        <5> QED BY ONLY <5>1, <2>5, <4>4, Lengths
      <4>6. dir.res = "OK" /\ dir = Good(Abs(q))
        BY ONLY <2>4, <4>4, <4>5
      <4>7. ~Stands(Abs(q))
        BY ONLY <2>7, <4>6 DEF SearchEnds, Good
      <4>8. q \in Unreadable
        BY ONLY <2>6, <4>4, <4>7 DEF Stands
      <4> QED BY ONLY <2>5, <3>2, <4>1, <4>4, <4>8
    <3>3. Reasons'
      BY ONLY <3>1, <3>2 DEF Reasons, r, a
    <3> QED BY ONLY <3>1, <3>3 DEF SearchInv, Searched, Nearest
  <2>8. CASE SearchFinds(dir)
    <3>1. pass' = "parse" /\ UNCHANGED <<workdir, args, lists, touched>> /\ dir.res = "OK"
      BY ONLY <1>1, <2>8 DEF SearchFinds, diskVars
    <3>2. i # <<>> /\ dir = Good(Abs(q))
      BY ONLY <2>4, <3>1
    <3>3. found' = Abs(Append(q, MhlName))
      BY ONLY <2>8, <3>2 DEF SearchFinds, ConcatParts, Good, WithItems, Abs
    <3>4. DirOf(workdir, Abs(Append(q, MhlName))) = q
      <4>1. IsFile(Append(q, MhlName)) /\ Front(Append(q, MhlName)) = q
        BY <2>6, <3>2, ListFile
      <4>2. Place(workdir, Abs(Append(q, MhlName))) = Append(q, MhlName)
        BY <4>1, NamedPlace DEF IsFile
      <4> QED BY ONLY <4>1, <4>2 DEF DirOf
    <3>5. \A d \in Over(r) : Below(q, d) /\ d # q => Passed(lists, touched, d)
      BY ONLY <2>3, <2>5, <3>2
    <3>6. q \in Over(r)
      BY ONLY <2>5, <3>2
    <3>7. DirOf(workdir', found') = q
      BY ONLY <3>1, <3>3, <3>4
    <3>8. Nearest'
      BY ONLY <3>1, <3>5, <3>6, <3>7 DEF Nearest, r, a
    <3> QED BY ONLY <3>1, <3>8 DEF SearchInv, Searched, Reasons
  <2>9. CASE SearchGoesOn(dir)
    <3>1. pass' = "search" /\ UNCHANGED <<workdir, args, lists, touched, found>> /\ dir.res = "OK"
      BY ONLY <1>1, <2>9 DEF SearchGoesOn, diskVars
    <3>2. i # <<>> /\ dir = Good(Abs(q))
      BY ONLY <2>4, <3>1
    <3>3. inner' = Abs(q) /\ Stands(Abs(q)) /\ lists[Place(workdir, Abs(q))] = NoList
      BY ONLY <2>9, <3>2 DEF SearchGoesOn, Good
    <3>4. inner'.items = q
      BY ONLY <3>3 DEF Abs
    <3>5. Passed(lists, touched, q)
      BY ONLY <2>6, <3>2, <3>3 DEF Stands, Passed
    <3>6. \A d \in Over(r) : Below(q, d) => Passed(lists, touched, d)
      BY ONLY <2>3, <2>5, <3>2, <3>5
    <3>7. q \in Seq(Names) /\ Below(q, r)
      BY ONLY <2>5, <3>2 DEF Over
    <3>8. Searched'
      BY ONLY <3>1, <3>4, <3>6, <3>7 DEF Searched, r, a
    <3>9. found' = NoPath
      BY ONLY <1>2, <3>1
    <3> QED BY ONLY <3>1, <3>8, <3>9 DEF SearchInv, Nearest, Reasons
  <2> QED BY <1>1, <2>7, <2>8, <2>9
<1> QED BY <1>3, <1>4

LEMMA SearchBegins == ASSUME Shape, Phases, VerifyPath PROVE SearchInv'
<1>1. PICK a \in ArgPaths :
        /\ args' = <<a>>
        /\ LET abs == ConvertToAbsoluteNormalized(Abs(workdir), a)
           IN IF abs.res = "OK"
                THEN pass' = "search" /\ inner' = abs.path /\ UNCHANGED result
                ELSE Finish(abs.res) /\ UNCHANGED inner
  BY DEF VerifyPath
<1> DEFINE abs == ConvertToAbsoluteNormalized(Abs(workdir), a)
           r == Place(workdir, a)
<1>2. \/ pass' = "search" /\ inner' = abs.path /\ abs.res = "OK"
      \/ pass' = "exited" /\ inner' = inner /\ abs.res # "OK"
  BY ONLY <1>1 DEF Finish
<1>3. found' = NoPath /\ UNCHANGED <<workdir, lists, touched>>
  BY DEF VerifyPath, Phases, diskVars
<1>4. args'[1] = a
  BY <1>1
<1>5. CASE ~PlainAt(workdir, a)
  BY ONLY <1>3, <1>4, <1>5 DEF SearchInv, Searched, Nearest, Reasons
<1>6. CASE PlainAt(workdir, a)
  <2>1. workdir \in Folders /\ a \in Paths
    BY Started, Constants
  <2>2. r \in Seq(Names) /\ a.abs \in BOOLEAN
    BY <1>6, <2>1, PlainIs, PathIs
  <2>3. abs = Good(Abs(r)) \/ (r = <<>> /\ abs = Bad("INTERNAL_ERROR"))
    BY <1>6, <2>1, <2>2, PlainIs
  <2> HIDE DEF abs
  <2>4. abs.res = "OK" => abs.path.items = r
    BY ONLY <2>3 DEF Good, Bad, Abs
  <2>5. abs.res # "OK" => r = <<>>
    BY ONLY <2>3 DEF Good
  <2>6. \A d \in Over(r) : ~Below(r, d)
    <3> SUFFICES ASSUME NEW d \in Over(r), Below(r, d) PROVE FALSE
      OBVIOUS
    <3>1. d \in Seq(Names) /\ Below(d, r) /\ d # r
      BY FoldersAre DEF Over
    <3>2. Len(d) = Len(r)
      <4>1. Len(d) <= Len(r) /\ Len(r) <= Len(d)
        BY ONLY <2>2, <3>1, Below(r, d), BelowBelow
      <4>2. Len(d) \in Nat /\ Len(r) \in Nat
        BY ONLY <2>2, <3>1
      <4> QED BY ONLY <4>1, <4>2
    <3> QED BY ONLY <2>2, <3>1, <3>2, BelowBelow
  <2>7. Below(r, r) /\ Below(<<>>, r)
    BY <2>2, BelowBelow
  <2>8. r = <<>> => Over(r) = {}
    <3> SUFFICES ASSUME r = <<>>, NEW d \in Over(r) PROVE FALSE
      OBVIOUS
    <3>1. d \in Seq(Names)
      BY FoldersAre DEF Over
    <3>2. Below(<<>>, d)
      BY ONLY <3>1, BelowBelow
    <3> QED BY <2>6, <3>2
  <2> HIDE DEF r
  <2>9. r = Place(workdir', args'[1])
    BY <1>3, <1>4 DEF r
  <2>10. Searched'
    BY ONLY <1>2, <2>2, <2>4, <2>6, <2>7, <2>9 DEF Searched
  <2>11. Reasons'
    BY ONLY <1>2, <2>5, <2>8, <2>9 DEF Reasons
  <2>12. Nearest'
    BY ONLY <1>3 DEF Nearest
  <2> QED BY <2>10, <2>11, <2>12 DEF SearchInv
<1> QED BY <1>5, <1>6

LEMMA OthersSearch == ASSUME Shape, Phases, SearchInv, RemoveList \/ CopyFolder PROVE SearchInv'
<1>1. pass # "exited" /\ UNCHANGED <<workdir, pass, args, inner, found>>
  BY DEF RemoveList, CopyFolder, Touch, verifyVars
<1>2. CASE args = <<>>
  BY ONLY <1>1, <1>2 DEF SearchInv, Searched, Nearest, Reasons
<1>3. CASE args # <<>>
  <2>1. pass # "seal"
    BY <1>3 DEF Phases
  <2>2. ASSUME NEW d \in Folders, Passed(lists, touched, d) PROVE Passed(lists', touched', d)
    <3>1. CASE RemoveList
      <4>1. PICK e \in Folders : lists' = [lists EXCEPT ![e] = NoList] /\ Touch({e})
        BY <3>1 DEF RemoveList
      <4>2. touched' = touched \cup {e}
        BY ONLY <2>1, <4>1 DEF Touch
      <4>3. d = e \/ lists'[d] = lists[d]
        BY ONLY <4>1
      <4> QED BY ONLY <2>2, <4>2, <4>3 DEF Passed
    <3>2. CASE CopyFolder
      <4> DEFINE copied == {e \in Folders : Below(CopyFrom, e) /\ lists[e] # NoList}
                 images == {Image(e) : e \in copied}
                 source == CHOOSE e \in copied : Image(e) = d
      <4>1. lists'[d] = IF d \in images THEN lists[source] ELSE lists[d]
        BY <3>2 DEF CopyFolder
      <4>2. touched' = touched \cup images
        BY <2>1, <3>2 DEF CopyFolder, Touch
      <4> HIDE DEF images, source
      <4> QED BY ONLY <2>2, <4>1, <4>2 DEF Passed
    <3> QED BY <3>1, <3>2
  <2>3. \A place : \A d \in Over(place) : d \in Folders
    BY DEF Over
  <2>4. Searched'
    BY ONLY <1>1, <2>2, <2>3, SearchInv DEF SearchInv, Searched
  <2>5. Nearest'
    BY ONLY <1>1, <2>2, <2>3, SearchInv DEF SearchInv, Nearest
  <2>6. Reasons'
    BY ONLY <1>1 DEF Reasons
  <2> QED BY <2>4, <2>5, <2>6 DEF SearchInv
<1> QED BY <1>2, <1>3

LEMMA SearchStep == ASSUME Shape, Phases, SearchInv, [Next]_vars PROVE SearchInv'
<1>1. CASE SealList
  BY <1>1 DEF SealList, verifyVars, Phases, SearchInv, Searched, Nearest, Reasons
<1>2. CASE VerifyNothing \/ VerifyList
  <2>1. args' = <<>>
    BY <1>2 DEF VerifyNothing, VerifyList, Phases
  <2> QED BY ONLY <2>1 DEF SearchInv, Searched, Nearest, Reasons
<1>3. CASE ParseList \/ CheckPaths \/ CheckList
  <2>1. pass \in {"parse", "check"} /\ pass' \in {"check", "exited"}
        /\ UNCHANGED <<workdir, lists, touched, args, found>>
    <3>1. CASE ParseList
      <4>1. pass = "parse" /\ UNCHANGED <<workdir, diskVars, args, inner, found, missed>>
        BY <3>1 DEF ParseList
      <4>2. pass' \in {"check", "exited"}
        BY <3>1, ParseCases
      <4> QED BY ONLY <4>1, <4>2 DEF diskVars
    <3>2. CASE CheckPaths \/ CheckList
      BY <3>2, FinishIs DEF CheckPaths, CheckList, diskVars
    <3> QED BY <1>3, <3>1, <3>2
  <2>2. found # NoPath
    BY <2>1 DEF Phases, NoPath, Rel
  <2> QED BY ONLY <2>1, <2>2, SearchInv DEF SearchInv, Searched, Nearest, Reasons
<1>4. CASE Stopped \/ UNCHANGED vars
  BY <1>4 DEF Stopped, vars, diskVars, verifyVars, SearchInv, Searched, Nearest, Reasons
<1> QED BY <1>1, <1>2, <1>3, <1>4, SearchSearch, SearchBegins, OthersSearch DEF Next, Program

LEMMA InitSearch == Init => SearchInv
  BY DEF Init, SearchInv, Searched, Nearest, Reasons

LEMMA ViewsAre ==
  /\ \A t : Plain(t) <=> PlainAt(workdir, t)
  /\ \A t : Above(t) = Over(Place(workdir, t))
  /\ FoundDir = DirOf(workdir, found)
<1>1. ASSUME NEW t PROVE Plain(t) <=> PlainAt(workdir, t)
  BY PlaceIs DEF Plain, PlainAt
<1>2. ASSUME NEW t PROVE Above(t) = Over(Place(workdir, t))
  BY PlaceIs DEF Above, Over
<1>3. FoundDir = DirOf(workdir, found)
  BY PlaceIs DEF FoundDir, DirOf
<1> QED BY ONLY <1>1, <1>2, <1>3

\* Each turn of the loop of search_mhl_wfile has passed the folders between the
\* path and the one it is at: they can be read and have no list.
THEOREM SearchInvariant == Spec => [](Shape /\ Phases /\ SearchInv)
<1>1. Init => Shape /\ Phases /\ SearchInv
  BY InitShape, InitSearch
<1>2. Shape /\ Phases /\ SearchInv /\ [Next]_vars => (Shape /\ Phases /\ SearchInv)'
  BY ShapeStep, SearchStep DEF ShapeAndPhases
<1> QED BY <1>1, <1>2, PTL DEF Spec

\* search_mhl_wfile finds the list of the nearest folder above the path: no
\* folder in between has one, and none of them hides it by being unreadable.
THEOREM NearestListFound == Spec => []NearestList
<1>1. Shape /\ Phases /\ SearchInv => NearestList
  <2> SUFFICES ASSUME SearchInv, args # <<>>, found # NoPath, Plain(args[1])
               PROVE  /\ FoundDir \in Above(args[1])
                      /\ \A d \in Above(args[1]) \ {FoundDir} : Below(FoundDir, d) =>
                           d \notin Unreadable /\ (lists[d] = NoList \/ d \in touched)
    BY DEF NearestList
  <2> QED BY ViewsAre DEF SearchInv, Nearest, Passed
<1> QED BY <1>1, SearchInvariant, PTL

\* When search_mhl_wfile finds nothing, every list above the path, but for one
\* in the root, which it never looks at, lies above a folder that cannot be read.
THEOREM SearchFailsRightly == Spec => []SearchFailsForAReason
<1>1. Shape /\ Phases /\ SearchInv => SearchFailsForAReason
  <2> SUFFICES ASSUME SearchInv, pass = "exited", args # <<>>, Plain(args[1]), found = NoPath,
                      NEW d \in Above(args[1]) \ ({<<>>} \cup touched), lists[d] # NoList
               PROVE  \E u \in Unreadable : u \in Above(args[1]) /\ Below(d, u)
    BY DEF SearchFailsForAReason
  <2> QED BY ViewsAre DEF SearchInv, Reasons
<1> QED BY <1>1, SearchInvariant, PTL

(***************************************************************************)
(* The records.                                                            *)
(***************************************************************************)
LEMMA KeyIs ==
  ASSUME NEW x \in Seq(Items), NEW p \in Folders, p = Reached(<<>>, x),
         NEW n, IsName(n), NEW k, k = CreateAbsoluteNormalized(Abs(Kept(x)), n), k.res = "OK"
  PROVE  k.path = Abs(Join(p, n.items))
<1> DEFINE kx == Kept(x)
           root == Abs(<<>>)
           u == Added(root, x)
           v == Added(u.path, n.items)
<1>1. kx \in Seq(Items) /\ root \in Paths /\ <<>> \in Folders
  <2>1. <<>> \in Seq(Items) /\ <<>> \in Seq(Names)
    OBVIOUS
  <2> QED BY <2>1, MadePath, FoldersAre, KeptNames
<1> HIDE DEF root
<1>2. Added(root, kx) = u
  BY <1>1, AddedKept
<1>3. Abs(kx) \in Paths /\ Abs(kx).abs /\ Abs(kx).items = kx
  BY <1>1, MadePath
<1>4. n \in Paths /\ ~n.abs /\ n.items \in Seq(Names) /\ n.items # <<>>
  BY DEF IsName
<1>5. k = IF Added(root, kx).res # "OK" THEN Added(root, kx)
          ELSE IF Added(Added(root, kx).path, n.items).res # "OK"
                 THEN Added(Added(root, kx).path, n.items)
          ELSE ToText(Added(Added(root, kx).path, n.items).path)
  BY <1>3, <1>4, CreateIs DEF root
<1>6. k = IF u.res # "OK" THEN u ELSE IF v.res # "OK" THEN v ELSE ToText(v.path)
  BY ONLY <1>2, <1>5
<1>7. u.res = "OK"
  <2> HIDE DEF u
  <2> QED BY ONLY <1>6, k.res = "OK"
<1>8. u.path = Abs(p)
  <2>1. Reached(<<>>, x) # Nowhere
    BY FoldersAre
  <2> QED BY <1>1, <1>7, <2>1, AddedIsReached DEF root
<1>9. v = Good(Abs(Join(p, n.items)))
  <2>1. p \in Seq(Names)
    BY FoldersAre
  <2> HIDE DEF u
  <2> QED BY <1>4, <1>8, <2>1, NamesOnto
<1> HIDE DEF u, v
<1>10. k = ToText(Abs(Join(p, n.items)))
  BY ONLY <1>6, <1>7, <1>9 DEF Good
<1> QED BY ONLY <1>10, k.res = "OK" DEF ToText, Good, Bad

LEMMA ParseParsed == ASSUME Shape, Phases, Disk, ParseList PROVE Parsed'
<1> DEFINE base == ParentDir(found)
           place == Place(workdir, found)
           dir == SubSeq(place, 1, Len(place) - 1)
           x == Front(found.items)
           p == Reached(<<>>, x)
<1>1. /\ pass = "parse" /\ UNCHANGED <<workdir, diskVars, args, inner, found, missed>>
      /\ \/ pass' = "exited"
         \/ /\ place \in ListFiles /\ base.res = "OK"
            /\ \A n \in lists[dir] : KeyOf(base.path, n).res = "OK"
            /\ pass' = "check"
            /\ names' = lists[dir]
            /\ keys' = {KeyOf(base.path, n).path : n \in lists[dir]}
  BY ParseCases
<1>2. CASE pass' = "exited"
  BY ONLY <1>2 DEF Parsed
<1>3. CASE pass' # "exited"
  <2>1. found \in Paths /\ found.abs /\ found.items # <<>> /\ Last(found.items) = MhlName
    BY <1>1 DEF Shape, Phases
  <2>2. MhlName \in Names /\ MhlName \in Items /\ MhlName # ""
    BY Constants, NamesAreItems
  <2>3. x \in Seq(Items) /\ found.items = Append(x, MhlName)
    BY <2>1, PathIs, FrontLast
  <2> HIDE DEF x
  <2>4. p \in Seq(Items) /\ place = Enter[p][MhlName]
    <3>1. <<>> \in Seq(Items)
      OBVIOUS
    <3>2. place = Reached(<<>>, Append(x, MhlName))
      BY <2>1, <2>3 DEF Place, Start
    <3> QED BY <2>2, <2>3, <3>1, <3>2, ReachedAppend
  <2> HIDE DEF p
  <2>5. PICK d \in Folders : place = Append(d, MhlName) /\ lists[d] # NoList
    BY <1>1, <1>3 DEF ListFiles
  <2>6. IsFile(Append(d, MhlName)) /\ Front(Append(d, MhlName)) = d
    BY ListFile
  <2>7. p \in Folders /\ place = Append(p, MhlName)
    <3>1. place # Nowhere
      BY <2>5, <2>6, FoldersAre DEF IsFile
    <3> HIDE DEF place
    <3>2. p \in Folders
      BY <2>2, <2>4, <3>1, EnterNowhere
    <3> QED BY <2>2, <2>4, <3>2, EnterName
  <2>8. p = d
    <3>1. Front(Append(p, MhlName)) = p
      BY <2>7, ListFile
    <3> QED BY ONLY <2>5, <2>6, <2>7, <3>1
  <2>9. dir = p /\ DirOf(workdir, found) = p
    <3>1. Front(place) = p
      BY ONLY <2>5, <2>6, <2>8
    <3>2. dir = Front(place)
      BY DEF Front
    <3> QED BY ONLY <3>1, <3>2 DEF DirOf
  <2>10. base.path = Abs(Kept(x))
    <3> DEFINE kx == Kept(x)
               k == Kept(found.items)
    <3>1. kx \in Seq(Items) /\ k = Append(kx, MhlName)
      BY <2>2, <2>3, KeptAppend
    <3>2. /\ k = <<>> => base.res = "WRONG_FILE_LOCATION"
          /\ k # <<>> /\ Front(k) = <<>> => base.res = "INTERNAL_ERROR"
          /\ k # <<>> /\ Front(k) # <<>> => base = Good(WithItems(found, Front(k)))
      BY <2>1, ParentIs
    <3> HIDE DEF kx, k
    <3>3. k # <<>> /\ Front(k) = kx
      BY ONLY <2>2, <3>1, LastAppend
    <3>4. base.res = "OK"
      BY <1>1, <1>3
    <3>5. base = Good(WithItems(found, kx))
      BY ONLY <3>2, <3>3, <3>4
    <3>6. WithItems(found, kx) = Abs(kx)
      BY ONLY <2>1, <3>1, MadePath
    <3> QED BY ONLY <3>5, <3>6 DEF Good, kx
  <2>11. \A n \in lists[p] : IsName(n)
    BY <2>5, <2>8 DEF Disk, Leading
  <2>12. \A n \in lists[p] : KeyOf(base.path, n).path = Abs(Join(p, n.items))
    <3> SUFFICES ASSUME NEW n \in lists[p] PROVE KeyOf(base.path, n).path = Abs(Join(p, n.items))
      OBVIOUS
    <3> DEFINE k == KeyOf(base.path, n)
    <3>1. k.res = "OK"
      BY <1>1, <1>3, <2>9
    <3>2. k = CreateAbsoluteNormalized(Abs(Kept(x)), n)
      BY <2>10 DEF KeyOf
    <3>3. p = Reached(<<>>, x) /\ IsName(n)
      BY <2>11 DEF p
    <3> HIDE DEF k
    <3> QED BY ONLY <2>3, <2>7, <3>1, <3>2, <3>3, KeyIs DEF k
  <2>13. names' = lists[p] /\ keys' = {KeyOf(base.path, n).path : n \in lists[p]}
    BY ONLY <1>1, <1>3, <2>9
  <2>14. keys' = KeysOf(p, names')
    BY ONLY <2>12, <2>13 DEF KeysOf
  <2>15. DirOf(workdir', found') = p
    BY ONLY <1>1, <2>9
  <2> QED BY ONLY <2>7, <2>11, <2>13, <2>14, <2>15 DEF Parsed
<1> QED BY <1>2, <1>3

LEMMA ParsedStep == ASSUME Shape, Phases, Disk, Parsed, [Next]_vars PROVE Parsed'
<1>1. CASE UNCHANGED <<pass, workdir, found, names, keys>>
  BY ONLY <1>1, Parsed DEF Parsed
<1>2. CASE SealList \/ RemoveList \/ CopyFolder \/ Stopped \/ UNCHANGED vars
  BY <1>1, <1>2 DEF SealList, RemoveList, CopyFolder, Touch, Stopped, vars, verifyVars
<1>3. CASE VerifyPath \/ VerifyNothing \/ VerifyList \/ CheckPaths \/ CheckList
  <2>1. pass' # "check"
    BY <1>3, FinishIs DEF VerifyPath, VerifyNothing, VerifyList, CheckPaths, CheckList
  <2> QED BY ONLY <2>1 DEF Parsed
<1>4. CASE SearchFolder
  <2>1. pass' # "check"
    BY <1>4, SearchCases DEF SearchEnds, SearchFinds, SearchGoesOn
  <2> QED BY ONLY <2>1 DEF Parsed
<1> QED BY <1>2, <1>3, <1>4, ParseParsed DEF Next, Program

Before == Shape /\ Phases /\ Disk /\ Parsed

LEMMA BeforeStep == Before /\ [Next]_vars => Before'
  BY ShapeStep, DiskStep, ParsedStep DEF Before, ShapeAndPhases

LEMMA InitBefore == Init => Before
  BY InitShape, InitDisk DEF Before, Init, Parsed

\* The keys parse_mhl_wfile files the records under are absolute and normalized,
\* lie below the folder of the list, and are the records' names seen from it.
THEOREM RecordsBelong == Spec => []RecordsBelongToTheFolder
<1>1. Before => RecordsBelongToTheFolder
  <2> SUFFICES ASSUME Before, pass = "check"
               PROVE  /\ \A k \in keys : k.abs /\ Below(FoundDir, k.items) /\ Normalize(k) = Good(k)
                      /\ {Rest(FoundDir, k.items) : k \in keys} = {n.items : n \in names}
    BY DEF RecordsBelongToTheFolder
  <2> DEFINE dir == FoundDir
             key(n) == Abs(Join(dir, n.items))
  <2>1. dir = DirOf(workdir, found)
    BY ViewsAre
  <2> HIDE DEF dir
  <2>2. dir \in Seq(Names) /\ (\A n \in names : IsName(n)) /\ keys = {key(n) : n \in names}
    BY <2>1, FoldersAre DEF Before, Parsed, KeysOf
  <2>3. ASSUME NEW n \in names
        PROVE  /\ key(n).abs = TRUE /\ Below(dir, key(n).items)
               /\ Normalize(key(n)) = Good(key(n))
               /\ Rest(dir, key(n).items) = n.items
    <3> DEFINE s == n.items
               t == Join(dir, s)
    <3>1. s \in Seq(Names)
      BY <2>2 DEF IsName
    <3> HIDE DEF s
    <3>2. Below(dir, t) /\ Rest(dir, t) = s
      BY <2>2, <3>1, BelowConcat DEF Join
    <3>3. t \in Seq(Names)
      BY <2>2, <3>1, NamesOnto
    <3> HIDE DEF t
    <3>4. t \in Seq(Items) /\ <<>> \in Seq(Items)
      BY <3>3, NamesAreItems, FoldersAre
    <3>5. Added(Abs(<<>>), t) = Good(Abs(t))
      BY <3>3, NamesOfRoot
    <3>6. Normalize(Abs(t)) = Added(Abs(<<>>), t)
      BY AddIs DEF Normalize, WithItems, Abs
    <3> QED BY ONLY <3>2, <3>5, <3>6 DEF Abs, s, t
  <2> HIDE DEF key
  <2>4. \A k \in keys : k.abs /\ Below(dir, k.items) /\ Normalize(k) = Good(k)
    BY ONLY <2>2, <2>3
  <2>5. {Rest(dir, k.items) : k \in keys} = {n.items : n \in names}
    <3>1. ASSUME NEW n \in names
          PROVE  n.items = Rest(dir, key(n).items) /\ key(n) \in keys
      BY ONLY <2>2, <2>3
    <3>2. ASSUME NEW k \in keys PROVE \E n \in names : Rest(dir, k.items) = n.items
      <4>1. PICK n \in names : k = key(n)
        BY ONLY <2>2
      <4> QED BY ONLY <3>1, <4>1
    <3> QED BY ONLY <3>1, <3>2
  <2> QED BY ONLY <2>4, <2>5 DEF dir
<1> QED BY <1>1, InitBefore, BeforeStep, PTL DEF Spec

LEMMA KeyFound ==
  ASSUME NEW dir \in Seq(Names), NEW ns, \A n \in ns : IsName(n), NEW path
  PROVE  Abs(path) \in KeysOf(dir, ns) <=> \E n \in ns : Join(dir, n.items) = path
<1>1. \A s, t : Abs(s) = Abs(t) <=> s = t
  BY DEF Abs
<1> QED BY ONLY <1>1 DEF KeysOf

LEMMA LookUpIs == \A t : LookUp(t) = ConvertToAbsoluteNormalized(Abs(workdir), t).path
  BY DEF LookUp

LEMMA CheckLookedUp == ASSUME Before, CheckPaths PROVE LookedUp'
<1> DEFINE a == args[1]
           r == Place(workdir, a)
           dir == DirOf(workdir, found)
           texts == TextsOf(a)
           Missed(t) == Missing(workdir, dir, names, t)
<1>1. /\ pass = "check" /\ args # <<>>
      /\ UNCHANGED <<workdir, args, found, names, keys>>
      /\ \/ missed' = {t \in texts : LookUp(t) \notin keys} /\ r \in Folders \cup files
         \/ result' = "NO_SUCH_FILE"
  BY PlaceIs, FinishIs DEF CheckPaths, Leads
<1>2. CASE result' = "NO_SUCH_FILE" \/ ~PlainAt(workdir, a)
  BY ONLY <1>1, <1>2 DEF LookedUp
<1>3. CASE missed' = {t \in texts : LookUp(t) \notin keys} /\ r \in Folders \cup files
           /\ PlainAt(workdir, a)
  <2>1. workdir \in Folders /\ a \in Paths
    BY <1>1, Started DEF Before
  <2>2. r \in Seq(Names)
    BY <1>3, <2>1, PlainIs
  <2>3. dir \in Seq(Names) /\ (\A n \in names : IsName(n)) /\ keys = KeysOf(dir, names)
    BY <1>1, FoldersAre DEF Before, Parsed
  <2>4. \A f \in files : IsFile(f)
    BY DEF Before, Disk
  <2>5. ASSUME NEW path, IsFile(path), Below(r, path)
        PROVE  LookUp(TextOf(a, r, path)) \in keys <=> ~Missed(TextOf(a, r, path))
    <3> DEFINE t == TextOf(a, r, path)
    <3>1. path \in Seq(Names) /\ path # <<>> /\ Front(path) \in Folders
      BY <2>5 DEF IsFile
    <3>2. Place(workdir, t) = path /\ ConvertToAbsoluteNormalized(Abs(workdir), t) = Good(Abs(path))
      BY <1>3, <2>1, <2>2, <2>5, <3>1, TextIs
    <3> HIDE DEF t
    <3>3. LookUp(t) = Abs(path)
      BY <3>2, LookUpIs DEF Good
    <3>4. Abs(path) \in keys <=> \E n \in names : Join(dir, n.items) = path
      BY ONLY <2>3, KeyFound
    <3>5. Missed(t) <=> ~\E n \in names : Join(dir, n.items) = path
      BY ONLY <3>2 DEF Missing
    <3> QED BY ONLY <3>3, <3>4, <3>5 DEF t
  <2>6. ASSUME NEW t \in missed' PROVE Missed(t)
    <3>1. t \in texts /\ LookUp(t) \notin keys
      BY <1>3, <2>6
    <3>2. PICK path \in files \cup ListFiles :
            Below(r, path) /\ t = TextOf(a, r, path) /\ IsFile(path)
      BY <2>4, <3>1, TextsAre
    <3> HIDE DEF Missed
    <3> QED BY ONLY <2>5, <3>1, <3>2
  <2>7. ASSUME r \notin Folders, a \notin missed' PROVE ~Missed(a)
    <3>1. r \in files /\ IsFile(r)
      BY <1>3, <2>4, <2>7
    <3>2. Below(r, r)
      BY <2>2, BelowBelow
    <3>3. TextOf(a, r, r) = a
      <4>1. Rest(r, r) = <<>>
        BY <2>2, <3>2, RestIs
      <4>2. a.items \in Seq(Items) /\ WithItems(a, a.items) = a
        BY <2>1, PathIs
      <4>3. a.items \o <<>> = a.items
        BY ONLY <4>2, Concats
      <4> QED BY ONLY <4>1, <4>2, <4>3 DEF TextOf
    <3>4. a \in texts
      BY <2>4, <3>1, <3>2, <3>3, TextsAre
    <3>5. LookUp(a) \in keys
      BY <1>3, <2>7, <3>4
    <3> HIDE DEF Missed
    <3> QED BY ONLY <2>5, <3>1, <3>2, <3>3, <3>5
  <2> HIDE DEF Missed
  <2>8. \A text \in missed' \cup {a} :
          \/ Place(workdir, text) \in Folders
          \/ text \in missed' <=> Missed(text)
    BY ONLY <2>6, <2>7 DEF r
  <2> QED BY ONLY <1>1, <2>8 DEF LookedUp, Missed, a, dir
<1> QED BY <1>1, <1>2, <1>3

LEMMA LookedUpStep == ASSUME Before, LookedUp, [Next]_vars PROVE LookedUp'
<1>1. CASE pass' # "exited" \/ args' = <<>>
  BY ONLY <1>1 DEF LookedUp
<1>2. CASE SealList \/ VerifyNothing \/ VerifyList \/ CheckList
  <2>1. pass' # "exited" \/ args' = <<>>
    BY <1>2 DEF SealList, VerifyNothing, VerifyList, CheckList, Before, Phases, verifyVars
  <2> QED BY <1>1, <2>1
<1>3. CASE RemoveList \/ CopyFolder
  BY <1>1, <1>3 DEF RemoveList, CopyFolder, Touch, verifyVars
<1>4. CASE VerifyPath \/ SearchFolder \/ ParseList
  <2>1. pass' = "exited" => result' \notin {"OK", "NO_MHL_ENTRY"}
    <3>1. CASE VerifyPath
      <4>1. PICK a \in ArgPaths :
              LET abs == ConvertToAbsoluteNormalized(Abs(workdir), a)
              IN IF abs.res = "OK"
                   THEN pass' = "search" /\ inner' = abs.path /\ UNCHANGED result
                   ELSE Finish(abs.res) /\ UNCHANGED inner
        BY <3>1 DEF VerifyPath
      <4> DEFINE abs == ConvertToAbsoluteNormalized(Abs(workdir), a)
      <4>2. abs \in Results
        BY Started, Constants, ConvertType DEF Before
      <4>3. abs.res \in {"OK", "WRONG_FILE_LOCATION", "INTERNAL_ERROR"}
        BY ONLY <4>2 DEF Results
      <4> HIDE DEF abs
      <4>4. pass' = "search" \/ (result' = abs.res /\ abs.res # "OK")
        BY ONLY <4>1 DEF Finish, abs
      <4> QED BY ONLY <4>3, <4>4
    <3>2. CASE SearchFolder
      <4> DEFINE dir == ParentDir(inner)
      <4>1. dir \in Results
        BY ParentIs DEF Before, Shape
      <4>2. dir.res \in {"OK", "WRONG_FILE_LOCATION", "INTERNAL_ERROR"}
        BY ONLY <4>1 DEF Results
      <4>3. pass = "search" /\ (SearchEnds(dir) \/ SearchFinds(dir) \/ SearchGoesOn(dir))
        BY <3>2, SearchCases
      <4> HIDE DEF dir
      <4> QED BY ONLY <4>2, <4>3 DEF SearchEnds, SearchFinds, SearchGoesOn
    <3>3. CASE ParseList
      <4> DEFINE base == ParentDir(found)
      <4>1. base \in Results
        BY ParentIs DEF Before, Shape
      <4>2. base.res \in {"OK", "WRONG_FILE_LOCATION", "INTERNAL_ERROR"}
        BY ONLY <4>1 DEF Results
      <4>3. \/ pass' = "exited" /\ result' \in {"MHL_NOT_FOUND", "WRONG_MHL_FORMAT"}
            \/ pass' = "exited" /\ result' = base.res /\ base.res # "OK"
            \/ pass' = "check"
        BY <3>3, ParseCases
      <4> HIDE DEF base
      <4> QED BY ONLY <4>2, <4>3
    <3> QED BY <1>4, <3>1, <3>2, <3>3
  <2> QED BY ONLY <2>1 DEF LookedUp
<1>5. CASE Stopped \/ UNCHANGED vars
  BY <1>5 DEF Stopped, vars, verifyVars, LookedUp
<1> QED BY <1>2, <1>3, <1>4, <1>5, CheckLookedUp DEF Next, Program

\* A path is reported to have no record (check_passed_file) exactly if no record
\* of the list leads to the file the path leads to.
THEOREM LookupRight == Spec => []LookupIsRight
<1>1. Init => Before /\ LookedUp
  BY InitBefore DEF Init, LookedUp
<1>2. Before /\ LookedUp /\ [Next]_vars => (Before /\ LookedUp)'
  BY BeforeStep, LookedUpStep
<1>3. LookedUp => LookupIsRight
  <2> SUFFICES ASSUME LookedUp, pass = "exited", result \in {"OK", "NO_MHL_ENTRY"}, args # <<>>,
                      Plain(args[1]), NEW text \in missed \cup {args[1]}, ~Leads(text, Folders)
               PROVE  text \in missed <=>
                        ~\E n \in names : Join(FoundDir, n.items) = RealPath(text)
    BY DEF LookupIsRight
  <2>1. Place(workdir, text) \notin Folders /\ RealPath(text) = Place(workdir, text)
    BY PlaceIs DEF Leads
  <2>2. PlainAt(workdir, args[1]) /\ FoundDir = DirOf(workdir, found)
    BY ViewsAre
  <2>3. text \in missed <=> Missing(workdir, DirOf(workdir, found), names, text)
    BY <2>1, <2>2 DEF LookedUp
  <2> QED BY ONLY <2>1, <2>2, <2>3 DEF Missing
<1> QED BY <1>1, <1>2, <1>3, PTL DEF Spec
====
