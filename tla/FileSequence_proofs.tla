------------------------ MODULE FileSequence_proofs ------------------------
(***************************************************************************)
(* Theorems about the patterns of sequences and the names made of them,    *)
(* for patterns of any length, any number of marks and any width of the    *)
(* integers.                                                               *)
(***************************************************************************)
EXTENDS FileSequence, SequenceTheorems, WellFoundedInduction, TLAPS

(***************************************************************************)
(* Numbers one after the other, and sequences item by item.                *)
(***************************************************************************)
\* What is true of 0, and of every number after one it is true of, is true up
\* to n.
LEMMA UpTo ==
  ASSUME NEW n \in Nat, NEW S, 0 \in S, \A j \in 1..n : j - 1 \in S => j \in S
  PROVE  0..n \subseteq S
<1> DEFINE R == {ss \in Nat \X Nat : ss[1] < ss[2]}
           T == {j \in 0..n : j \notin S}
<1>1. SUFFICES ASSUME T # {} PROVE FALSE
  OBVIOUS
<1>2. IsWellFoundedOn(R, Nat)
  BY NatLessThanWellFounded DEF OpToRel
<1>3. T \subseteq Nat
  OBVIOUS
<1>4. PICK m \in T : \A y \in T : ~(<<y, m>> \in R)
  <2> HIDE DEF R, T
  <2> QED BY <1>1, <1>2, <1>3, WFMin
<1>5. m # 0 /\ m \in 1..n
  BY <1>4
<1>6. m - 1 \in T
  BY <1>5, <1>4
<1>7. m - 1 < m /\ <<m - 1, m>> \in R
  BY <1>5
<1> QED BY <1>4, <1>6, <1>7

LEMMA Lengths == ASSUME NEW I, NEW p \in Seq(I) PROVE p = <<>> <=> Len(p) = 0
<1>1. ASSUME p = <<>> PROVE Len(p) = 0
  BY <1>1
<1>2. ASSUME Len(p) = 0 PROVE p = <<>>
  BY <1>2
<1> QED BY <1>1, <1>2

LEMMA PrefixGrows ==
  ASSUME NEW I, NEW s \in Seq(I), NEW j \in 1..Len(s)
  PROVE  SubSeq(s, 1, j) = Append(SubSeq(s, 1, j - 1), s[j])
OBVIOUS

\* What holds of the empty sequence, and still holds when an item is added,
\* holds of every sequence.
LEMMA ItemByItem ==
  ASSUME NEW I, NEW S, <<>> \in S, \A s \in Seq(I), x \in I : s \in S => Append(s, x) \in S
  PROVE  Seq(I) \subseteq S
<1> SUFFICES ASSUME NEW s \in Seq(I) PROVE s \in S
  OBVIOUS
<1> DEFINE n == Len(s)
           T == {j \in 0..n : SubSeq(s, 1, j) \in S}
<1>1. n \in Nat /\ SubSeq(s, 1, n) = s /\ SubSeq(s, 1, 0) = <<>>
  OBVIOUS
<1>2. ASSUME NEW j \in 1..n, j - 1 \in T PROVE j \in T
  <2>1. SubSeq(s, 1, j - 1) \in Seq(I) /\ s[j] \in I
    OBVIOUS
  <2>2. SubSeq(s, 1, j) = Append(SubSeq(s, 1, j - 1), s[j])
    BY ONLY s \in Seq(I), j \in 1..n, PrefixGrows
  <2>3. SubSeq(s, 1, j - 1) \in S
    BY ONLY <1>2
  <2>4. SubSeq(s, 1, j) \in S
    <3> HIDE DEF n, T
    <3> QED BY <2>1, <2>2, <2>3
  <2>5. j \in 0..n
    BY <1>1
  <2> QED BY ONLY <2>4, <2>5
<1>3. 0..n \subseteq T
  <2>1. 0 \in T
    <3>1. 0 \in 0..n
      BY <1>1
    <3> QED BY ONLY <1>1, <3>1, <<>> \in S
  <2> HIDE DEF T, n
  <2> QED BY <1>1, <1>2, <2>1, UpTo
<1>4. n \in T
  <2> HIDE DEF T, n
  <2> QED BY <1>1, <1>3
<1> QED BY ONLY <1>1, <1>4

\* A recursion over the numbers up to n defines a function.
IsIteration(f, n, R, r, g) ==
  f \in [0..n -> R] /\ f[0] = r /\ \A k \in 1..n : f[k] = g[k][f[k - 1]]

LEMMA Iterates ==
  ASSUME NEW n \in Nat, NEW R, NEW r \in R, NEW g \in [1..n -> [R -> R]]
  PROVE  \E f : IsIteration(f, n, R, r, g)
<1> DEFINE Upto(k, f) == f = [j \in 0..k |-> IF j = 0 THEN r ELSE g[j][f[j - 1]]]
           S == {k \in 0..n : \E f \in [0..k -> R] : Upto(k, f)}
<1>1. 0 \in S
  <2> DEFINE f == [j \in 0..0 |-> r]
  <2>1. f \in [0..0 -> R] /\ Upto(0, f)
    OBVIOUS
  <2> HIDE DEF f, Upto
  <2> QED BY <2>1
<1>2. ASSUME NEW k \in 1..n, k - 1 \in S PROVE k \in S
  <2>1. PICK f \in [0..(k - 1) -> R] : Upto(k - 1, f)
    BY <1>2
  <2> DEFINE h == [j \in 0..k |-> IF j = k THEN g[k][f[k - 1]] ELSE f[j]]
  <2>2. k - 1 \in 0..(k - 1) /\ f[k - 1] \in R
    OBVIOUS
  <2>3. g[k][f[k - 1]] \in R
    BY <2>2
  <2>4. h \in [0..k -> R]
    BY <2>3
  <2>5. ASSUME NEW j \in 0..k
        PROVE  h[j] = IF j = 0 THEN r ELSE g[j][h[j - 1]]
    <3>1. CASE j = k
      <4>1. k - 1 \in 0..k /\ k - 1 # k /\ h[k - 1] = f[k - 1]
        OBVIOUS
      <4> QED BY <3>1, <4>1
    <3>2. CASE j # k
      <4>1. j \in 0..(k - 1)
        BY <3>2
      <4>2. h[j] = f[j]
        BY <3>2
      <4>3. f[j] = IF j = 0 THEN r ELSE g[j][f[j - 1]]
        BY <4>1, <2>1
      <4>4. j # 0 => h[j - 1] = f[j - 1]
        BY <4>1
      <4> QED BY <4>2, <4>3, <4>4
    <3> QED BY <3>1, <3>2
  <2>6. Upto(k, h)
    BY <2>5
  <2>7. k \in 0..n
    OBVIOUS
  <2> HIDE DEF Upto, h
  <2> QED BY <2>4, <2>6, <2>7
<1>3. n \in S
  <2>1. n \in 0..n
    OBVIOUS
  <2> HIDE DEF S
  <2> QED BY <1>1, <1>2, <2>1, UpTo
<1>4. PICK f \in [0..n -> R] : Upto(n, f)
  BY <1>3
<1>5. 0 \in 0..n /\ \A k \in 1..n : k \in 0..n /\ k # 0
  OBVIOUS
<1>6. f[0] = r /\ \A k \in 1..n : f[k] = g[k][f[k - 1]]
  BY <1>4, <1>5
<1> QED BY <1>6 DEF IsIteration

(***************************************************************************)
(* Numbers and their digits.                                               *)
(***************************************************************************)
LEMMA QuotientSteps ==
  ASSUME NEW n \in Nat, NEW k \in Nat
  PROVE  \E q \in [0..k -> Nat] :
           /\ q[0] = n /\ Quotient(n, k) = q[k]
           /\ \A j \in 1..k : q[j] = q[j - 1] \div 10
<1> DEFINE P(f) == f = [j \in 0..k |-> IF j = 0 THEN n ELSE f[j - 1] \div 10]
           q == CHOOSE f : P(f)
<1>1. \E f : P(f)
  <2> DEFINE g == [j \in 1..k |-> [m \in Nat |-> m \div 10]]
  <2>1. g \in [1..k -> [Nat -> Nat]]
    <3>1. \A m \in Nat : m \div 10 \in Nat
      OBVIOUS
    <3> QED BY <3>1
  <2>2. \A j \in 1..k, m \in Nat : g[j][m] = m \div 10
    OBVIOUS
  <2> HIDE DEF g
  <2>3. PICK f : IsIteration(f, k, Nat, n, g)
    BY <2>1, Iterates
  <2>4. ASSUME NEW j \in 0..k PROVE f[j] = IF j = 0 THEN n ELSE f[j - 1] \div 10
    <3>1. j # 0 => j \in 1..k /\ j - 1 \in 0..k /\ f[j - 1] \in Nat
      BY <2>3 DEF IsIteration
    <3>2. j # 0 => f[j] = f[j - 1] \div 10
      BY ONLY <2>2, <2>3, <3>1 DEF IsIteration
    <3> QED BY ONLY <2>3, <3>2 DEF IsIteration
  <2>5. f = [j \in 0..k |-> f[j]]
    BY <2>3 DEF IsIteration
  <2> QED BY <2>4, <2>5
<1>2. P(q)
  <2> HIDE DEF P
  <2> QED BY <1>1
<1>3. Quotient(n, k) = q[k]
  BY DEF Quotient
<1> HIDE DEF q
<1>4. q[0] = n /\ \A j \in 1..k : q[j] = q[j - 1] \div 10
  <2>1. 0 \in 0..k /\ \A j \in 1..k : j \in 0..k /\ j # 0
    OBVIOUS
  <2>2. \A j \in 0..k : q[j] = IF j = 0 THEN n ELSE q[j - 1] \div 10
    BY <1>2
  <2> QED BY ONLY <2>1, <2>2
<1>5. 0..k \subseteq {j \in 0..k : q[j] \in Nat}
  <2> DEFINE S == {j \in 0..k : q[j] \in Nat}
  <2>1. 0 \in S
    BY <1>4
  <2>2. ASSUME NEW j \in 1..k, j - 1 \in S PROVE j \in S
    BY <1>4, <2>2
  <2> HIDE DEF S
  <2>3. 0..k \subseteq S
    BY <2>1, <2>2, UpTo
  <2> QED BY <2>3 DEF S
<1>6. q \in [0..k -> Nat]
  BY <1>2, <1>5
<1> QED BY <1>3, <1>4, <1>6

LEMMA QuotientIs ==
  ASSUME NEW n \in Nat, NEW k \in Nat
  PROVE  /\ Quotient(n, 0) = n
         /\ Quotient(n, k) \in Nat
         /\ Quotient(n, k + 1) = Quotient(n, k) \div 10
<1>1. Quotient(n, 0) = n
  BY QuotientSteps
<1>2. PICK p \in [0..k -> Nat] : p[0] = n /\ Quotient(n, k) = p[k]
                               /\ \A j \in 1..k : p[j] = p[j - 1] \div 10
  BY QuotientSteps
<1>3. PICK q \in [0..(k + 1) -> Nat] : q[0] = n /\ Quotient(n, k + 1) = q[k + 1]
                               /\ \A j \in 1..(k + 1) : q[j] = q[j - 1] \div 10
  <2>1. k + 1 \in Nat
    OBVIOUS
  <2> QED BY ONLY <2>1, n \in Nat, QuotientSteps
<1> DEFINE S == {j \in 0..k : p[j] = q[j]}
<1>4. 0 \in S
  BY <1>2, <1>3
<1>5. ASSUME NEW j \in 1..k, j - 1 \in S PROVE j \in S
  <2>1. j \in 1..(k + 1) /\ j \in 0..k
    OBVIOUS
  <2> QED BY <1>2, <1>3, <1>5, <2>1
<1>6. k \in S
  <2>1. k \in 0..k
    OBVIOUS
  <2> HIDE DEF S
  <2> QED BY <1>4, <1>5, <2>1, UpTo
<1>7. q[k + 1] = q[k] \div 10
  BY <1>3
<1> QED BY <1>1, <1>2, <1>3, <1>6, <1>7


LEMMA QuotientVanishes ==
  ASSUME NEW n \in Nat, NEW k \in Nat, NEW j \in Nat, Quotient(n, k) = 0
  PROVE  Quotient(n, k + j) = 0
<1> DEFINE S == {m \in 0..j : Quotient(n, k + m) = 0}
<1>1. 0 \in S
  BY k + 0 = k
<1>2. ASSUME NEW m \in 1..j, m - 1 \in S PROVE m \in S
  <2> DEFINE l == k + (m - 1)
  <2>1. l \in Nat /\ l + 1 = k + m
    OBVIOUS
  <2>2. Quotient(n, l) = 0
    BY <1>2
  <2> HIDE DEF l
  <2>3. Quotient(n, l + 1) = Quotient(n, l) \div 10
    BY <2>1, QuotientIs
  <2> QED BY <2>1, <2>2, <2>3
<1>3. j \in S
  <2>1. j \in 0..j
    OBVIOUS
  <2> HIDE DEF S
  <2> QED BY <1>1, <1>2, <2>1, UpTo
<1> QED BY <1>3

LEMMA QuotientMonotone ==
  ASSUME NEW n \in Nat, NEW m \in Nat, n <= m, NEW k \in Nat
  PROVE  Quotient(n, k) <= Quotient(m, k)
<1> DEFINE S == {j \in 0..k : Quotient(n, j) <= Quotient(m, j)}
<1>1. 0 \in S
  BY QuotientIs
<1>2. ASSUME NEW j \in 1..k, j - 1 \in S PROVE j \in S
  <2>1. j - 1 \in Nat /\ (j - 1) + 1 = j
    OBVIOUS
  <2>2. /\ Quotient(n, j - 1) \in Nat /\ Quotient(m, j - 1) \in Nat
        /\ Quotient(n, j) = Quotient(n, j - 1) \div 10
        /\ Quotient(m, j) = Quotient(m, j - 1) \div 10
    <3> DEFINE l == j - 1
    <3>1. l \in Nat /\ l + 1 = j
      BY <2>1
    <3> HIDE DEF l
    <3>2. /\ Quotient(n, l) \in Nat /\ Quotient(m, l) \in Nat
          /\ Quotient(n, l + 1) = Quotient(n, l) \div 10
          /\ Quotient(m, l + 1) = Quotient(m, l) \div 10
      BY <3>1, QuotientIs
    <3> QED BY <3>1, <3>2 DEF l
  <2>3. \A a, b \in Nat : a <= b => a \div 10 <= b \div 10
    OBVIOUS
  <2>4. Quotient(n, j - 1) <= Quotient(m, j - 1)
    BY <1>2
  <2> QED BY <2>2, <2>3, <2>4
<1>3. k \in S
  <2>1. k \in 0..k
    OBVIOUS
  <2> HIDE DEF S
  <2> QED BY <1>1, <1>2, <2>1, UpTo
<1> QED BY <1>3

\* The last digit goes first.
LEMMA QuotientOfDigit ==
  ASSUME NEW n \in Nat, NEW d \in DigitChars, NEW k \in Nat
  PROVE  10 * n + d \in Nat /\ Quotient(10 * n + d, k + 1) = Quotient(n, k)
<1> DEFINE m == 10 * n + d
           S == {j \in 0..k : Quotient(m, j + 1) = Quotient(n, j)}
<1>1. m \in Nat /\ m \div 10 = n
  BY DEF DigitChars
<1> HIDE DEF m
<1>2. 0 \in S
  <2>1. Quotient(m, 0 + 1) = Quotient(m, 0) \div 10 /\ Quotient(m, 0) = m /\ Quotient(n, 0) = n
    BY <1>1, QuotientIs
  <2> QED BY <1>1, <2>1
<1>3. ASSUME NEW j \in 1..k, j - 1 \in S PROVE j \in S
  <2>1. j - 1 \in Nat /\ (j - 1) + 1 = j /\ j \in Nat
    OBVIOUS
  <2>2. /\ Quotient(n, j) = Quotient(n, j - 1) \div 10
        /\ Quotient(m, j + 1) = Quotient(m, j) \div 10
    <3> DEFINE l == j - 1
    <3>1. l \in Nat /\ l + 1 = j
      BY <2>1
    <3> HIDE DEF l
    <3>2. Quotient(n, l + 1) = Quotient(n, l) \div 10
      BY <3>1, QuotientIs
    <3>3. Quotient(m, j + 1) = Quotient(m, j) \div 10
      BY <1>1, <2>1, QuotientIs
    <3> QED BY <3>1, <3>2, <3>3 DEF l
  <2>3. Quotient(m, j) = Quotient(n, j - 1)
    BY <1>3, <2>1
  <2> QED BY <2>2, <2>3
<1>4. k \in S
  <2>1. k \in 0..k
    OBVIOUS
  <2> HIDE DEF S
  <2> QED BY <1>2, <1>3, <2>1, UpTo
<1> QED BY <1>1, <1>4 DEF m

LEMMA WidthIs ==
  ASSUME NEW n \in Nat
  PROVE  /\ Width(n) \in Nat \ {0} /\ Quotient(n, Width(n)) = 0
         /\ \A w \in Nat \ {0} : Quotient(n, w) = 0 => Width(n) <= w
<1> DEFINE P(w) == Quotient(n, w) = 0 /\ (w = 1 \/ Quotient(n, w - 1) # 0)
           S == {k \in 0..(n + 1) : Quotient(n, k) = 0 \/ Quotient(n, k) + k <= n}
           T == {k \in 0..(n + 1) : k = 0 \/ Quotient(n, k) # 0}
<1>1. Quotient(n, n + 1) = 0
  <2>1. 0 \in S
    BY QuotientIs
  <2>2. ASSUME NEW k \in 1..(n + 1), k - 1 \in S PROVE k \in S
    <3>1. k - 1 \in Nat /\ (k - 1) + 1 = k
      OBVIOUS
    <3>2. Quotient(n, k - 1) \in Nat /\ Quotient(n, k) = Quotient(n, k - 1) \div 10
      BY <3>1, QuotientIs
    <3>3. \A a \in Nat : a \div 10 = 0 \/ a \div 10 <= a - 1
      OBVIOUS
    <3> QED BY <2>2, <3>1, <3>2, <3>3
  <2>3. n + 1 \in S
    <3>1. n + 1 \in 0..(n + 1) /\ n + 1 \in Nat
      OBVIOUS
    <3> HIDE DEF S
    <3> QED BY <2>1, <2>2, <3>1, UpTo
  <2>4. Quotient(n, n + 1) \in Nat
    BY QuotientIs, n + 1 \in Nat
  <2> QED BY <2>3, <2>4
<1>2. \E w \in 1..(n + 1) : P(w)
  <2> SUFFICES ASSUME \A w \in 1..(n + 1) : ~P(w) PROVE FALSE
    OBVIOUS
  <2>1. ASSUME NEW k \in 1..(n + 1), k - 1 \in T PROVE k \in T
    BY <2>1
  <2>2. n + 1 \in T
    <3>1. n + 1 \in 0..(n + 1) /\ n + 1 \in Nat /\ 0 \in T
      OBVIOUS
    <3> HIDE DEF T
    <3> QED BY <2>1, <3>1, UpTo
  <2> QED BY <1>1, <2>2
<1>3. Width(n) \in 1..(n + 1) /\ P(Width(n))
  <2>1. Width(n) = CHOOSE w \in 1..(n + 1) : P(w)
    BY DEF Width
  <2> HIDE DEF P
  <2> QED BY <1>2, <2>1
<1>4. ASSUME NEW w \in Nat \ {0}, Quotient(n, w) = 0 PROVE Width(n) <= w
  <2> SUFFICES ASSUME w < Width(n) PROVE FALSE
    BY <1>3
  <2>1. w + ((Width(n) - 1) - w) = Width(n) - 1 /\ (Width(n) - 1) - w \in Nat
    BY <1>3
  <2>2. Quotient(n, Width(n) - 1) = 0
    BY <1>4, <2>1, QuotientVanishes
  <2> QED BY <1>3, <2>2
<1> QED BY <1>3, <1>4

LEMMA DigitsAre ==
  ASSUME NEW n \in Nat, NEW w \in Nat
  PROVE  Digits(n, w) \in Seq(DigitChars) /\ Len(Digits(n, w)) = w
<1>1. ASSUME NEW k \in 1..w PROVE Quotient(n, w - k) % 10 \in DigitChars
  <2>1. Quotient(n, w - k) \in Nat
    BY w - k \in Nat, QuotientIs
  <2> QED BY <2>1 DEF DigitChars
<1>2. Digits(n, w) \in [1..w -> DigitChars]
  BY <1>1 DEF Digits
<1> QED BY <1>2

LEMMA DigitsDetermine ==
  ASSUME NEW n \in Nat, NEW m \in Nat, NEW w \in Nat,
         Quotient(n, w) = 0, Quotient(m, w) = 0, Digits(n, w) = Digits(m, w)
  PROVE  n = m
<1> DEFINE S == {k \in 0..w : Quotient(n, w - k) = Quotient(m, w - k)}
<1>1. 0 \in S
  BY w - 0 = w
<1>2. ASSUME NEW k \in 1..w, k - 1 \in S PROVE k \in S
  <2> DEFINE l == w - k
  <2>1. l \in Nat /\ w - (k - 1) = l + 1
    OBVIOUS
  <2>2. Digits(n, w)[k] = Quotient(n, l) % 10 /\ Digits(m, w)[k] = Quotient(m, l) % 10
    BY DEF Digits
  <2>3. Quotient(n, l + 1) = Quotient(m, l + 1)
    BY <1>2, <2>1
  <2> HIDE DEF l
  <2>4. /\ Quotient(n, l) \in Nat /\ Quotient(n, l + 1) = Quotient(n, l) \div 10
        /\ Quotient(m, l) \in Nat /\ Quotient(m, l + 1) = Quotient(m, l) \div 10
    BY <2>1, QuotientIs
  <2>5. \A a, b \in Nat : a \div 10 = b \div 10 /\ a % 10 = b % 10 => a = b
    OBVIOUS
  <2>6. Quotient(n, l) = Quotient(m, l)
    BY <2>2, <2>3, <2>4, <2>5
  <2> QED BY <2>6 DEF l
<1>3. w \in S
  <2>1. w \in 0..w
    OBVIOUS
  <2> HIDE DEF S
  <2> QED BY <1>1, <1>2, <2>1, UpTo
<1>4. w - w = 0
  OBVIOUS
<1>5. Quotient(n, 0) = Quotient(m, 0)
  BY <1>3, <1>4
<1> QED BY <1>5, QuotientIs


(***************************************************************************)
(* Sequences put together.                                                 *)
(***************************************************************************)
LEMMA SameBehind ==
  ASSUME NEW I, NEW a \in Seq(I), NEW b \in Seq(I), NEW c \in Seq(I), NEW u,
         u = a \o b, u = a \o c
  PROVE  b = c
<1>1. a \o b = a \o c
  BY ONLY u = a \o b, u = a \o c, Zenon
<1> QED BY ONLY <1>1, a \in Seq(I), b \in Seq(I), c \in Seq(I), ConcatSimplifications, Zenon

LEMMA SameBefore ==
  ASSUME NEW I, NEW a \in Seq(I), NEW b \in Seq(I), NEW c \in Seq(I), NEW u,
         u = a \o b, u = c \o b
  PROVE  a = c
<1>1. a \o b = c \o b
  BY ONLY u = a \o b, u = c \o b, Zenon
<1> QED BY ONLY <1>1, a \in Seq(I), b \in Seq(I), c \in Seq(I), ConcatSimplifications, Zenon

(***************************************************************************)
(* Printed numbers.                                                        *)
(***************************************************************************)
Size(n) == IF n < 0 THEN -n ELSE n
Sign(n) == IF n < 0 THEN <<Dash>> ELSE <<>>

\* How many digits are printed.
Columns(n, width) ==
  IF Width(Size(n)) < width - Len(Sign(n)) THEN width - Len(Sign(n)) ELSE Width(Size(n))

LEMMA PrintedIs ==
  ASSUME NEW n \in Int, NEW w \in Nat
  PROVE  /\ Size(n) \in Nat /\ Sign(n) \in Seq(Chars)
         /\ Columns(n, w) \in Nat \ {0} /\ Quotient(Size(n), Columns(n, w)) = 0
         /\ Digits(Size(n), Columns(n, w)) \in Seq(Chars)
         /\ Len(Digits(Size(n), Columns(n, w))) = Columns(n, w)
         /\ \A k \in 1..Columns(n, w) : Digits(Size(n), Columns(n, w))[k] # Dash
         /\ Printed(n, w) = Sign(n) \o Digits(Size(n), Columns(n, w))
         /\ Printed(n, w) \in Seq(Chars)
<1> DEFINE s == Size(n)
           c == Columns(n, w)
           d == Digits(s, c)
<1>1. s \in Nat
  BY DEF Size
<1>2. Sign(n) \in Seq(Chars) /\ Len(Sign(n)) \in {0, 1}
  <2>1. Dash \in Chars
    BY DEF Dash, Chars
  <2>2. <<Dash>> \in Seq(Chars) /\ Len(<<Dash>>) = 1 /\ <<>> \in Seq(Chars) /\ Len(<<>>) = 0
    BY <2>1
  <2> QED BY ONLY <2>2 DEF Sign
<1>3. Width(s) \in Nat \ {0} /\ Quotient(s, Width(s)) = 0
  BY <1>1, WidthIs
<1>4. c \in Nat \ {0} /\ Width(s) <= c
  BY <1>2, <1>3 DEF Columns
<1>5. Quotient(s, c) = 0
  <2>1. Width(s) + (c - Width(s)) = c /\ c - Width(s) \in Nat
    BY <1>3, <1>4
  <2> QED BY <1>1, <1>3, <2>1, QuotientVanishes
<1>6. Printed(n, w) = Sign(n) \o d
  BY DEF Printed, Size, Sign, Columns
<1> HIDE DEF s, c
<1>7. d \in Seq(DigitChars) /\ Len(d) = c
  BY <1>1, <1>4, DigitsAre
<1> HIDE DEF d
<1>8. \A k \in 1..c : d[k] \in DigitChars
  BY ONLY <1>7
<1>9. d \in Seq(Chars) /\ \A k \in 1..c : d[k] # Dash
  <2>1. \A k \in 1..c : d[k] # Dash
    BY <1>8 DEF DigitChars, Dash
  <2>2. DigitChars \subseteq Chars
    BY DEF DigitChars, Chars
  <2>3. d \in Seq(Chars)
    BY ONLY <1>7, <2>2
  <2> QED BY <2>1, <2>3
<1>10. Sign(n) \o d \in Seq(Chars)
  BY ONLY <1>2, <1>9
<1> QED BY ONLY <1>1, <1>2, <1>4, <1>5, <1>6, <1>7, <1>9, <1>10 DEF s, c, d

LEMMA FirstPrinted ==
  ASSUME NEW n \in Int, NEW w \in Nat
  PROVE  Printed(n, w)[1] = Dash <=> n < 0
<1> DEFINE c == Columns(n, w)
           d == Digits(Size(n), c)
<1>1. /\ c \in Nat \ {0} /\ d \in Seq(Chars) /\ Len(d) = c
      /\ \A k \in 1..c : d[k] # Dash
      /\ Printed(n, w) = Sign(n) \o d
  BY PrintedIs
<1> HIDE DEF c, d
<1>2. CASE n < 0
  <2>1. Sign(n) = <<Dash>>
    BY <1>2 DEF Sign
  <2>2. (<<Dash>> \o d)[1] = Dash
    BY <1>1
  <2> QED BY ONLY <1>1, <1>2, <2>1, <2>2
<1>3. CASE ~(n < 0)
  <2>1. Sign(n) = <<>>
    BY <1>3 DEF Sign
  <2>2. <<>> \o d = d
    BY <1>1
  <2>3. d[1] # Dash
    BY <1>1
  <2> QED BY ONLY <1>1, <1>3, <2>1, <2>2, <2>3
<1> QED BY <1>2, <1>3

\* Different numbers are printed differently, whatever they are padded to.
LEMMA PrintedDetermines ==
  ASSUME NEW n \in Int, NEW m \in Int, NEW w \in Nat, Printed(n, w) = Printed(m, w)
  PROVE  n = m
<1>1. n < 0 <=> m < 0
  BY FirstPrinted
<1>2. Sign(n) = Sign(m)
  BY <1>1 DEF Sign
<1> DEFINE g == Sign(n)
           c == Columns(n, w)
           e == Columns(m, w)
           d == Digits(Size(n), c)
           f == Digits(Size(m), e)
<1>3. /\ Size(n) \in Nat /\ Size(m) \in Nat /\ g \in Seq(Chars) /\ d \in Seq(Chars) /\ f \in Seq(Chars)
      /\ Len(d) = c /\ Len(f) = e /\ c \in Nat /\ e \in Nat
      /\ Quotient(Size(n), c) = 0 /\ Quotient(Size(m), e) = 0
      /\ Printed(n, w) = g \o d /\ Printed(m, w) = Sign(m) \o f
  BY PrintedIs
<1> HIDE DEF g, c, e, d, f
<1>4. Printed(n, w) = g \o f
  BY ONLY <1>2, <1>3, Printed(n, w) = Printed(m, w) DEF g
<1>5. d = f
  <2>1. g \in Seq(Chars) /\ d \in Seq(Chars) /\ f \in Seq(Chars) /\ Printed(n, w) = g \o d
    BY ONLY <1>3, Zenon
  <2> QED BY ONLY <2>1, <1>4, SameBehind, Zenon
<1>6. c = e
  BY ONLY <1>3, <1>5
<1>7. Size(n) = Size(m)
  <2>1. Digits(Size(n), c) = Digits(Size(m), c)
    BY ONLY <1>5, <1>6 DEF d, f
  <2> QED BY ONLY <1>3, <1>6, <2>1, DigitsDetermine
<1> QED BY <1>1, <1>7 DEF Size

\* A number of few digits fits into the columns it is padded to.
LEMMA PrintedFits ==
  ASSUME NEW n \in Nat, NEW marks \in Nat \ {0}, NEW w \in {0, marks}, Quotient(n, marks) = 0
  PROVE  Len(Printed(n, w)) <= marks /\ (w = marks \/ marks = 1 => Printed(n, w) = Digits(n, marks))
<1> DEFINE c == Columns(n, w)
           d == Digits(Size(n), c)
<1>1. Size(n) = n /\ Sign(n) = <<>> /\ n \in Int /\ w \in Nat
  BY DEF Size, Sign
<1>2. Width(n) \in Nat \ {0} /\ Width(n) <= marks
  BY WidthIs
<1>3. c <= marks /\ (w = marks \/ marks = 1 => c = marks)
  <2>1. Len(<<>>) = 0
    OBVIOUS
  <2> QED BY <1>1, <1>2, <2>1 DEF Columns
<1>4. d \in Seq(Chars) /\ Len(d) = c /\ Printed(n, w) = Sign(n) \o d
  BY <1>1, PrintedIs
<1>5. <<>> \o d = d
  <2> HIDE DEF d
  <2> QED BY <1>4
<1>6. Printed(n, w) = d
  <2> HIDE DEF d
  <2> QED BY ONLY <1>1, <1>4, <1>5
<1>7. Len(Printed(n, w)) <= marks
  <2> HIDE DEF c, d
  <2> QED BY ONLY <1>3, <1>4, <1>6
<1>8. w = marks \/ marks = 1 => Printed(n, w) = Digits(n, marks)
  <2> HIDE DEF c
  <2> QED BY ONLY <1>1, <1>3, <1>6 DEF d
<1> QED BY ONLY <1>7, <1>8

(***************************************************************************)
(* Remainders.                                                             *)
(***************************************************************************)
LEMMA RemainderIs ==
  ASSUME NEW m \in Nat \ {0}, NEW q \in Int, NEW r \in 0..(m - 1)
  PROVE  (m * q + r) % m = r
<1> DEFINE x == m * q + r
<1>1. x \in Int /\ x % m \in 0..(m - 1) /\ x \div m \in Int /\ x = m * (x \div m) + (x % m)
  OBVIOUS
<1>2. PICK d \in Int, s \in 0..(m - 1) : x = m * d + s /\ s = x % m
  BY <1>1
<1>3. m * (d - q) = r - s
  <2>1. m * (d - q) = m * d - m * q
    OBVIOUS
  <2> QED BY <1>2, <2>1
<1>4. d - q = 0
  <2>1. d - q >= 1 => m * (d - q) >= m
    OBVIOUS
  <2>2. q - d >= 1 => m * (q - d) >= m
    OBVIOUS
  <2>3. m * (q - d) = -(m * (d - q))
    OBVIOUS
  <2> QED BY <1>3, <2>1, <2>2, <2>3
<1>5. m * 0 = 0
  OBVIOUS
<1>6. r = s
  BY <1>3, <1>4, <1>5
<1> QED BY <1>2, <1>6

LEMMA RemainderOfSum ==
  ASSUME NEW m \in Nat \ {0}, NEW x \in Nat, NEW y \in Nat
  PROVE  ((x % m) + y) % m = (x + y) % m
<1> DEFINE z == (x % m) + y
<1>1. x \div m \in Int /\ x % m \in Nat /\ x = m * (x \div m) + (x % m)
  OBVIOUS
<1>2. z \in Nat /\ z \div m \in Int /\ z % m \in 0..(m - 1) /\ z = m * (z \div m) + (z % m)
  BY <1>1
<1>3. PICK a \in Int, b \in Int, r \in 0..(m - 1) :
        x + y = m * a + z /\ z = m * b + r /\ r = z % m
  <2>1. x + y = m * (x \div m) + z
    BY <1>1
  <2> HIDE DEF z
  <2> QED BY <1>1, <1>2, <2>1
<1>4. m * (a + b) = m * a + m * b
  OBVIOUS
<1>5. x + y = m * (a + b) + r
  BY <1>3, <1>4
<1>6. (m * (a + b) + r) % m = r
  BY RemainderIs, a + b \in Int
<1> QED BY <1>3, <1>5, <1>6

LEMMA RemainderOfRemainder ==
  ASSUME NEW u \in Nat \ {0}, NEW m \in Nat \ {0}, u % m = 0, NEW x \in Nat
  PROVE  (x % u) % m = x % m
<1>1. x \div u \in Int /\ x % u \in Nat /\ x = u * (x \div u) + (x % u)
  OBVIOUS
<1>2. u \div m \in Int /\ u = m * (u \div m) + 0
  OBVIOUS
<1>3. (x % u) \div m \in Int /\ (x % u) % m \in 0..(m - 1)
      /\ x % u = m * ((x % u) \div m) + ((x % u) % m)
  BY <1>1
<1>4. PICK a \in Int, b \in Int, c \in Int, r \in 0..(m - 1) :
        x = u * a + (m * c + r) /\ u = m * b /\ r = (x % u) % m
  <2> DEFINE z == x % u
  <2>1. x = u * (x \div u) + z
    BY <1>1
  <2>2. z \div m \in Int /\ z % m \in 0..(m - 1) /\ z = m * (z \div m) + (z % m)
    BY <1>3
  <2>3. u = m * (u \div m)
    BY <1>2
  <2> HIDE DEF z
  <2>4. PICK c \in Int, r \in 0..(m - 1) : z = m * c + r /\ r = z % m
    BY <2>2
  <2>5. x = u * (x \div u) + (m * c + r)
    BY ONLY <2>1, <2>4
  <2>6. r = (x % u) % m
    BY <2>4 DEF z
  <2> QED BY ONLY <1>1, <1>2, <2>3, <2>5, <2>6, c \in Int, r \in 0..(m - 1)
<1>5. x = (m * b) * a + (m * c + r)
  BY ONLY <1>4
<1>6. (m * b) * a = m * (b * a) /\ m * (b * a + c) = m * (b * a) + m * c /\ b * a + c \in Int
  OBVIOUS
<1>7. x = m * (b * a + c) + r
  BY <1>5, <1>6
<1>8. (m * (b * a + c) + r) % m = r
  BY <1>6, RemainderIs
<1> QED BY <1>4, <1>7, <1>8

\* Two numbers that are near each other have different remainders.
LEMMA RemaindersDiffer ==
  ASSUME NEW m \in Nat \ {0}, NEW x \in Nat, NEW y \in Nat, x < y, y - x < m
  PROVE  x % m # y % m
<1>1. x \div m \in Int /\ x = m * (x \div m) + (x % m)
  OBVIOUS
<1>2. y \div m \in Int /\ y = m * (y \div m) + (y % m)
  OBVIOUS
<1>3. x % m \in Int
  OBVIOUS
<1> SUFFICES ASSUME x % m = y % m PROVE FALSE
  OBVIOUS
<1>4. PICK a \in Int, b \in Int, r \in Int : x = m * a + r /\ y = m * b + r
  BY <1>1, <1>2, <1>3
<1>5. y - x = m * (b - a)
  BY <1>4
<1>6. b - a >= 1 => m * (b - a) >= m
  OBVIOUS
<1>7. b - a <= 0 => m * (b - a) <= 0
  OBVIOUS
<1> QED BY <1>5, <1>6, <1>7

LEMMA ModuliAre ==
  /\ UlongMod \in Nat \ {0} /\ IntMod \in Nat \ {0} /\ UcharMod \in Nat \ {0}
  /\ UlongMod % IntMod = 0 /\ IntMod <= UlongMod
<1>1. UlongMod \in Nat \ {0} /\ IntMod \in Nat \ {0} /\ UcharMod \in Nat \ {0}
      /\ UlongMod % IntMod = 0
  BY SequenceAssumption
<1>2. IntMod <= UlongMod
  <2> SUFFICES ASSUME UlongMod < IntMod PROVE FALSE
    BY <1>1
  <2>1. UlongMod % IntMod = UlongMod
    BY <1>1
  <2> QED BY <1>1, <2>1
<1> QED BY <1>1, <1>2

LEMMA AsIntIs ==
  ASSUME NEW n \in Nat
  PROVE  /\ AsInt(n) \in Int /\ (n < IntMod \div 2 => AsInt(n) = n)
         /\ \A m \in Nat : AsInt(n) = AsInt(m) => n % IntMod = m % IntMod
<1>1. IntMod \in Nat \ {0}
  BY ModuliAre
<1>2. \A m \in Nat : m % IntMod \in 0..(IntMod - 1)
  BY <1>1
<1>3. n < IntMod \div 2 => n % IntMod = n
  BY <1>1
<1> QED BY <1>1, <1>2, <1>3 DEF AsInt

\* Numbers that are nearer to each other than there are ints are different ints.
LEMMA IntsDiffer ==
  ASSUME NEW n \in Nat, NEW m \in Nat, n < m, m - n < IntMod
  PROVE  AsInt(n % UlongMod) # AsInt(m % UlongMod)
<1>1. n % UlongMod \in Nat /\ m % UlongMod \in Nat
  BY ModuliAre
<1>2. (n % UlongMod) % IntMod = n % IntMod /\ (m % UlongMod) % IntMod = m % IntMod
  <2>1. UlongMod \in Nat \ {0} /\ IntMod \in Nat \ {0} /\ UlongMod % IntMod = 0
    BY ONLY ModuliAre
  <2>2. (n % UlongMod) % IntMod = n % IntMod
    BY ONLY <2>1, n \in Nat, RemainderOfRemainder
  <2>3. (m % UlongMod) % IntMod = m % IntMod
    BY ONLY <2>1, m \in Nat, RemainderOfRemainder
  <2> QED BY ONLY <2>2, <2>3
<1>3. n % IntMod # m % IntMod
  BY ModuliAre, RemaindersDiffer
<1> QED BY <1>1, <1>2, <1>3, AsIntIs

(***************************************************************************)
(* The value of digits.                                                    *)
(***************************************************************************)
LEMMA ValueSteps ==
  ASSUME NEW t \in Seq(DigitChars)
  PROVE  \E v \in [0..Len(t) -> Nat] :
           /\ v[0] = 0 /\ Value(t) = v[Len(t)]
           /\ \A j \in 1..Len(t) : v[j] = 10 * v[j - 1] + t[j]
<1> DEFINE n == Len(t)
           P(f) == f = [k \in 0..n |-> IF k = 0 THEN 0 ELSE 10 * f[k - 1] + t[k]]
           v == CHOOSE f : P(f)
           g == [j \in 1..n |-> [m \in Nat |-> 10 * m + t[j]]]
<1>1. n \in Nat /\ \A j \in 1..n : t[j] \in Nat
  BY DEF DigitChars
<1>2. Value(t) = v[n]
  BY DEF Value
<1> HIDE DEF n, v
<1>3. g \in [1..n -> [Nat -> Nat]]
  BY <1>1
<1>4. \A j \in 1..n, m \in Nat : g[j][m] = 10 * m + t[j]
  OBVIOUS
<1> HIDE DEF g
<1>5. PICK f : IsIteration(f, n, Nat, 0, g)
  BY <1>1, <1>3, Iterates
<1>6. \A j \in 1..n : f[j] = 10 * f[j - 1] + t[j]
  <2> TAKE j \in 1..n
  <2>1. j - 1 \in 0..n
    BY <1>1
  <2>2. f[j - 1] \in Nat
    BY <1>5, <2>1 DEF IsIteration
  <2> QED BY <1>4, <1>5, <2>2 DEF IsIteration
<1>7. P(f)
  <2>1. f = [k \in 0..n |-> f[k]]
    BY <1>5 DEF IsIteration
  <2>2. \A k \in 0..n : f[k] = IF k = 0 THEN 0 ELSE 10 * f[k - 1] + t[k]
    BY <1>1, <1>5, <1>6 DEF IsIteration
  <2> QED BY <2>1, <2>2
<1>8. P(v)
  <2> HIDE DEF P
  <2> QED BY <1>7 DEF v
<1>9. v = f
  <2> DEFINE S == {j \in 0..n : v[j] = f[j]}
  <2>0. 0 \in 0..n /\ \A j \in 1..n : j \in 0..n /\ j # 0
    BY <1>1
  <2>1. \A j \in 0..n : v[j] = IF j = 0 THEN 0 ELSE 10 * v[j - 1] + t[j]
    BY <1>8
  <2>2. 0 \in S
    BY ONLY <2>0, <2>1, <1>5 DEF IsIteration
  <2>3. ASSUME NEW j \in 1..n, j - 1 \in S PROVE j \in S
    BY ONLY <2>0, <2>1, <1>6, <2>3
  <2> HIDE DEF S
  <2>4. 0..n \subseteq S
    BY <1>1, <2>2, <2>3, UpTo
  <2>5. \A j \in 0..n : v[j] = f[j]
    BY <2>4 DEF S
  <2>6. v = [j \in 0..n |-> v[j]] /\ f = [j \in 0..n |-> f[j]]
    BY <1>8, <1>5 DEF IsIteration
  <2> QED BY ONLY <2>5, <2>6
<1>10. v \in [0..n -> Nat] /\ v[0] = 0 /\ \A j \in 1..n : v[j] = 10 * v[j - 1] + t[j]
  BY <1>5, <1>6, <1>9 DEF IsIteration
<1> QED BY <1>2, <1>10 DEF n

LEMMA ValueIs ==
  ASSUME NEW t \in Seq(DigitChars)
  PROVE  /\ Value(<<>>) = 0 /\ Value(t) \in Nat
         /\ \A d \in DigitChars : Value(Append(t, d)) = 10 * Value(t) + d
<1>1. Value(<<>>) = 0
  <2>1. <<>> \in Seq(DigitChars) /\ Len(<<>>) = 0
    OBVIOUS
  <2> QED BY <2>1, ValueSteps
<1>2. PICK v \in [0..Len(t) -> Nat] :
        /\ v[0] = 0 /\ Value(t) = v[Len(t)]
        /\ \A j \in 1..Len(t) : v[j] = 10 * v[j - 1] + t[j]
  BY ValueSteps
<1>3. ASSUME NEW d \in DigitChars PROVE Value(Append(t, d)) = 10 * Value(t) + d
  <2> DEFINE u == Append(t, d)
             n == Len(t)
  <2>1. u \in Seq(DigitChars) /\ Len(u) = n + 1 /\ n \in Nat /\ u[n + 1] = d
        /\ \A j \in 1..n : u[j] = t[j]
    OBVIOUS
  <2> HIDE DEF u
  <2>2. PICK w \in [0..Len(u) -> Nat] :
          /\ w[0] = 0 /\ Value(u) = w[Len(u)]
          /\ \A j \in 1..Len(u) : w[j] = 10 * w[j - 1] + u[j]
    BY <2>1, ValueSteps
  <2> HIDE DEF n
  <2> DEFINE S == {j \in 0..n : v[j] = w[j]}
  <2>3. 0 \in S
    BY <1>2, <2>1, <2>2
  <2>4. ASSUME NEW j \in 1..n, j - 1 \in S PROVE j \in S
    <3>1. v[j] = 10 * v[j - 1] + t[j]
      BY <1>2 DEF n
    <3>2. w[j] = 10 * w[j - 1] + t[j]
      BY <2>1, <2>2
    <3>3. v[j - 1] = w[j - 1]
      BY ONLY <2>4
    <3>4. v[j] = w[j]
      BY ONLY <2>1, <3>1, <3>2, <3>3
    <3>5. j \in 0..n
      BY ONLY <2>1, j \in 1..n
    <3> QED BY ONLY <3>4, <3>5
  <2>5. v[n] = w[n]
    <3>1. n \in 0..n
      BY <2>1
    <3> HIDE DEF S
    <3>2. 0..n \subseteq S
      BY <2>1, <2>3, <2>4, UpTo
    <3> QED BY <3>1, <3>2 DEF S
  <2>6. w[n + 1] = 10 * w[(n + 1) - 1] + u[n + 1]
    BY <2>1, <2>2
  <2>7. Value(u) = 10 * w[n] + d
    BY <2>1, <2>2, <2>6
  <2> QED BY <1>2, <2>5, <2>7 DEF n, u
<1>4. Value(t) \in Nat
  BY <1>2
<1> QED BY <1>1, <1>3, <1>4

\* A number has no more digits than the text it is read from.
LEMMA ValueVanishes ==
  ASSUME NEW t \in Seq(DigitChars)
  PROVE  Quotient(Value(t), Len(t)) = 0
<1> DEFINE S == {u \in Seq(DigitChars) : Quotient(Value(u), Len(u)) = 0}
<1>1. <<>> \in S
  <2>1. <<>> \in Seq(DigitChars) /\ Len(<<>>) = 0
    OBVIOUS
  <2>2. Value(<<>>) = 0
    BY ValueIs
  <2>3. Quotient(0, 0) = 0
    BY QuotientIs
  <2> QED BY <2>1, <2>2, <2>3
<1>2. ASSUME NEW u \in Seq(DigitChars), NEW d \in DigitChars, u \in S PROVE Append(u, d) \in S
  <2>1. Append(u, d) \in Seq(DigitChars) /\ Len(Append(u, d)) = Len(u) + 1 /\ Len(u) \in Nat
    OBVIOUS
  <2>2. Value(u) \in Nat /\ Value(Append(u, d)) = 10 * Value(u) + d
    BY ValueIs
  <2>3. Quotient(10 * Value(u) + d, Len(u) + 1) = Quotient(Value(u), Len(u))
    BY ONLY <2>1, <2>2, d \in DigitChars, QuotientOfDigit
  <2>4. Quotient(Value(u), Len(u)) = 0
    BY <1>2
  <2>5. Quotient(Value(Append(u, d)), Len(Append(u, d))) = 0
    BY ONLY <2>1, <2>2, <2>3, <2>4
  <2> QED BY ONLY <2>1, <2>5
<1> HIDE DEF S
<1>3. Seq(DigitChars) \subseteq S
  BY <1>1, <1>2, ItemByItem
<1> QED BY <1>3 DEF S

\* Zeros in front do not count.
LEMMA ZerosInFront ==
  ASSUME NEW z \in Seq({0}), NEW t \in Seq(DigitChars)
  PROVE  Value(z \o t) = Value(t)
<1> DEFINE Z == {u \in Seq({0}) : u \in Seq(DigitChars) /\ Value(u) = 0}
           S == {u \in Seq(DigitChars) : Value(z \o u) = Value(u)}
<1>1. z \in Seq(DigitChars) /\ Value(z) = 0
  <2>1. <<>> \in Z
    <3>1. <<>> \in Seq({0}) /\ <<>> \in Seq(DigitChars)
      OBVIOUS
    <3> QED BY <3>1, ValueIs
  <2>2. ASSUME NEW u \in Seq({0}), NEW d \in {0}, u \in Z PROVE Append(u, d) \in Z
    <3>1. u \in Seq(DigitChars) /\ Value(u) = 0
      BY <2>2
    <3>2. d \in DigitChars /\ d = 0
      BY DEF DigitChars
    <3>3. Append(u, d) \in Seq({0}) /\ Append(u, d) \in Seq(DigitChars)
      BY ONLY <3>1, <3>2, u \in Seq({0})
    <3>4. Value(Append(u, d)) = 10 * Value(u) + d
      BY <3>1, <3>2, ValueIs
    <3>5. Value(Append(u, d)) = 0
      BY ONLY <3>1, <3>2, <3>4
    <3> QED BY ONLY <3>3, <3>5
  <2> HIDE DEF Z
  <2>3. Seq({0}) \subseteq Z
    BY <2>1, <2>2, ItemByItem
  <2> QED BY <2>3 DEF Z
<1>2. <<>> \in S
  <2>1. z \o <<>> = z /\ <<>> \in Seq(DigitChars)
    BY <1>1
  <2>2. Value(<<>>) = 0
    BY <1>1, ValueIs
  <2> QED BY ONLY <1>1, <2>1, <2>2
<1>3. ASSUME NEW u \in Seq(DigitChars), NEW d \in DigitChars, u \in S PROVE Append(u, d) \in S
  <2>1. z \o Append(u, d) = Append(z \o u, d)
    BY ONLY <1>1, u \in Seq(DigitChars), d \in DigitChars
  <2>2. z \o u \in Seq(DigitChars) /\ Append(u, d) \in Seq(DigitChars)
    BY ONLY <1>1, u \in Seq(DigitChars), d \in DigitChars
  <2>3. Value(z \o u) = Value(u)
    BY <1>3
  <2>4. Value(Append(u, d)) = 10 * Value(u) + d
    BY ValueIs
  <2>5. Value(Append(z \o u, d)) = 10 * Value(z \o u) + d
    BY <2>2, ValueIs
  <2>6. Value(z \o Append(u, d)) = Value(Append(u, d))
    BY ONLY <2>1, <2>3, <2>4, <2>5, Zenon
  <2> QED BY ONLY <2>2, <2>6
<1> HIDE DEF S
<1>4. Seq(DigitChars) \subseteq S
  BY <1>2, <1>3, ItemByItem
<1> QED BY <1>4 DEF S

(***************************************************************************)
(* Texts and their parts.                                                  *)
(***************************************************************************)
LEMMA PartsAre ==
  ASSUME NEW t \in Seq(Chars), NEW k \in 0..Len(t)
  PROVE  /\ Take(t, k) \in Seq(Chars) /\ Len(Take(t, k)) = k
         /\ Drop(t, k) \in Seq(Chars) /\ Len(Drop(t, k)) = Len(t) - k
         /\ \A j \in 1..k : Take(t, k)[j] = t[j]
         /\ \A j \in 1..(Len(t) - k) : Drop(t, k)[j] = t[k + j]
BY DEF Take, Drop

LEMMA PartsTogether ==
  ASSUME NEW t \in Seq(Chars), NEW k \in 0..Len(t)
  PROVE  t = Take(t, k) \o Drop(t, k)
<1> DEFINE a == Take(t, k)
           b == Drop(t, k)
           u == a \o b
<1>1. /\ a \in Seq(Chars) /\ Len(a) = k /\ b \in Seq(Chars) /\ Len(b) = Len(t) - k
      /\ \A j \in 1..k : a[j] = t[j]
      /\ \A j \in 1..(Len(t) - k) : b[j] = t[k + j]
  BY PartsAre
<1> HIDE DEF a, b
<1>2. /\ u \in Seq(Chars) /\ Len(u) = Len(t)
      /\ \A j \in 1..Len(t) : u[j] = IF j <= k THEN a[j] ELSE b[j - k]
  BY <1>1
<1>3. ASSUME NEW j \in 1..Len(t) PROVE u[j] = t[j]
  <2>1. CASE j <= k
    BY <1>1, <1>2, <2>1
  <2>2. CASE ~(j <= k)
    <3> DEFINE l == j - k
    <3>1. l \in 1..(Len(t) - k) /\ k + l = j
      BY <2>2
    <3>2. u[j] = b[l]
      BY <1>2, <2>2
    <3> HIDE DEF l, u
    <3> QED BY ONLY <1>1, <3>1, <3>2
  <2> QED BY <2>1, <2>2
<1> HIDE DEF u
<1>4. u = t
  BY ONLY <1>2, <1>3, t \in Seq(Chars), SeqEqual
<1> QED BY <1>4 DEF u, a, b

LEMMA PartsOf ==
  ASSUME NEW a \in Seq(Chars), NEW b \in Seq(Chars)
  PROVE  Take(a \o b, Len(a)) = a /\ Drop(a \o b, Len(a)) = b
<1> DEFINE u == a \o b
           n == Len(a)
           c == Take(u, n)
           d == Drop(u, n)
<1>1. /\ u \in Seq(Chars) /\ Len(u) = n + Len(b) /\ n \in 0..Len(u) /\ Len(b) \in Nat
      /\ \A j \in 1..n : u[j] = a[j]
      /\ \A j \in 1..Len(b) : u[n + j] = b[j]
  OBVIOUS
<1> HIDE DEF u
<1>2. n \in Nat
  OBVIOUS
<1>3. /\ c \in Seq(Chars) /\ Len(c) = n /\ d \in Seq(Chars) /\ Len(d) = Len(u) - n
      /\ \A j \in 1..n : c[j] = u[j]
      /\ \A j \in 1..(Len(u) - n) : d[j] = u[n + j]
  BY <1>1, PartsAre
<1> HIDE DEF c, d
<1>4. c = a
  <2>1. Len(c) = Len(a) /\ \A j \in 1..Len(c) : c[j] = a[j]
    BY ONLY <1>1, <1>3 DEF n
  <2> QED BY ONLY <1>3, <2>1, a \in Seq(Chars), SeqEqual
<1>5. d = b
  <2>1. Len(d) = Len(b)
    BY ONLY <1>1, <1>2, <1>3
  <2>2. \A j \in 1..Len(d) : d[j] = b[j]
    <3> HIDE DEF n
    <3> QED BY ONLY <1>1, <1>2, <1>3, <2>1
  <2> QED BY ONLY <1>3, <2>1, <2>2, b \in Seq(Chars), SeqEqual
<1> QED BY <1>4, <1>5 DEF c, d, u, n

Splits(t, S, k) ==
  /\ k \in 0..Len(t)
  /\ \A j \in 1..k : t[j] \in S
  /\ k < Len(t) => t[k + 1] \notin S

LEMMA SpanIs ==
  ASSUME NEW t \in Seq(Chars), NEW S
  PROVE  Splits(t, S, Span(t, S)) /\ \A k : Splits(t, S, k) => Span(t, S) = k
<1> DEFINE n == Len(t)
           T == {k \in 0..n : \A j \in 1..k : t[j] \in S}
<1>1. n \in Nat
  OBVIOUS
<1>2. \E k : Splits(t, S, k)
  <2> SUFFICES ASSUME \A k : ~Splits(t, S, k) PROVE FALSE
    OBVIOUS
  <2>1. ASSUME NEW k \in 1..n, k - 1 \in T PROVE k \in T
    <3> DEFINE l == k - 1
    <3>1. l \in 0..n /\ l < n /\ l + 1 = k /\ \A j \in 1..k : j \in 1..l \/ j = k
      BY <1>1
    <3>2. \A j \in 1..l : t[j] \in S
      BY <2>1
    <3> HIDE DEF l
    <3>3. t[k] \in S
      BY <3>1, <3>2 DEF Splits
    <3> QED BY <3>1, <3>2, <3>3
  <2>2. 0 \in T /\ n \in 0..n
    BY <1>1
  <2>3. n \in T
    <3> HIDE DEF T, n
    <3> QED BY <1>1, <2>1, <2>2, UpTo
  <2>4. Splits(t, S, n)
    BY <1>1, <2>3 DEF Splits
  <2> QED BY <2>4
<1>3. Splits(t, S, Span(t, S))
  <2>1. \E k \in 0..Len(t) : Splits(t, S, k)
    BY <1>2 DEF Splits
  <2> QED BY <2>1 DEF Span, Splits
<1>4. ASSUME NEW k, NEW l, Splits(t, S, k), Splits(t, S, l) PROVE ~(k < l)
  <2> SUFFICES ASSUME k < l PROVE FALSE
    OBVIOUS
  <2>1. k \in Nat /\ l \in Nat /\ k < Len(t) /\ k + 1 \in 1..l
    BY <1>1, <1>4 DEF Splits
  <2> QED BY <1>4, <2>1 DEF Splits
<1>5. ASSUME NEW k, Splits(t, S, k) PROVE Span(t, S) = k
  <2>1. k \in Nat /\ Span(t, S) \in Nat
    BY <1>3, <1>5 DEF Splits
  <2>2. ~(k < Span(t, S)) /\ ~(Span(t, S) < k)
    BY ONLY <1>3, <1>4, <1>5
  <2> QED BY ONLY <2>1, <2>2
<1> QED BY <1>3, <1>5

LEMMA SpanOf ==
  ASSUME NEW a \in Seq(Chars), NEW b \in Seq(Chars), NEW S,
         \A j \in 1..Len(a) : a[j] \in S, b # <<>> => b[1] \notin S
  PROVE  Span(a \o b, S) = Len(a)
<1> DEFINE u == a \o b
           n == Len(a)
<1>1. /\ u \in Seq(Chars) /\ Len(u) = n + Len(b) /\ n \in 0..Len(u) /\ Len(b) \in Nat
      /\ \A j \in 1..n : u[j] = a[j]
      /\ \A j \in 1..Len(b) : u[n + j] = b[j]
  OBVIOUS
<1>2. n < Len(u) => b # <<>> /\ u[n + 1] = b[1]
  <2>1. b = <<>> <=> Len(b) = 0
    BY Lengths
  <2> HIDE DEF u
  <2> QED BY <1>1, <2>1
<1> HIDE DEF u
<1>3. Splits(u, S, n)
  BY <1>1, <1>2 DEF Splits
<1>4. Span(u, S) = n
  BY <1>1, <1>3, SpanIs
<1> QED BY <1>4 DEF u

(***************************************************************************)
(* strtoul.                                                                *)
(***************************************************************************)
Signed(t) == t # <<>> /\ t[1] = Dash

LEMMA DigitsOf ==
  ASSUME NEW t \in Seq(Chars), \A j \in 1..Len(t) : t[j] \in DigitChars
  PROVE  t \in Seq(DigitChars)
OBVIOUS

LEMMA StrtoulIs ==
  ASSUME NEW t \in Seq(Chars)
  PROVE  /\ Strtoul(t).value \in 0..(UlongMod - 1)
         /\ Strtoul(t).end \in 0..Len(t)
         /\ ~Signed(t) => Quotient(Strtoul(t).value, Len(t)) = 0
<1> DEFINE sign == IF t # <<>> /\ t[1] = Dash THEN 1 ELSE 0
           rest == Drop(t, sign)
           digits == Span(rest, DigitChars)
           text == Take(rest, digits)
           value == Value(text)
           capped == IF value < UlongMod THEN value ELSE UlongMod - 1
           number == IF sign = 1 /\ value < UlongMod THEN (UlongMod - capped) % UlongMod
                                                     ELSE capped
<1>1. Strtoul(t) = IF digits = 0 THEN [value |-> 0, end |-> 0]
                   ELSE [value |-> number, end |-> sign + digits]
  BY DEF Strtoul
<1>2. sign \in 0..Len(t) /\ (sign = 0 <=> ~Signed(t))
  <2>1. t = <<>> <=> Len(t) = 0
    BY Lengths
  <2>2. Len(t) \in Nat
    OBVIOUS
  <2> QED BY <2>1, <2>2 DEF Signed
<1> HIDE DEF sign
<1>3. rest \in Seq(Chars) /\ Len(rest) = Len(t) - sign
  BY <1>2, PartsAre
<1> HIDE DEF rest
<1>4. digits \in 0..Len(rest) /\ \A j \in 1..digits : rest[j] \in DigitChars
  BY <1>3, SpanIs DEF Splits
<1> HIDE DEF digits
<1>5. text \in Seq(DigitChars) /\ Len(text) = digits
  <2>1. text \in Seq(Chars) /\ Len(text) = digits /\ \A j \in 1..digits : text[j] = rest[j]
    BY <1>3, <1>4, PartsAre
  <2> HIDE DEF text
  <2> QED BY <1>4, <2>1, DigitsOf
<1> HIDE DEF text
<1>6. value \in Nat /\ Quotient(value, digits) = 0
  BY <1>5, ValueIs, ValueVanishes
<1> HIDE DEF value
<1>7. capped \in 0..(UlongMod - 1) /\ capped <= value
  BY <1>6, ModuliAre
<1>8. Quotient(capped, digits) = 0
  <2>1. digits \in Nat
    BY <1>4
  <2>2. Quotient(capped, digits) <= Quotient(value, digits) /\ Quotient(capped, digits) \in Nat
    <3> HIDE DEF capped
    <3>1. capped \in Nat
      BY <1>7
    <3> QED BY <1>6, <1>7, <2>1, <3>1, QuotientMonotone, QuotientIs
  <2> QED BY ONLY <1>6, <2>2
<1> HIDE DEF capped
<1>9. number \in 0..(UlongMod - 1) /\ (sign = 0 => number = capped)
  BY <1>7, ModuliAre
<1> HIDE DEF number
<1>10. Strtoul(t).value \in 0..(UlongMod - 1) /\ Strtoul(t).end \in 0..Len(t)
  <2>1. 0 \in 0..(UlongMod - 1) /\ 0 \in 0..Len(t) /\ sign + digits \in 0..Len(t)
    BY <1>2, <1>3, <1>4, ModuliAre
  <2> QED BY ONLY <1>1, <1>9, <2>1
<1>11. ASSUME ~Signed(t) PROVE Quotient(Strtoul(t).value, Len(t)) = 0
  <2>1. digits + (Len(t) - digits) = Len(t) /\ Len(t) - digits \in Nat /\ digits \in Nat
        /\ sign = 0
    BY <1>2, <1>3, <1>4, <1>11
  <2>2. Strtoul(t).value = IF digits = 0 THEN 0 ELSE number
    BY ONLY <1>1
  <2>3. CASE digits = 0
    <3>1. Quotient(0, 0) = 0 /\ 0 + Len(t) = Len(t) /\ Len(t) \in Nat
      BY QuotientIs
    <3>2. Quotient(0, 0 + Len(t)) = 0
      BY ONLY <3>1, QuotientVanishes, 0 \in Nat
    <3> QED BY ONLY <2>2, <2>3, <3>1, <3>2
  <2>4. CASE digits # 0
    <3>1. Strtoul(t).value = capped /\ capped \in Nat
      BY <1>7, <1>9, <2>1, <2>2, <2>4
    <3>2. Quotient(capped, digits + (Len(t) - digits)) = 0
      BY ONLY <1>8, <2>1, <3>1, QuotientVanishes
    <3> QED BY ONLY <2>1, <3>1, <3>2
  <2> QED BY <2>3, <2>4
<1> QED BY <1>10, <1>11

LEMMA StrtoulOfDigits ==
  ASSUME NEW a \in Seq(DigitChars), NEW b \in Seq(Chars),
         b # <<>> => b[1] \notin DigitChars, a = <<>> => ~Signed(b), Value(a) < UlongMod
  PROVE  Strtoul(a \o b) = [value |-> Value(a), end |-> Len(a)]
<1> DEFINE t == a \o b
           sign == IF t # <<>> /\ t[1] = Dash THEN 1 ELSE 0
           rest == Drop(t, sign)
           digits == Span(rest, DigitChars)
           text == Take(rest, digits)
           value == Value(text)
           capped == IF value < UlongMod THEN value ELSE UlongMod - 1
           number == IF sign = 1 /\ value < UlongMod THEN (UlongMod - capped) % UlongMod
                                                     ELSE capped
<1>1. Strtoul(t) = IF digits = 0 THEN [value |-> 0, end |-> 0]
                   ELSE [value |-> number, end |-> sign + digits]
  BY DEF Strtoul
<1>2. a \in Seq(Chars) /\ (a # <<>> => a[1] # Dash) /\ \A j \in 1..Len(a) : a[j] \in DigitChars
  <2>1. DigitChars \subseteq Chars /\ Dash \notin DigitChars
    BY DEF DigitChars, Chars, Dash
  <2>2. a \in Seq(Chars) /\ \A j \in 1..Len(a) : a[j] \in DigitChars
    BY ONLY <2>1, a \in Seq(DigitChars)
  <2>3. a # <<>> => a[1] \in DigitChars
    BY ONLY a \in Seq(DigitChars)
  <2> QED BY ONLY <2>1, <2>2, <2>3
<1>3. t \in Seq(Chars)
  BY ONLY <1>2, b \in Seq(Chars)
<1>4. sign = 0
  <2>1. CASE a = <<>>
    <3>1. t = b
      BY ONLY <2>1, b \in Seq(Chars)
    <3> HIDE DEF t
    <3> QED BY <2>1, <3>1 DEF Signed
  <2>2. CASE a # <<>>
    <3>1. (a \o b)[1] = a[1]
      BY ONLY <1>2, <2>2, b \in Seq(Chars)
    <3> QED BY ONLY <1>2, <2>2, <3>1
  <2> QED BY <2>1, <2>2
<1>5. rest = t
  <2> HIDE DEF sign, t
  <2>1. SubSeq(t, 1, Len(t)) = t
    BY ONLY <1>3
  <2> QED BY ONLY <1>4, <2>1, 0 + 1 = 1 DEF Drop
<1>6. digits = Len(a) /\ text = a
  <2>1. Span(a \o b, DigitChars) = Len(a)
    BY <1>2, SpanOf
  <2>2. Take(a \o b, Len(a)) = a
    BY <1>2, PartsOf
  <2> HIDE DEF rest
  <2> QED BY ONLY <1>5, <2>1, <2>2
<1>7. number = Value(a)
  <2> HIDE DEF text, sign
  <2> QED BY ONLY <1>4, <1>6, Value(a) < UlongMod
<1>8. Len(a) = 0 => Value(a) = 0
  <2>1. Len(a) = 0 => a = <<>>
    BY Lengths
  <2> QED BY <2>1, ValueIs
<1>9. 0 + Len(a) = Len(a)
  OBVIOUS
<1> HIDE DEF t, number, digits, sign
<1>10. Strtoul(t) = [value |-> Value(a), end |-> Len(a)]
  BY ONLY <1>1, <1>4, <1>6, <1>7, <1>8, <1>9
<1> QED BY <1>10 DEF t

(***************************************************************************)
(* The parts of a pattern as init_mhl_sequence takes them.                 *)
(***************************************************************************)
Stripped(p) == IF ZeroLeads(p) THEN Drop(p.tail, Span(p.tail, {0})) ELSE p.tail
DashAfter(p) == Span(Stripped(p), Chars \ {Dash})
FirstNumber(p) == Strtoul(Take(Stripped(p), DashAfter(p)))
Rest(p) == Drop(Stripped(p), DashAfter(p) + 1)
Room(p) == IF Len(Rest(p)) < NumberLen(p) THEN Len(Rest(p)) ELSE NumberLen(p)
LastNumber(p) == Strtoul(Take(Rest(p), Room(p)))

IsRange(p) ==
  /\ DashAfter(p) # Len(Stripped(p)) /\ ~(FirstNumber(p).end < DashAfter(p))
  /\ Rest(p) # <<>> /\ ~(FirstNumber(p).value >= LastNumber(p).value)

Parsed(p) ==
  [start   |-> p.start,
   marks   |-> NumberLen(p),
   padding |-> ZeroLeads(p) \/ Len(Rest(p)) < NumberLen(p) \/ LastNumber(p).end < Room(p),
   first   |-> FirstNumber(p).value,
   last    |-> LastNumber(p).value,
   end     |-> Drop(Rest(p), LastNumber(p).end)]

TwoDashes(p) == \E k \in 2..Len(p.tail) : p.tail[k] = Dash /\ p.tail[k - 1] = Dash

\* The number in a name, and the name when the number fits into its buffer.
Number(s, n) == Printed(AsInt(n), IF s.padding THEN s.marks ELSE 0)
Fits(s, n) == Len(Number(s, n)) <= s.marks
Text(s, n) == s.start \o Number(s, n) \o s.end

LEMMA PatternIs ==
  ASSUME NEW p \in Patterns
  PROVE  /\ p.start \in Seq(Chars) /\ p.tail \in Seq(Chars) /\ p.marks \in Nat \ {0}
         /\ NumberLen(p) \in Nat
<1>1. p.start \in Seq(Chars \ {Mark}) /\ p.marks \in Nat \ {0} /\ p.tail \in Seq(Chars)
  BY SequenceAssumption
<1>2. p.start \in Seq(Chars)
  <2>1. Chars \ {Mark} \subseteq Chars
    OBVIOUS
  <2> QED BY ONLY <1>1, <2>1
<1>3. NumberLen(p) \in Nat
  BY <1>1, ModuliAre DEF NumberLen
<1> QED BY <1>1, <1>2, <1>3

LEMMA ParseSequenceIs ==
  ASSUME NEW p
  PROVE  ParseSequence(p) = IF IsRange(p) THEN [res |-> "OK", seq |-> Parsed(p)] ELSE Invalid
BY DEF ParseSequence, IsRange, Parsed, LastNumber, Room, Rest, FirstNumber, DashAfter, Stripped

\* Stripped removes only zeros.
LEMMA StrippedIs ==
  ASSUME NEW p \in Patterns
  PROVE  \E z \in 0..Len(p.tail) :
           Stripped(p) = Drop(p.tail, z) /\ (~ZeroLeads(p) => z = 0)
           /\ (ZeroLeads(p) => z = Span(p.tail, {0}))
<1>1. p.tail \in Seq(Chars)
  BY PatternIs
<1>2. Span(p.tail, {0}) \in 0..Len(p.tail)
  BY <1>1, SpanIs DEF Splits
<1>3. Drop(p.tail, 0) = p.tail /\ 0 \in 0..Len(p.tail)
  <2>1. SubSeq(p.tail, 1, Len(p.tail)) = p.tail
    BY ONLY <1>1
  <2>2. 0 \in 0..Len(p.tail)
    BY ONLY <1>1
  <2> QED BY ONLY <2>1, <2>2, 0 + 1 = 1 DEF Drop
<1>4. CASE ZeroLeads(p)
  BY ONLY <1>2, <1>4 DEF Stripped
<1>5. CASE ~ZeroLeads(p)
  BY ONLY <1>3, <1>5 DEF Stripped
<1> QED BY <1>4, <1>5

\* What init_mhl_sequence guarantees for every pattern it accepts.
LEMMA ParsedIs ==
  ASSUME NEW p \in Patterns, IsRange(p)
  PROVE  LET s == Parsed(p) IN
         /\ s.start \in Seq(Chars) /\ s.end \in Seq(Chars)
         /\ s.marks \in Nat \ {0} /\ s.padding \in BOOLEAN
         /\ s.first \in 0..(UlongMod - 1) /\ s.last \in 0..(UlongMod - 1) /\ s.first < s.last
         /\ Quotient(s.last, s.marks) = 0 \/ TwoDashes(p)
<1> DEFINE t == p.tail
           st == Stripped(p)
           d == DashAfter(p)
           r == Rest(p)
           c == Room(p)
           m == NumberLen(p)
           f == FirstNumber(p)
           x == Take(r, c)
           l == LastNumber(p)
<1>1. p.start \in Seq(Chars) /\ t \in Seq(Chars) /\ m \in Nat
  BY PatternIs
<1>2. PICK z \in 0..Len(t) : st = Drop(t, z)
  BY StrippedIs
<1>3. st \in Seq(Chars) /\ Len(st) = Len(t) - z /\ \A j \in 1..(Len(t) - z) : st[j] = t[z + j]
  <2> DEFINE q == Drop(t, z)
  <2>1. q \in Seq(Chars) /\ Len(q) = Len(t) - z /\ \A j \in 1..(Len(t) - z) : q[j] = t[z + j]
    <3> HIDE DEF t
    <3> QED BY ONLY <1>1, z \in 0..Len(t), PartsAre
  <2> HIDE DEF q, st
  <2>2. st = q
    BY ONLY <1>2 DEF q
  <2> QED BY ONLY <2>1, <2>2
<1>4. d \in 0..Len(st) /\ (d < Len(st) => st[d + 1] \notin Chars \ {Dash})
  <2>1. d = Span(st, Chars \ {Dash})
    BY DEF DashAfter
  <2> QED BY <1>3, <2>1, SpanIs DEF Splits
<1>5. d + 1 \in 0..Len(st) /\ st[d + 1] = Dash
  <2>1. d # Len(st)
    BY DEF IsRange
  <2>2. d < Len(st) /\ d + 1 \in 1..Len(st)
    BY ONLY <1>3, <1>4, <2>1
  <2>3. st[d + 1] \in Chars
    BY ONLY <1>3, <2>2
  <2> QED BY ONLY <1>4, <2>2, <2>3
<1>6. r \in Seq(Chars) /\ Len(r) = Len(st) - (d + 1)
      /\ \A j \in 1..(Len(st) - (d + 1)) : r[j] = st[(d + 1) + j]
  <2>1. r = Drop(st, d + 1)
    BY DEF Rest
  <2> HIDE DEF r, st, d
  <2> QED BY <1>3, <1>5, <2>1, PartsAre
<1>7. c \in 0..Len(r) /\ c <= m /\ Len(r) \in Nat
  <2>1. Len(r) \in Nat
    BY <1>6
  <2>2. c = IF Len(r) < m THEN Len(r) ELSE m
    BY DEF Room
  <2> QED BY ONLY <1>1, <2>1, <2>2
<1>8. x \in Seq(Chars) /\ Len(x) = c /\ \A j \in 1..c : x[j] = r[j]
  BY <1>6, <1>7, PartsAre
<1>9. l = Strtoul(x)
  BY DEF LastNumber
<1>10. l.value \in 0..(UlongMod - 1) /\ l.end \in 0..c
       /\ (~Signed(x) => Quotient(l.value, c) = 0)
  <2> HIDE DEF x, l, c
  <2> QED BY <1>8, <1>9, StrtoulIs
<1>11. f.value \in 0..(UlongMod - 1)
  <2>1. Take(st, d) \in Seq(Chars)
    BY <1>3, <1>4, PartsAre
  <2>2. f = Strtoul(Take(st, d))
    BY DEF FirstNumber
  <2> QED BY <2>1, <2>2, StrtoulIs
<1>12. f.value < l.value
  <2>1. ~(f.value >= l.value)
    BY DEF IsRange
  <2> HIDE DEF f, l
  <2> QED BY ONLY <1>10, <1>11, <2>1, ModuliAre
<1>13. m # 0
  <2> SUFFICES ASSUME m = 0 PROVE FALSE
    OBVIOUS
  <2>1. c = 0
    BY <1>7
  <2>2. ~Signed(x)
    <3>1. x = <<>>
      <4> HIDE DEF x
      <4> QED BY <1>8, <2>1, Lengths
    <3> QED BY ONLY <3>1 DEF Signed
  <2>3. Quotient(l.value, 0) = 0
    BY <1>10, <2>1, <2>2
  <2>4. l.value \in Nat
    BY <1>10
  <2>5. l.value = 0
    <3> HIDE DEF l
    <3> QED BY <2>3, <2>4, QuotientIs
  <2> HIDE DEF f, l
  <2> QED BY ONLY <1>11, <1>12, <2>5, ModuliAre
<1>14. Drop(r, l.end) \in Seq(Chars)
  <2>1. l.end \in 0..Len(r)
    BY <1>7, <1>10
  <2> HIDE DEF r, l
  <2> QED BY <1>6, <2>1, PartsAre
<1>15. Quotient(l.value, m) = 0 \/ TwoDashes(p)
  <2>1. CASE ~Signed(x)
    <3>1. c + (m - c) = m /\ m - c \in Nat /\ c \in Nat
      BY <1>1, <1>7
    <3>2. l.value \in Nat /\ Quotient(l.value, c) = 0
      BY <1>10, <2>1
    <3> DEFINE v == l.value
               e == m - c
    <3>3. Quotient(v, c + e) = 0
      <4>1. v \in Nat /\ Quotient(v, c) = 0 /\ c \in Nat /\ e \in Nat
        BY ONLY <3>1, <3>2
      <4> HIDE DEF v, c, e
      <4> QED BY ONLY <4>1, QuotientVanishes
    <3> QED BY ONLY <3>1, <3>3
  <2>2. CASE Signed(x)
    <3>1. x # <<>> /\ x[1] = Dash
      BY ONLY <2>2 DEF Signed
    <3>2. 1 \in 1..c
      <4>1. Len(x) # 0
        <5> HIDE DEF x
        <5> QED BY <1>8, <3>1, Lengths
      <4> QED BY ONLY <1>7, <1>8, <4>1
    <3>3. r[1] = Dash /\ 1 \in 1..(Len(st) - (d + 1))
      BY ONLY <1>6, <1>7, <1>8, <3>1, <3>2
    <3>4. st[(d + 1) + 1] = Dash
      BY ONLY <1>6, <3>3
    <3>5. Len(t) \in Nat /\ Len(st) \in Nat
      BY ONLY <1>1, <1>3
    <3>6. (d + 1) + 1 \in 1..(Len(t) - z) /\ d + 1 \in 1..(Len(t) - z)
      BY ONLY <1>3, <1>4, <1>5, <3>3, <3>5
    <3>7. t[z + ((d + 1) + 1)] = Dash /\ t[z + (d + 1)] = Dash
      BY ONLY <1>3, <1>5, <3>4, <3>6
    <3> DEFINE k == z + ((d + 1) + 1)
    <3>8. k \in 2..Len(t) /\ k - 1 = z + (d + 1)
      BY ONLY <3>5, <3>6, <1>4, z \in 0..Len(t)
    <3> HIDE DEF k
    <3>9. t[k] = Dash /\ t[k - 1] = Dash
      BY ONLY <3>7, <3>8 DEF k
    <3> QED BY ONLY <3>8, <3>9 DEF TwoDashes
  <2> QED BY <2>1, <2>2
<1>16. Parsed(p).padding \in BOOLEAN
  BY DEF Parsed
<1>17. /\ Parsed(p).start = p.start /\ Parsed(p).marks = m /\ Parsed(p).first = f.value
       /\ Parsed(p).last = l.value /\ Parsed(p).end = Drop(r, l.end)
  BY DEF Parsed
<1> HIDE DEF f, l, m, r
<1> QED BY ONLY <1>1, <1>10, <1>11, <1>12, <1>13, <1>14, <1>15, <1>16, <1>17

IsSequence(s) ==
  /\ s.start \in Seq(Chars) /\ s.end \in Seq(Chars)
  /\ s.marks \in Nat \ {0} /\ s.padding \in BOOLEAN

LEMMA NumberIs ==
  ASSUME NEW s, IsSequence(s), NEW n \in Nat
  PROVE  /\ \E w \in Nat : Number(s, n) = Printed(AsInt(n), w)
                           /\ w = IF s.padding THEN s.marks ELSE 0
         /\ Number(s, n) \in Seq(Chars) /\ Text(s, n) \in Seq(Chars)
         /\ NameOf(s, n) = IF Fits(s, n) THEN [res |-> "OK", name |-> Text(s, n)]
                           ELSE [res |-> "INTERNAL_ERROR", name |-> <<>>]
<1> DEFINE r == Number(s, n)
           w == IF s.padding THEN s.marks ELSE 0
<1>1. w \in Nat
  BY DEF IsSequence
<1>2. AsInt(n) \in Int
  BY AsIntIs
<1>3. r = Printed(AsInt(n), w)
  BY DEF Number
<1>4. r \in Seq(Chars)
  <2> HIDE DEF r, w
  <2> QED BY <1>1, <1>2, <1>3, PrintedIs
<1>5. NameOf(s, n) = IF Len(r) > s.marks THEN [res |-> "INTERNAL_ERROR", name |-> <<>>]
                     ELSE [res |-> "OK", name |-> s.start \o r \o s.end]
  BY DEF NameOf, Number
<1>6. (Fits(s, n) <=> Len(r) <= s.marks) /\ Text(s, n) = s.start \o r \o s.end
  BY DEF Fits, Text
<1> HIDE DEF r
<1>7. Len(r) \in Nat
  BY ONLY <1>4
<1>8. Len(r) > s.marks <=> ~(Len(r) <= s.marks)
  BY ONLY <1>7, IsSequence(s) DEF IsSequence
<1>9. NameOf(s, n) = IF Fits(s, n) THEN [res |-> "OK", name |-> Text(s, n)]
                     ELSE [res |-> "INTERNAL_ERROR", name |-> <<>>]
  BY ONLY <1>5, <1>6, <1>8
<1>10. s.start \o r \o s.end \in Seq(Chars)
  BY ONLY <1>4, IsSequence(s) DEF IsSequence
<1>11. Text(s, n) \in Seq(Chars)
  BY ONLY <1>6, <1>10, Zenon
<1> HIDE DEF w
<1>12. \E v \in Nat : Number(s, n) = Printed(AsInt(n), v)
                      /\ v = IF s.padding THEN s.marks ELSE 0
  BY ONLY <1>1, <1>3 DEF r, w
<1> QED BY ONLY <1>4, <1>9, <1>11, <1>12 DEF r

(***************************************************************************)
(* The invariant: where the program is in the sequence, what it has made   *)
(* so far, and why it stopped.                                             *)
(***************************************************************************)
Shape ==
  /\ pattern \in Patterns /\ pass \in {"parse", "name", "done"}
  /\ result \in {"OK", "INVALID_SEQUENCE", "INTERNAL_ERROR"}
  /\ names \in Seq(Seq(Chars))

\* Whether there is a sequence.
Accepted == pass # "parse" /\ result # "INVALID_SEQUENCE"

Phases ==
  /\ pass = "parse" => result = "OK"
  /\ ~Accepted => names = <<>>
  /\ Accepted => IsRange(pattern) /\ seq = Parsed(pattern)
  /\ result = "INVALID_SEQUENCE" => ~IsRange(pattern) /\ pass = "done"
  /\ pass = "name" => result = "OK"

\* The counter, which starts again at 0 behind the last unsigned long.
Counter ==
  Accepted =>
    /\ i = (seq.first + Len(names)) % UlongMod
    /\ seq.last < UlongMod - 1 => i = seq.first + Len(names) /\ i <= seq.last + 1
    /\ result = "INTERNAL_ERROR" => i <= seq.last /\ ~Fits(seq, i)
    /\ pass = "done" /\ result = "OK" => i > seq.last

\* The k-th name is that of the k-th number.
Made ==
  Accepted =>
    \A k \in 1..Len(names) : names[k] = Text(seq, (seq.first + k - 1) % UlongMod)

IInv == Shape /\ Phases /\ Counter /\ Made

LEMMA AcceptedIs ==
  ASSUME Shape, Phases, Accepted
  PROVE  /\ IsSequence(seq) /\ IsRange(pattern) /\ seq = Parsed(pattern)
         /\ seq.first \in 0..(UlongMod - 1) /\ seq.last \in 0..(UlongMod - 1)
         /\ seq.first < seq.last
         /\ Quotient(seq.last, seq.marks) = 0 \/ TwoDashes(pattern)
<1>1. pattern \in Patterns /\ IsRange(pattern) /\ seq = Parsed(pattern)
  BY DEF Shape, Phases
<1> QED BY <1>1, ParsedIs DEF IsSequence

LEMMA NoNames == <<>> \in Seq(Seq(Chars)) /\ Len(<<>>) = 0
OBVIOUS

LEMMA InitEstablishes == Init => IInv
<1> SUFFICES ASSUME Init PROVE IInv
  OBVIOUS
<1>1. pattern \in Patterns /\ names = <<>> /\ pass = "parse" /\ result = "OK"
  BY DEF Init
<1>2. Shape
  BY <1>1, NoNames DEF Shape
<1>3. ~Accepted
  BY <1>1 DEF Accepted
<1> QED BY <1>1, <1>2, <1>3 DEF IInv, Phases, Counter, Made

LEMMA ParseKeeps ==
  ASSUME IInv, Parse
  PROVE  IInv'
<1>1. pattern \in Patterns /\ pattern' = pattern /\ pass = "parse" /\ names' = names
  BY DEF IInv, Shape, Parse
<1>2. result = "OK" /\ names = <<>>
  BY <1>1 DEF IInv, Phases, Accepted
<1>3. CASE IsRange(pattern)
  <2>1. ParseSequence(pattern) = [res |-> "OK", seq |-> Parsed(pattern)]
    BY <1>1, <1>3, ParseSequenceIs
  <2>2. pass' = "name" /\ seq' = Parsed(pattern) /\ i' = seq'.first /\ result' = result
    BY <2>1 DEF Parse
  <2>3. seq'.first \in 0..(UlongMod - 1) /\ seq'.last \in 0..(UlongMod - 1)
        /\ seq'.first < seq'.last
    BY <1>1, <1>3, <2>2, ParsedIs
  <2>4. Shape'
    BY <1>1, <1>2, <2>2, NoNames DEF Shape
  <2>5. Accepted' /\ result' = "OK" /\ pass' = "name"
    BY <1>2, <2>2 DEF Accepted
  <2>6. Phases'
    BY <1>1, <1>3, <2>2, <2>5 DEF Phases
  <2>7. Len(names') = 0 /\ 1..Len(names') = {}
    BY <1>1, <1>2, NoNames
  <2>8. i' = (seq'.first + Len(names')) % UlongMod /\ i' = seq'.first + Len(names')
        /\ i' <= seq'.last + 1
    BY <2>2, <2>3, <2>7, ModuliAre
  <2>9. Counter'
    BY <2>5, <2>8 DEF Counter
  <2>10. Made'
    BY <2>7 DEF Made
  <2> QED BY <2>4, <2>6, <2>9, <2>10 DEF IInv
<1>4. CASE ~IsRange(pattern)
  <2>1. ParseSequence(pattern).res = "INVALID_SEQUENCE"
    BY <1>1, <1>4, ParseSequenceIs DEF Invalid
  <2>2. pass' = "done" /\ result' = "INVALID_SEQUENCE"
    BY <2>1 DEF Parse
  <2>3. Shape'
    BY <1>1, <1>2, <2>2, NoNames DEF Shape
  <2>4. ~Accepted'
    BY <2>2 DEF Accepted
  <2> QED BY <1>1, <1>2, <1>4, <2>2, <2>3, <2>4 DEF IInv, Phases, Counter, Made
<1> QED BY <1>3, <1>4

LEMMA MakeNameKeeps ==
  ASSUME IInv, MakeName
  PROVE  IInv'
<1>1. pass = "name" /\ i <= seq.last /\ UNCHANGED <<pattern, seq>>
  BY DEF MakeName
<1>2. Accepted /\ result = "OK"
  BY <1>1 DEF IInv, Phases, Accepted
<1>3. /\ IsSequence(seq) /\ IsRange(pattern) /\ seq = Parsed(pattern)
      /\ seq.first \in 0..(UlongMod - 1) /\ seq.last \in 0..(UlongMod - 1)
  BY <1>2, AcceptedIs DEF IInv
<1>4. names \in Seq(Seq(Chars)) /\ Len(names) \in Nat /\ pattern \in Patterns
  BY DEF IInv, Shape
<1>5. i = (seq.first + Len(names)) % UlongMod /\ i \in 0..(UlongMod - 1)
      /\ (seq.last < UlongMod - 1 => i = seq.first + Len(names) /\ i <= seq.last + 1)
  <2>1. i = (seq.first + Len(names)) % UlongMod
        /\ (seq.last < UlongMod - 1 => i = seq.first + Len(names) /\ i <= seq.last + 1)
    BY <1>2 DEF IInv, Counter
  <2>2. i \in 0..(UlongMod - 1)
    <3>1. seq.first + Len(names) \in Nat
      BY <1>3, <1>4
    <3> DEFINE x == seq.first + Len(names)
    <3>2. x % UlongMod \in 0..(UlongMod - 1)
      <4> HIDE DEF x
      <4> QED BY <3>1, ModuliAre DEF x
    <3> QED BY <2>1, <3>2
  <2> QED BY <2>1, <2>2
<1>6. /\ NameOf(seq, i) = IF Fits(seq, i) THEN [res |-> "OK", name |-> Text(seq, i)]
                          ELSE [res |-> "INTERNAL_ERROR", name |-> <<>>]
      /\ Text(seq, i) \in Seq(Chars)
  <2>1. i \in Nat
    BY <1>5
  <2>2. IsSequence(seq)
    BY <1>3
  <2> QED BY ONLY <2>1, <2>2, NumberIs, Zenon
<1>7. CASE Fits(seq, i)
  <2>1. names' = Append(names, Text(seq, i)) /\ i' = (i + 1) % UlongMod
        /\ pass' = pass /\ result' = result
    <3>1. NameOf(seq, i).res = "OK" /\ NameOf(seq, i).name = Text(seq, i)
      BY ONLY <1>6, <1>7
    <3> QED BY ONLY <3>1, MakeName DEF MakeName
  <2>2. names' \in Seq(Seq(Chars)) /\ Len(names') = Len(names) + 1
        /\ names'[Len(names) + 1] = Text(seq, i)
        /\ \A k \in 1..Len(names) : names'[k] = names[k]
    <3> DEFINE x == Text(seq, i)
    <3>1. x \in Seq(Chars) /\ names' = Append(names, x)
      BY ONLY <1>6, <2>1
    <3> HIDE DEF x
    <3>2. names' \in Seq(Seq(Chars)) /\ Len(names') = Len(names) + 1
          /\ names'[Len(names) + 1] = x
          /\ \A k \in 1..Len(names) : names'[k] = names[k]
      BY ONLY <1>4, <3>1, AppendProperties
    <3> QED BY ONLY <3>2 DEF x
  <2>3. Shape'
    BY <1>1, <1>2, <1>4, <2>1, <2>2 DEF Shape
  <2>4. Accepted' /\ pass' = "name" /\ result' = "OK"
    BY <1>1, <1>2, <2>1 DEF Accepted
  <2>5. Phases'
    BY <1>1, <1>3, <2>4 DEF Phases
  <2>6. i' = (seq'.first + Len(names')) % UlongMod
    <3> DEFINE x == seq.first + Len(names)
    <3>1. x \in Nat /\ i = x % UlongMod
      BY <1>3, <1>4, <1>5
    <3>2. x + 1 = seq'.first + Len(names')
      <4> DEFINE f == seq.first
                 n == Len(names)
      <4>1. f \in Int /\ n \in Nat /\ Len(names') = n + 1 /\ seq'.first = f
        BY ONLY <1>1, <1>3, <1>4, <2>2, ModuliAre
      <4>2. (f + n) + 1 = f + (n + 1)
        <5> HIDE DEF f, n
        <5> QED BY ONLY <4>1
      <4> QED BY ONLY <4>1, <4>2
    <3> HIDE DEF x
    <3>3. ((x % UlongMod) + 1) % UlongMod = (x + 1) % UlongMod
      BY ONLY <3>1, ModuliAre, RemainderOfSum, 1 \in Nat
    <3> QED BY ONLY <2>1, <3>1, <3>2, <3>3
  <2>7. seq.last < UlongMod - 1 => i' = i + 1 /\ i' = seq.first + Len(names')
                                   /\ i' <= seq.last + 1
    <3> SUFFICES ASSUME seq.last < UlongMod - 1
                 PROVE  i' = i + 1 /\ i' = seq.first + Len(names') /\ i' <= seq.last + 1
      OBVIOUS
    <3>1. i + 1 \in 0..(UlongMod - 1)
      <4> DEFINE l == seq.last
      <4>1. i <= l /\ l < UlongMod - 1 /\ i \in Nat /\ l \in Int
        BY ONLY <1>1, <1>3, <1>5, seq.last < UlongMod - 1
      <4>2. UlongMod \in Int
        BY ModuliAre
      <4> HIDE DEF l
      <4> QED BY ONLY <4>1, <4>2
    <3>2. (i + 1) % UlongMod = i + 1
      <4> DEFINE y == i + 1
      <4>1. y \in 0..(UlongMod - 1)
        BY <3>1
      <4> HIDE DEF y
      <4>2. y % UlongMod = y
        BY ONLY <4>1, ModuliAre
      <4> QED BY <4>2 DEF y
    <3> QED BY <1>1, <1>3, <1>4, <1>5, <2>1, <2>2, <3>2
  <2>8. Counter'
    BY <1>1, <2>4, <2>6, <2>7 DEF Counter
  <2>9. Made'
    <3>1. ASSUME NEW k \in 1..Len(names')
          PROVE  names'[k] = Text(seq, (seq.first + k - 1) % UlongMod)
      <4>1. CASE k = Len(names) + 1
        <5>1. seq.first + k - 1 = seq.first + Len(names)
          BY <1>3, <1>4, <4>1
        <5> QED BY ONLY <1>5, <2>2, <4>1, <5>1
      <4>2. CASE k # Len(names) + 1
        <5>1. k \in 1..Len(names)
          BY ONLY <1>4, <2>2, <4>2, k \in 1..Len(names')
        <5> QED BY <1>2, <2>2, <5>1 DEF IInv, Made
      <4> QED BY <4>1, <4>2
    <3> QED BY <1>1, <3>1 DEF Made
  <2> QED BY <2>3, <2>5, <2>8, <2>9 DEF IInv
<1>8. CASE ~Fits(seq, i)
  <2>1. names' = names /\ i' = i /\ pass' = "done" /\ result' = "INTERNAL_ERROR"
    <3>1. NameOf(seq, i).res = "INTERNAL_ERROR"
      BY ONLY <1>6, <1>8
    <3> QED BY ONLY <3>1, MakeName DEF MakeName
  <2>2. Shape'
    BY <1>1, <1>4, <2>1 DEF Shape
  <2>3. Accepted'
    BY <2>1 DEF Accepted
  <2>4. Phases'
    BY <1>1, <1>3, <2>1, <2>3 DEF Phases
  <2>5. Counter'
    BY <1>1, <1>5, <1>8, <2>1 DEF Counter
  <2>6. Made'
    BY <1>1, <1>2, <2>1 DEF IInv, Made
  <2> QED BY <2>2, <2>4, <2>5, <2>6 DEF IInv
<1> QED BY <1>7, <1>8

LEMMA AllNamedKeeps ==
  ASSUME IInv, AllNamed
  PROVE  IInv'
<1>1. pass = "name" /\ i > seq.last /\ pass' = "done"
      /\ UNCHANGED <<pattern, seq, i, names, result>>
  BY DEF AllNamed
<1>2. Accepted /\ Accepted' /\ result = "OK"
  BY <1>1 DEF IInv, Phases, Accepted
<1>3. Shape'
  BY <1>1 DEF IInv, Shape
<1>4. Phases'
  BY <1>1, <1>2 DEF IInv, Phases
<1>5. Counter'
  BY <1>1, <1>2 DEF IInv, Counter
<1>6. Made'
  BY <1>1, <1>2 DEF IInv, Made
<1> QED BY <1>3, <1>4, <1>5, <1>6 DEF IInv

LEMMA StepKeeps == IInv /\ [Next]_vars => IInv'
<1> SUFFICES ASSUME IInv, [Next]_vars PROVE IInv'
  OBVIOUS
<1>1. CASE UNCHANGED vars
  BY <1>1 DEF vars, IInv, Shape, Phases, Counter, Made, Accepted
<1>2. CASE Next
  BY <1>1, <1>2, ParseKeeps, MakeNameKeeps, AllNamedKeeps DEF Next, Stopped
<1> QED BY <1>1, <1>2

\* The invariant holds of every run, for every set of patterns and every width
\* of the integers.
THEOREM SequenceInvariant == Spec => []IInv
<1> QED BY InitEstablishes, StepKeeps, PTL DEF Spec

\* Type correctness, with the place of the counter.
THEOREM TypeCorrect == Spec => []TypeOK
<1>1. IInv => TypeOK
  <2> SUFFICES ASSUME IInv PROVE TypeOK
    OBVIOUS
  <2>1. ASSUME pass = "name"
        PROVE  /\ seq.first < seq.last
               /\ seq.last < UlongMod - 1 =>
                    i \in seq.first..(seq.last + 1) /\ Len(names) = i - seq.first
    <3>1. Accepted /\ Shape /\ Phases
      BY <2>1 DEF IInv, Phases, Accepted
    <3>2. seq.first \in 0..(UlongMod - 1) /\ seq.last \in 0..(UlongMod - 1)
          /\ seq.first < seq.last
      BY <3>1, AcceptedIs
    <3>3. Len(names) \in Nat
      BY <3>1 DEF Shape
    <3>4. seq.last < UlongMod - 1 => i = seq.first + Len(names) /\ i <= seq.last + 1
      BY <3>1 DEF IInv, Counter
    <3> DEFINE f == seq.first
               l == seq.last
               n == Len(names)
    <3>5. f \in Int /\ l \in Int /\ n \in Nat /\ UlongMod \in Int /\ f < l
          /\ (l < UlongMod - 1 => i = f + n /\ i <= l + 1)
      BY ONLY <3>2, <3>3, <3>4, ModuliAre
    <3>6. l < UlongMod - 1 => i \in f..(l + 1) /\ n = i - f
      <4> HIDE DEF f, l, n
      <4> QED BY ONLY <3>5
    <3> QED BY ONLY <3>5, <3>6
  <2> QED BY <2>1 DEF IInv, Shape, TypeOK
<1> QED BY <1>1, SequenceInvariant, PTL

LEMMA NumbersDiffer ==
  ASSUME NEW s, IsSequence(s), NEW n \in Nat, NEW m \in Nat, Text(s, n) = Text(s, m)
  PROVE  AsInt(n) = AsInt(m)
<1> DEFINE a == Number(s, n)
           b == Number(s, m)
<1>1. a \in Seq(Chars) /\ b \in Seq(Chars) /\ s.start \in Seq(Chars) /\ s.end \in Seq(Chars)
  BY NumberIs DEF IsSequence
<1>2. (s.start \o a) \o s.end = (s.start \o b) \o s.end
  BY ONLY Text(s, n) = Text(s, m) DEF Text
<1>3. a = b
  <2> DEFINE f == s.start
             e == s.end
             fa == f \o a
             fb == f \o b
             u == fa \o e
  <2>1. u = fa \o e /\ u = fb \o e /\ e \in Seq(Chars) /\ f \in Seq(Chars)
    BY ONLY <1>1, <1>2
  <2>2. fa \in Seq(Chars) /\ fb \in Seq(Chars)
    <3> HIDE DEF a, b
    <3> QED BY ONLY <1>1
  <2>3. fa = fb
    <3> HIDE DEF u, fa, fb, e
    <3> QED BY ONLY <2>1, <2>2, SameBefore, Zenon
  <2>4. fa = f \o a /\ fa = f \o b
    <3> HIDE DEF a, b, f
    <3> QED BY ONLY <2>3
  <2> HIDE DEF fa, a, b, f
  <2>5. a \in Seq(Chars) /\ b \in Seq(Chars) /\ f \in Seq(Chars)
    BY ONLY <1>1, <2>1
  <2> QED BY ONLY <2>4, <2>5, SameBehind, Zenon
<1> DEFINE w == IF s.padding THEN s.marks ELSE 0
<1>4. w \in Nat
  BY DEF IsSequence
<1>5. a = Printed(AsInt(n), w) /\ b = Printed(AsInt(m), w)
  BY DEF Number
<1>6. AsInt(n) \in Int /\ AsInt(m) \in Int
  BY AsIntIs
<1> HIDE DEF a, b, w
<1> QED BY ONLY <1>3, <1>4, <1>5, <1>6, PrintedDetermines

\* No file is asked for twice until every int has had its turn.
THEOREM NamesDistinct == Spec => []NamesAreDistinct
<1>1. IInv => NamesAreDistinct
  <2> SUFFICES ASSUME IInv, NEW j \in DOMAIN names, NEW k \in DOMAIN names,
                      j < k, k - j < IntMod, names[j] = names[k]
               PROVE  FALSE
    BY DEF NamesAreDistinct
  <2>1. names \in Seq(Seq(Chars)) /\ DOMAIN names = 1..Len(names) /\ Len(names) \in Nat
    BY DEF IInv, Shape
  <2>2. Accepted
    <3>1. names = <<>> => DOMAIN names = {}
      OBVIOUS
    <3> QED BY ONLY <3>1, IInv, j \in DOMAIN names DEF IInv, Phases
  <2>3. IsSequence(seq) /\ seq.first \in Nat
    <3>1. IsSequence(seq) /\ seq.first \in 0..(UlongMod - 1)
      BY <2>2, AcceptedIs DEF IInv
    <3> QED BY ONLY <3>1
  <2> DEFINE n == seq.first + j - 1
             m == seq.first + k - 1
  <2>4. n \in Nat /\ m \in Nat /\ n < m /\ m - n < IntMod
    <3>1. j \in 1..Len(names) /\ k \in 1..Len(names)
      BY <2>1
    <3>2. j \in Nat \ {0} /\ k \in Nat \ {0} /\ IntMod \in Int
      BY ONLY <2>1, <3>1, ModuliAre
    <3> DEFINE f == seq.first
    <3>3. f \in Nat
      BY ONLY <2>3
    <3>4. f + j - 1 \in Nat /\ f + k - 1 \in Nat /\ f + j - 1 < f + k - 1
          /\ (f + k - 1) - (f + j - 1) < IntMod
      <4> HIDE DEF f
      <4> QED BY ONLY <3>2, <3>3, j < k, k - j < IntMod
    <3> QED BY ONLY <3>4
  <2>5. Text(seq, n % UlongMod) = Text(seq, m % UlongMod)
    BY ONLY <2>1, <2>2, names[j] = names[k], IInv, j \in DOMAIN names, k \in DOMAIN names
       DEF IInv, Made
  <2> HIDE DEF n, m
  <2>6. n % UlongMod \in Nat /\ m % UlongMod \in Nat
    BY ONLY <2>4, ModuliAre
  <2>7. AsInt(n % UlongMod) = AsInt(m % UlongMod)
    BY ONLY <2>3, <2>5, <2>6, NumbersDiffer
  <2> QED BY ONLY <2>4, <2>7, IntsDiffer
<1> QED BY <1>1, SequenceInvariant, PTL

\* A number that has no more digits than there are marks has a name.
LEMMA SmallNumbersFit ==
  ASSUME NEW s, IsSequence(s), NEW n \in Nat, NEW m \in Nat, n <= m,
         m < IntMod \div 2, Quotient(m, s.marks) = 0
  PROVE  /\ Fits(s, n)
         /\ s.padding \/ s.marks = 1 => Number(s, n) = Digits(n, s.marks)
         /\ Quotient(n, s.marks) = 0 /\ AsInt(n) = n
<1> DEFINE w == IF s.padding THEN s.marks ELSE 0
<1>1. s.marks \in Nat \ {0} /\ s.padding \in BOOLEAN
  BY DEF IsSequence
<1>2. AsInt(n) = n
  <2>1. n < IntMod \div 2
    BY ModuliAre
  <2> QED BY <2>1, AsIntIs
<1>3. Quotient(n, s.marks) = 0
  <2>1. Quotient(n, s.marks) <= Quotient(m, s.marks) /\ Quotient(n, s.marks) \in Nat
    BY <1>1, QuotientMonotone, QuotientIs
  <2> QED BY ONLY <2>1, Quotient(m, s.marks) = 0
<1>4. Number(s, n) = Printed(n, w)
  BY <1>2 DEF Number
<1>5. Len(Printed(n, w)) <= s.marks /\ (w = s.marks \/ s.marks = 1 => Printed(n, w) = Digits(n, s.marks))
  <2> DEFINE c == s.marks
  <2>1. w \in {0, c} /\ c \in Nat \ {0} /\ Quotient(n, c) = 0
    BY <1>1, <1>3
  <2> HIDE DEF w, c
  <2>2. Len(Printed(n, w)) <= c /\ (w = c \/ c = 1 => Printed(n, w) = Digits(n, c))
    BY ONLY <2>1, PrintedFits, n \in Nat
  <2> QED BY <2>2 DEF c
<1>6. Fits(s, n)
  BY ONLY <1>4, <1>5 DEF Fits
<1>7. s.padding \/ s.marks = 1 => Number(s, n) = Digits(n, s.marks)
  BY ONLY <1>4, <1>5
<1> QED BY ONLY <1>2, <1>3, <1>6, <1>7

\* Only a sign before the last number, or a number that is no int, can need more
\* room than there is.
THEOREM NumbersHaveRoom == Spec => []NumbersFit
<1>1. IInv => NumbersFit
  <2> SUFFICES ASSUME IInv, result = "INTERNAL_ERROR", ~(seq.last >= IntMod \div 2)
               PROVE  TwoDashes(pattern)
    BY DEF NumbersFit, TwoDashes
  <2>1. Accepted
    BY DEF IInv, Phases, Accepted
  <2>2. /\ IsSequence(seq) /\ seq.first \in 0..(UlongMod - 1) /\ seq.last \in 0..(UlongMod - 1)
        /\ (Quotient(seq.last, seq.marks) = 0 \/ TwoDashes(pattern))
    BY <2>1, AcceptedIs DEF IInv
  <2>3. i <= seq.last /\ ~Fits(seq, i) /\ i = (seq.first + Len(names)) % UlongMod
    BY <2>1 DEF IInv, Counter
  <2>4. i \in Nat
    <3> DEFINE x == seq.first + Len(names)
    <3>1. x \in Nat
      BY <2>2 DEF IInv, Shape
    <3>2. x % UlongMod \in Nat
      <4> HIDE DEF x
      <4> QED BY ONLY <3>1, ModuliAre
    <3> QED BY ONLY <2>3, <3>2
  <2>5. seq.last \in Nat /\ seq.last < IntMod \div 2
    <3>1. IntMod \div 2 \in Int
      BY ModuliAre
    <3> DEFINE l == seq.last
    <3>2. l \in Nat /\ ~(l >= IntMod \div 2)
      BY ONLY <2>2, ~(seq.last >= IntMod \div 2), ModuliAre
    <3> HIDE DEF l
    <3>3. l < IntMod \div 2
      BY ONLY <3>1, <3>2
    <3> QED BY ONLY <3>2, <3>3 DEF l
  <2>6. ~(Quotient(seq.last, seq.marks) = 0)
    BY ONLY <2>2, <2>3, <2>4, <2>5, SmallNumbersFit
  <2> QED BY ONLY <2>2, <2>6
<1> QED BY <1>1, SequenceInvariant, PTL

(***************************************************************************)
(* Documented patterns.                                                    *)
(***************************************************************************)
LEMMA DropTwice ==
  ASSUME NEW t \in Seq(Chars), NEW k \in 0..Len(t), NEW l \in 0..(Len(t) - k)
  PROVE  Drop(Drop(t, k), l) = Drop(t, k + l)
<1> DEFINE a == Drop(t, k)
           b == Drop(a, l)
           c == Drop(t, k + l)
<1>1. Len(t) \in Nat /\ k + l \in 0..Len(t)
  OBVIOUS
<1>2. a \in Seq(Chars) /\ Len(a) = Len(t) - k /\ \A j \in 1..(Len(t) - k) : a[j] = t[k + j]
  BY PartsAre
<1>3. c \in Seq(Chars) /\ Len(c) = Len(t) - (k + l)
      /\ \A j \in 1..(Len(t) - (k + l)) : c[j] = t[(k + l) + j]
  BY <1>1, PartsAre
<1> HIDE DEF a, c
<1>4. b \in Seq(Chars) /\ Len(b) = Len(a) - l /\ \A j \in 1..(Len(a) - l) : b[j] = a[l + j]
  <2>1. a \in Seq(Chars) /\ l \in 0..Len(a)
    BY ONLY <1>2, l \in 0..(Len(t) - k)
  <2> QED BY ONLY <2>1, PartsAre
<1> HIDE DEF b
<1>5. Len(b) = Len(c)
  BY ONLY <1>1, <1>2, <1>3, <1>4, k \in 0..Len(t), l \in 0..(Len(t) - k)
<1>6. ASSUME NEW j \in 1..Len(b) PROVE b[j] = c[j]
  <2>1. l + j \in 1..(Len(t) - k) /\ j \in 1..(Len(a) - l) /\ j \in 1..(Len(t) - (k + l))
        /\ k + (l + j) = (k + l) + j
    BY ONLY <1>1, <1>2, <1>4, k \in 0..Len(t), l \in 0..(Len(t) - k), j \in 1..Len(b)
  <2> QED BY ONLY <1>2, <1>3, <1>4, <2>1
<1>7. b = c
  BY ONLY <1>3, <1>4, <1>5, <1>6, SeqEqual
<1> QED BY <1>7 DEF a, b, c

LEMMA TakeBeyond ==
  ASSUME NEW a \in Seq(Chars), NEW b \in Seq(Chars), NEW k \in 0..Len(b)
  PROVE  Take(a \o b, Len(a) + k) = a \o Take(b, k)
<1> DEFINE u == a \o b
           c == Take(u, Len(a) + k)
           d == Take(b, k)
           e == a \o d
<1>1. /\ u \in Seq(Chars) /\ Len(u) = Len(a) + Len(b) /\ Len(b) \in Nat /\ Len(a) \in Nat
      /\ \A j \in 1..Len(u) : u[j] = IF j <= Len(a) THEN a[j] ELSE b[j - Len(a)]
  OBVIOUS
<1> HIDE DEF u
<1>2. Len(a) + k \in 0..Len(u)
  BY <1>1
<1>3. c \in Seq(Chars) /\ Len(c) = Len(a) + k /\ \A j \in 1..(Len(a) + k) : c[j] = u[j]
  BY <1>1, <1>2, PartsAre
<1>4. d \in Seq(Chars) /\ Len(d) = k /\ \A j \in 1..k : d[j] = b[j]
  BY PartsAre
<1> HIDE DEF c, d
<1>5. /\ e \in Seq(Chars) /\ Len(e) = Len(a) + k
      /\ \A j \in 1..(Len(a) + k) : e[j] = IF j <= Len(a) THEN a[j] ELSE d[j - Len(a)]
  BY <1>4
<1> HIDE DEF e
<1>6. ASSUME NEW j \in 1..Len(c) PROVE c[j] = e[j]
  <2>1. j \in 1..(Len(a) + k) /\ j \in 1..Len(u) /\ (~(j <= Len(a)) => j - Len(a) \in 1..k)
    BY <1>1, <1>2, <1>3
  <2>2. c[j] = IF j <= Len(a) THEN a[j] ELSE b[j - Len(a)]
    BY ONLY <1>1, <1>3, <2>1
  <2>3. e[j] = IF j <= Len(a) THEN a[j] ELSE d[j - Len(a)]
    BY ONLY <1>5, <2>1
  <2> QED BY ONLY <1>4, <2>1, <2>2, <2>3
<1>7. c = e
  BY ONLY <1>3, <1>5, <1>6, SeqEqual
<1> QED BY <1>7 DEF c, e, u, d

\* The parts of a documented pattern.
LEMMA DocumentedParts ==
  ASSUME NEW p \in Patterns, Documented(p)
  PROVE  LET F == FirstText(p)
             A == AfterFirst(p)
             R == Drop(A, 1)
             L == LastText(p)
             E == Postfix(p)
         IN /\ F \in Seq(DigitChars) /\ F # <<>> /\ A \in Seq(Chars) /\ p.tail = F \o A
            /\ A # <<>> /\ A[1] = Dash /\ 1 \in 0..Len(A) /\ R \in Seq(Chars)
            /\ L \in Seq(DigitChars) /\ L # <<>> /\ E \in Seq(Chars) /\ R = L \o E
            /\ (E # <<>> => E[1] \notin DigitChars)
            /\ Drop(R, Len(L)) = E
<1> DEFINE t == p.tail
           n == Span(t, DigitChars)
           F == FirstText(p)
           A == AfterFirst(p)
           R == Drop(A, 1)
           m == Span(R, DigitChars)
           L == LastText(p)
           D == Drop(R, m)
<1>1. t \in Seq(Chars) /\ Len(t) \in Nat
  BY PatternIs
<1>2. n \in 0..Len(t) /\ \A j \in 1..n : t[j] \in DigitChars
  BY <1>1, SpanIs DEF Splits
<1>3. F = Take(t, n) /\ F \in Seq(Chars) /\ Len(F) = n /\ \A j \in 1..n : F[j] = t[j]
  BY <1>1, <1>2, PartsAre DEF FirstText
<1>4. F \in Seq(DigitChars)
  <2> HIDE DEF F
  <2> QED BY <1>2, <1>3, DigitsOf
<1>5. A = Drop(t, n) /\ A \in Seq(Chars) /\ Len(A) = Len(t) - n
  <2>1. A = Drop(t, Len(F))
    BY DEF AfterFirst
  <2>2. A = Drop(t, n)
    BY ONLY <1>3, <2>1
  <2>3. Drop(t, n) \in Seq(Chars) /\ Len(Drop(t, n)) = Len(t) - n
    <3> HIDE DEF n
    <3> QED BY ONLY <1>1, <1>2, PartsAre
  <2> QED BY ONLY <2>2, <2>3
<1>6. t = F \o A
  <2>1. t = Take(t, n) \o Drop(t, n)
    BY <1>1, <1>2, PartsTogether
  <2> QED BY ONLY <1>3, <1>5, <2>1, Zenon
<1>7. F # <<>> /\ A # <<>> /\ A[1] = Dash /\ L # <<>>
  BY DEF Documented
<1>8. 1 \in 0..Len(A) /\ Len(A) \in Nat
  <2> HIDE DEF A
  <2>1. Len(A) # 0 /\ Len(A) \in Nat
    BY <1>5, <1>7, Lengths
  <2> QED BY ONLY <2>1
<1>9. R \in Seq(Chars) /\ Len(R) = Len(A) - 1
  <2> HIDE DEF A
  <2> QED BY <1>5, <1>8, PartsAre
<1>10. m \in 0..Len(R) /\ (\A j \in 1..m : R[j] \in DigitChars)
       /\ (m < Len(R) => R[m + 1] \notin DigitChars)
  <2> HIDE DEF R
  <2> QED BY <1>9, SpanIs DEF Splits
<1>11. L = Take(R, m)
  BY DEF LastText
<1>12. L \in Seq(Chars) /\ Len(L) = m /\ \A j \in 1..m : L[j] = R[j]
  <2> HIDE DEF L, R, m
  <2> QED BY <1>9, <1>10, <1>11, PartsAre
<1>13. L \in Seq(DigitChars)
  <2> HIDE DEF L, R
  <2> QED BY <1>10, <1>12, DigitsOf
<1>14. D \in Seq(Chars) /\ Len(D) = Len(R) - m /\ \A j \in 1..(Len(R) - m) : D[j] = R[m + j]
  <2> HIDE DEF R, m
  <2> QED BY <1>9, <1>10, PartsAre
<1>15. R = L \o D
  <2>1. R = Take(R, m) \o Drop(R, m)
    <3> HIDE DEF R, m
    <3> QED BY <1>9, <1>10, PartsTogether
  <2> QED BY ONLY <1>11, <2>1, Zenon
<1>16. D # <<>> => D[1] \notin DigitChars
  <2> SUFFICES ASSUME D # <<>> PROVE D[1] \notin DigitChars
    OBVIOUS
  <2> HIDE DEF D
  <2>1. Len(D) # 0 /\ Len(D) \in Nat
    BY <1>14, Lengths
  <2> HIDE DEF R, m
  <2>2. m < Len(R) /\ 1 \in 1..(Len(R) - m)
    BY ONLY <1>8, <1>9, <1>10, <1>14, <2>1
  <2> QED BY ONLY <1>10, <1>14, <2>2
<1>17. Postfix(p) = D
  <2>1. Postfix(p) = Drop(t, n + 1 + m)
    <3>1. Postfix(p) = Drop(t, Len(F) + 1 + Len(L))
      BY DEF Postfix
    <3> QED BY ONLY <1>3, <1>12, <3>1
  <2>2. Drop(Drop(t, n), 1 + m) = Drop(t, n + (1 + m))
    <3>1. 1 + m \in 0..(Len(t) - n)
      <4> HIDE DEF n, m
      <4> QED BY ONLY <1>1, <1>2, <1>5, <1>8, <1>9, <1>10
    <3> HIDE DEF n, m
    <3> QED BY ONLY <1>1, <1>2, <3>1, DropTwice
  <2>3. Drop(Drop(A, 1), m) = Drop(A, 1 + m)
    <3>1. m \in 0..(Len(A) - 1)
      BY ONLY <1>9, <1>10
    <3> HIDE DEF A, m
    <3> QED BY ONLY <1>5, <1>8, <3>1, DropTwice
  <2>4. n + 1 + m = n + (1 + m)
    <3> HIDE DEF n, m
    <3> QED BY ONLY <1>1, <1>2, <1>8, <1>9, <1>10
  <2> QED BY ONLY <1>5, <2>1, <2>2, <2>3, <2>4
<1>18. Drop(R, Len(L)) = Postfix(p)
  BY ONLY <1>12, <1>17
<1> HIDE DEF F, A, L, D, R
<1>19. Postfix(p) \in Seq(Chars) /\ R = L \o Postfix(p)
       /\ (Postfix(p) # <<>> => Postfix(p)[1] \notin DigitChars)
  BY ONLY <1>14, <1>15, <1>16, <1>17
<1> QED BY ONLY <1>4, <1>5, <1>6, <1>7, <1>8, <1>9, <1>13, <1>18, <1>19 DEF F, A, L, R

\* Its first number without leading zeros.
LEMMA DocumentedStripped ==
  ASSUME NEW p \in Patterns, Documented(p)
  PROVE  \E G \in Seq(DigitChars) :
           Stripped(p) = G \o AfterFirst(p) /\ Value(G) = Value(FirstText(p))
<1> DEFINE t == p.tail
           F == FirstText(p)
           A == AfterFirst(p)
<1>1. /\ F \in Seq(DigitChars) /\ F # <<>> /\ A \in Seq(Chars) /\ t = F \o A
      /\ A # <<>> /\ A[1] = Dash
  BY DocumentedParts
<1> HIDE DEF F, A
<1>2. F \in Seq(Chars) /\ Dash \notin {0} /\ 0 \in DigitChars
  <2>1. DigitChars \subseteq Chars
    BY DEF DigitChars, Chars
  <2>2. F \in Seq(Chars)
    BY ONLY <1>1, <2>1
  <2> QED BY <2>2 DEF Dash, DigitChars
<1>3. CASE ~ZeroLeads(p)
  <2>1. Stripped(p) = t
    BY <1>3 DEF Stripped
  <2> QED BY ONLY <1>1, <2>1 DEF F, A
<1>4. CASE ZeroLeads(p)
  <2> DEFINE k == Span(F, {0})
             Z == Take(F, k)
             G == Drop(F, k)
             B == G \o A
  <2>1. /\ k \in 0..Len(F) /\ \A j \in 1..k : F[j] \in {0}
        /\ (k < Len(F) => F[k + 1] \notin {0})
    BY <1>2, SpanIs DEF Splits
  <2> HIDE DEF k
  <2>2. /\ Z \in Seq(Chars) /\ Len(Z) = k /\ G \in Seq(Chars) /\ Len(G) = Len(F) - k
        /\ \A j \in 1..k : Z[j] = F[j]
        /\ \A j \in 1..(Len(F) - k) : G[j] = F[k + j]
    BY <1>2, <2>1, PartsAre
  <2>3. F = Z \o G
    BY <1>2, <2>1, PartsTogether
  <2> HIDE DEF Z, G
  <2>4. Z \in Seq({0}) /\ \A j \in 1..Len(Z) : Z[j] \in {0}
    BY ONLY <2>1, <2>2
  <2>5. G \in Seq(DigitChars)
    <3>1. \A j \in 1..Len(F) : F[j] \in DigitChars
      BY ONLY <1>1
    <3>2. Len(F) \in Nat
      BY ONLY <1>1
    <3>3. \A j \in 1..Len(G) : G[j] \in DigitChars
      <4> TAKE j \in 1..Len(G)
      <4>1. k + j \in 1..Len(F) /\ j \in 1..(Len(F) - k)
        BY ONLY <2>1, <2>2, <3>2, j \in 1..Len(G)
      <4> QED BY ONLY <2>2, <3>1, <4>1
    <3> QED BY ONLY <2>2, <3>3, DigitsOf
  <2>6. Value(F) = Value(G)
    <3>1. Value(Z \o G) = Value(G)
      BY ONLY <2>4, <2>5, ZerosInFront
    <3> QED BY ONLY <2>3, <3>1, Zenon
  <2>7. B \in Seq(Chars)
    BY ONLY <1>1, <2>2
  <2>8. t = Z \o B
    <3>1. (Z \o G) \o A = Z \o (G \o A)
      <4>1. Z \in Seq(Chars) /\ G \in Seq(Chars) /\ A \in Seq(Chars)
        BY ONLY <1>1, <2>2
      <4> QED BY ONLY <4>1, ConcatAssociative
    <3> QED BY ONLY <1>1, <2>3, <3>1, Zenon
  <2>9. B # <<>> => B[1] \notin {0}
    <3>1. CASE G = <<>>
      <4>1. B = A
        BY ONLY <1>1, <3>1
      <4> HIDE DEF B
      <4> QED BY ONLY <1>1, <1>2, <4>1
    <3>2. CASE G # <<>>
      <4>1. Len(G) \in Nat /\ Len(G) # 0
        BY ONLY <2>2, <3>2, Lengths
      <4>2. k < Len(F) /\ 1 \in 1..(Len(F) - k) /\ 1 \in 1..Len(G)
        <5> DEFINE f == Len(F)
                   g == Len(G)
        <5>1. f \in Nat /\ g = f - k /\ k \in Nat /\ g \in Nat /\ g # 0
          BY ONLY <1>2, <2>1, <2>2, <4>1
        <5> HIDE DEF f, g
        <5>2. k < f /\ 1 \in 1..(f - k) /\ 1 \in 1..g
          BY ONLY <5>1
        <5> QED BY ONLY <5>2 DEF f, g
      <4>3. G[1] \notin {0}
        BY ONLY <2>1, <2>2, <4>2
      <4>4. B[1] = G[1]
        BY ONLY <1>1, <2>2, <4>1, <4>2
      <4> HIDE DEF B
      <4> QED BY ONLY <4>3, <4>4
    <3> QED BY <3>1, <3>2
  <2> HIDE DEF B
  <2>10. Span(Z \o B, {0}) = Len(Z) /\ Drop(Z \o B, Len(Z)) = B
    <3>1. Z \in Seq(Chars) /\ \A j \in 1..Len(Z) : Z[j] \in {0}
      BY ONLY <2>2, <2>4
    <3>2. Span(Z \o B, {0}) = Len(Z)
      BY ONLY <2>7, <2>9, <3>1, SpanOf
    <3>3. Drop(Z \o B, Len(Z)) = B
      BY ONLY <2>7, <3>1, PartsOf
    <3> QED BY ONLY <3>2, <3>3
  <2>11. Stripped(p) = Drop(t, Span(t, {0}))
    BY <1>4 DEF Stripped
  <2>12. Stripped(p) = B
    BY ONLY <2>8, <2>10, <2>11, Zenon
  <2> QED BY ONLY <2>5, <2>6, <2>12 DEF B, F, A
<1> QED BY <1>3, <1>4

\* What init_mhl_sequence makes of a documented pattern.
LEMMA DocumentedIsParsed ==
  ASSUME NEW p \in Patterns, Documented(p)
  PROVE  LET s == Parsed(p) IN
         /\ IsRange(p)
         /\ s.start = p.start /\ s.marks = p.marks /\ s.end = Postfix(p)
         /\ s.first = Value(FirstText(p)) /\ s.last = Value(LastText(p))
         /\ s.first \in Nat /\ s.last \in Nat /\ s.first < s.last
         /\ s.last < IntMod \div 2 /\ Quotient(s.last, p.marks) = 0
         /\ PaddingNoticed(p) => s.padding \/ p.marks = 1
<1> DEFINE t == p.tail
           F == FirstText(p)
           A == AfterFirst(p)
           R == Drop(A, 1)
           L == LastText(p)
           E == Postfix(p)
           S == Stripped(p)
           m == p.marks
           a == Value(F)
           b == Value(L)
<1>1. /\ F \in Seq(DigitChars) /\ F # <<>> /\ A \in Seq(Chars) /\ t = F \o A
      /\ A # <<>> /\ A[1] = Dash /\ 1 \in 0..Len(A) /\ R \in Seq(Chars)
      /\ L \in Seq(DigitChars) /\ L # <<>> /\ E \in Seq(Chars) /\ R = L \o E
      /\ (E # <<>> => E[1] \notin DigitChars)
      /\ Drop(R, Len(L)) = E
  BY DocumentedParts
<1>2. Len(L) <= m /\ m < UcharMod /\ a < b /\ b < IntMod \div 2 /\ m \in Nat \ {0}
  BY PatternIs DEF Documented
<1>3. NumberLen(p) = m
  <2>1. m % UcharMod = m
    BY ONLY <1>2, ModuliAre
  <2> QED BY ONLY <2>1 DEF NumberLen
<1>4. PICK G \in Seq(DigitChars) : S = G \o A /\ Value(G) = a
  BY DocumentedStripped
<1>5. ZeroLeads(p) <=> m > 1 /\ t # <<>> /\ t[1] = 0
  BY ONLY <1>3 DEF ZeroLeads
<1>6. PaddingNoticed(p) <=> m = 1 \/ F[1] = 0 \/ Len(L) < m
  BY DEF PaddingNoticed
<1> HIDE DEF F, A, L, E, S, m
<1>8. a \in Nat /\ b \in Nat /\ Quotient(b, Len(L)) = 0 /\ a < UlongMod /\ b < UlongMod
  <2>1. a \in Nat /\ b \in Nat /\ Quotient(b, Len(L)) = 0
    BY <1>1, ValueIs, ValueVanishes
  <2> HIDE DEF a, b
  <2>2. IntMod \div 2 <= IntMod /\ IntMod \div 2 \in Int /\ IntMod \in Nat /\ UlongMod \in Nat
        /\ IntMod <= UlongMod
    BY ONLY ModuliAre
  <2>3. a < UlongMod /\ b < UlongMod
    BY ONLY <1>2, <2>1, <2>2
  <2> QED BY ONLY <2>1, <2>3
<1> HIDE DEF a, b, R
<1>9. Dash \in Chars /\ DigitChars \subseteq Chars \ {Dash} /\ DigitChars \subseteq Chars
      /\ Dash \notin Chars \ {Dash} /\ Dash \notin DigitChars
  BY DEF Dash, Chars, DigitChars
<1>10. /\ G \in Seq(Chars) /\ L \in Seq(Chars)
       /\ \A j \in 1..Len(G) : G[j] \in Chars \ {Dash}
       /\ \A j \in 1..Len(L) : L[j] \in DigitChars
       /\ Len(G) \in Nat /\ Len(L) \in Nat \ {0}
  <2>1. G \in Seq(Chars) /\ L \in Seq(Chars) /\ Len(G) \in Nat /\ Len(L) \in Nat
    <3>1. G \in Seq(DigitChars) /\ L \in Seq(DigitChars) /\ DigitChars \subseteq Chars
      BY ONLY <1>1, <1>9, G \in Seq(DigitChars)
    <3> QED BY ONLY <3>1
  <2>2. Len(L) # 0
    BY ONLY <1>1, Lengths
  <2>3. \A j \in 1..Len(G) : G[j] \in DigitChars
    BY ONLY G \in Seq(DigitChars)
  <2>4. \A j \in 1..Len(L) : L[j] \in DigitChars
    BY ONLY <1>1
  <2> QED BY ONLY <1>9, <2>1, <2>2, <2>3, <2>4
<1>11. DashAfter(p) = Len(G) /\ Take(S, Len(G)) = G /\ Drop(S, Len(G)) = A
  <2>1. Span(G \o A, Chars \ {Dash}) = Len(G)
    <3>1. A # <<>> => A[1] \notin Chars \ {Dash}
      BY ONLY <1>1, <1>9
    <3> DEFINE C == Chars \ {Dash}
    <3>2. (\A j \in 1..Len(G) : G[j] \in C) /\ (A # <<>> => A[1] \notin C)
      BY ONLY <1>10, <3>1
    <3> HIDE DEF C
    <3>3. Span(G \o A, C) = Len(G)
      BY ONLY <1>1, <1>10, <3>2, SpanOf
    <3> QED BY ONLY <3>3 DEF C
  <2>2. Take(G \o A, Len(G)) = G /\ Drop(G \o A, Len(G)) = A
    BY ONLY <1>1, <1>10, PartsOf
  <2>3. DashAfter(p) = Span(S, Chars \ {Dash})
    BY ONLY DEF DashAfter, S
  <2> QED BY ONLY <1>4, <2>1, <2>2, <2>3, Zenon
<1>12. S \in Seq(Chars) /\ Len(S) = Len(G) + Len(A) /\ Len(A) \in Nat \ {0}
  <2>1. Len(A) # 0 /\ Len(A) \in Nat
    BY ONLY <1>1, Lengths
  <2>2. G \o A \in Seq(Chars) /\ Len(G \o A) = Len(G) + Len(A)
    BY ONLY <1>1, <1>10, ConcatProperties
  <2> QED BY ONLY <1>4, <2>1, <2>2
<1>13. FirstNumber(p) = [value |-> a, end |-> Len(G)]
  <2>1. G \o <<>> = G /\ <<>> \in Seq(Chars)
    BY ONLY <1>10
  <2>2. ~Signed(<<>>)
    BY DEF Signed
  <2>3. Value(G) < UlongMod
    BY ONLY <1>4, <1>8
  <2>4. Strtoul(G \o <<>>) = [value |-> Value(G), end |-> Len(G)]
    <3> DEFINE e == <<>>
    <3>1. e \in Seq(Chars) /\ ~(e # <<>>) /\ ~Signed(e)
      BY ONLY <2>1, <2>2
    <3> HIDE DEF e
    <3>2. Strtoul(G \o e) = [value |-> Value(G), end |-> Len(G)]
      BY ONLY <2>3, <3>1, G \in Seq(DigitChars), StrtoulOfDigits
    <3> QED BY ONLY <3>2 DEF e
  <2>5. FirstNumber(p) = Strtoul(Take(S, DashAfter(p)))
    BY ONLY DEF FirstNumber, S
  <2> QED BY ONLY <1>4, <1>11, <2>1, <2>4, <2>5, Zenon
<1>14. Rest(p) = R
  <2>1. Rest(p) = Drop(S, DashAfter(p) + 1)
    BY ONLY DEF Rest, S
  <2>2. Drop(Drop(S, Len(G)), 1) = Drop(S, Len(G) + 1)
    <3>1. Len(G) \in 0..Len(S) /\ 1 \in 0..(Len(S) - Len(G))
      BY ONLY <1>10, <1>12
    <3> QED BY ONLY <1>12, <3>1, DropTwice
  <2> QED BY ONLY <1>11, <2>1, <2>2 DEF R
<1> DEFINE c == Room(p)
           k == c - Len(L)
           T == Take(E, k)
<1>15. /\ Len(R) = Len(L) + Len(E) /\ Len(E) \in Nat /\ c = (IF Len(R) < m THEN Len(R) ELSE m)
       /\ k \in 0..Len(E) /\ c = Len(L) + k
  <2>1. Len(R) = Len(L) + Len(E) /\ Len(E) \in Nat
    <3>1. Len(L \o E) = Len(L) + Len(E)
      BY ONLY <1>1, <1>10, ConcatProperties
    <3>2. Len(E) \in Nat
      BY ONLY <1>1
    <3> QED BY ONLY <1>1, <3>1, <3>2
  <2>2. c = IF Len(R) < m THEN Len(R) ELSE m
    BY ONLY <1>3, <1>14 DEF Room
  <2> QED BY ONLY <1>2, <1>10, <2>1, <2>2
<1> HIDE DEF c, k
<1>16. LastNumber(p) = [value |-> b, end |-> Len(L)]
  <2>1. T \in Seq(Chars) /\ Len(T) = k /\ \A j \in 1..k : T[j] = E[j]
    BY ONLY <1>1, <1>15, PartsAre
  <2>2. Take(R, c) = L \o T
    <3>1. Take(L \o E, Len(L) + k) = L \o Take(E, k)
      BY ONLY <1>1, <1>10, <1>15, TakeBeyond
    <3> QED BY ONLY <1>1, <1>15, <3>1, Zenon
  <2> HIDE DEF T
  <2>3. T # <<>> => T[1] \notin DigitChars
    <3> SUFFICES ASSUME T # <<>> PROVE T[1] \notin DigitChars
      OBVIOUS
    <3>1. Len(T) # 0
      BY ONLY <2>1, T # <<>>, Lengths
    <3>2. 1 \in 1..k /\ Len(E) # 0
      BY ONLY <1>15, <2>1, <3>1
    <3>3. E # <<>>
      BY ONLY <3>2
    <3> QED BY ONLY <1>1, <2>1, <3>2, <3>3
  <2>4. Strtoul(L \o T) = [value |-> Value(L), end |-> Len(L)]
    <3>1. Value(L) < UlongMod
      BY ONLY <1>8 DEF b
    <3> QED BY ONLY <1>1, <2>1, <2>3, <3>1, StrtoulOfDigits
  <2>5. LastNumber(p) = Strtoul(Take(R, c))
    BY ONLY <1>14 DEF LastNumber, c
  <2> QED BY ONLY <2>2, <2>4, <2>5 DEF b
<1>17. IsRange(p)
  <2>1. DashAfter(p) # Len(S) /\ ~(Len(G) < Len(G)) /\ R # <<>> /\ ~(a >= b)
    <3>1. Len(G) # Len(S) /\ ~(Len(G) < Len(G)) /\ Len(R) # 0
      BY ONLY <1>10, <1>12, <1>15
    <3>2. R # <<>>
      BY ONLY <3>1
    <3>3. ~(a >= b)
      BY ONLY <1>2, <1>8
    <3> QED BY ONLY <1>11, <3>1, <3>2, <3>3
  <2>2. FirstNumber(p).end = Len(G) /\ FirstNumber(p).value = a /\ LastNumber(p).value = b
    BY ONLY <1>13, <1>16
  <2> QED BY ONLY <1>11, <1>14, <2>1, <2>2 DEF IsRange, S
<1>18. Quotient(b, m) = 0
  <2> DEFINE l == Len(L)
             e == m - l
  <2>1. l \in Nat /\ e \in Nat /\ l + e = m /\ Quotient(b, l) = 0
    BY ONLY <1>2, <1>8, <1>10
  <2> HIDE DEF l, e
  <2>2. Quotient(b, l + e) = 0
    BY ONLY <1>8, <2>1, QuotientVanishes
  <2> QED BY ONLY <2>1, <2>2
<1>19. /\ Parsed(p).start = p.start /\ Parsed(p).marks = m /\ Parsed(p).end = E
       /\ Parsed(p).first = a /\ Parsed(p).last = b
       /\ (Parsed(p).padding <=> ZeroLeads(p) \/ Len(R) < m \/ Len(L) < c)
  <2>1. /\ FirstNumber(p).value = a /\ LastNumber(p).value = b /\ LastNumber(p).end = Len(L)
    BY ONLY <1>13, <1>16
  <2>2. /\ Parsed(p).start = p.start /\ Parsed(p).marks = NumberLen(p)
        /\ Parsed(p).first = FirstNumber(p).value /\ Parsed(p).last = LastNumber(p).value
        /\ Parsed(p).end = Drop(Rest(p), LastNumber(p).end)
        /\ (Parsed(p).padding <=> ZeroLeads(p) \/ Len(Rest(p)) < NumberLen(p)
                                  \/ LastNumber(p).end < Room(p))
    <3>1. Parsed(p).padding <=> (ZeroLeads(p) \/ Len(Rest(p)) < NumberLen(p)
                                 \/ LastNumber(p).end < Room(p))
      <4> DEFINE P == ZeroLeads(p) \/ Len(Rest(p)) < NumberLen(p)
                      \/ LastNumber(p).end < Room(p)
      <4>1. Parsed(p).padding = P
        BY ONLY DEF Parsed
      <4> QED BY ONLY <4>1
    <3>2. /\ Parsed(p).start = p.start /\ Parsed(p).marks = NumberLen(p)
          /\ Parsed(p).first = FirstNumber(p).value /\ Parsed(p).last = LastNumber(p).value
          /\ Parsed(p).end = Drop(Rest(p), LastNumber(p).end)
      BY ONLY DEF Parsed
    <3> QED BY ONLY <3>1, <3>2, Zenon
  <2> QED BY ONLY <1>1, <1>3, <1>14, <2>1, <2>2 DEF c
<1>20. PaddingNoticed(p) => Parsed(p).padding \/ m = 1
  <2> SUFFICES ASSUME PaddingNoticed(p), m # 1 PROVE Parsed(p).padding
    OBVIOUS
  <2>1. CASE F[1] = 0
    <3>1. (F \o A)[1] = F[1]
      BY ONLY <1>1
    <3>2. F \o A # <<>>
      BY ONLY <1>1, ConcatSimplifications, <1>9, F \in Seq(Chars)
    <3>3. m > 1
      BY ONLY <1>2, m # 1
    <3> QED BY ONLY <1>1, <1>5, <1>19, <2>1, <3>1, <3>2, <3>3
  <2>2. CASE Len(L) < m
    <3>1. Len(R) < m \/ Len(L) < c
      BY ONLY <1>2, <1>10, <1>15, <2>2
    <3> QED BY ONLY <1>19, <3>1
  <2> QED BY ONLY <1>6, <2>1, <2>2, PaddingNoticed(p), m # 1
<1> QED BY ONLY <1>2, <1>8, <1>17, <1>18, <1>19, <1>20 DEF m, E, a, b, F, L

LEMMA PrefixIf ==
  ASSUME NEW I, NEW s \in Seq(I), NEW J, NEW t \in Seq(J), Len(s) <= Len(t),
         \A k \in 1..Len(s) : s[k] = t[k]
  PROVE  IsPrefix(s, t) /\ (Len(s) = Len(t) => s = t)
<1> DEFINE a == SubSeq(s, 1, Len(s))
           b == SubSeq(t, 1, Len(s))
<1>1. Len(s) \in Nat /\ Len(t) \in Nat
  OBVIOUS
<1>2. a \in Seq(I) /\ Len(a) = Len(s) /\ \A k \in 1..Len(s) : a[k] = s[k]
  OBVIOUS
<1>3. b \in Seq(J) /\ Len(b) = Len(s) /\ \A k \in 1..Len(s) : b[k] = t[k]
  OBVIOUS
<1> HIDE DEF a, b
<1>4. a = b
  <2>1. Len(a) = Len(b) /\ \A k \in 1..Len(a) : a[k] = b[k]
    BY ONLY <1>2, <1>3, \A k \in 1..Len(s) : s[k] = t[k]
  <2>2. a \in Seq(I \cup J) /\ b \in Seq(I \cup J)
    BY ONLY <1>2, <1>3
  <2> QED BY ONLY <2>1, <2>2, SeqEqual
<1>5. Len(s) = Len(t) => s = t
  <2> SUFFICES ASSUME Len(s) = Len(t) PROVE s = t
    OBVIOUS
  <2>1. s \in Seq(I \cup J) /\ t \in Seq(I \cup J)
    BY ONLY s \in Seq(I), t \in Seq(J)
  <2> QED BY ONLY <2>1, Len(s) = Len(t), \A k \in 1..Len(s) : s[k] = t[k], SeqEqual
<1>6. IsPrefix(s, t)
  BY ONLY <1>4, Len(s) <= Len(t) DEF IsPrefix, a, b
<1> QED BY <1>5, <1>6

\* A sequence whose padding shows from its numbers stands for the documented
\* files, in order, and they are what a run has asked for when it ends.
THEOREM NamesDocumented == Spec => []NamesAreDocumented
<1>1. IInv => NamesAreDocumented
  <2> SUFFICES ASSUME IInv, Documented(pattern), PaddingNoticed(pattern)
               PROVE  /\ IsPrefix(names, DocumentedNames(pattern))
                      /\ pass = "done" => names = DocumentedNames(pattern) /\ result = "OK"
    BY DEF NamesAreDocumented
  <2> DEFINE s == Parsed(pattern)
             a == Value(FirstText(pattern))
             b == Value(LastText(pattern))
             D == DocumentedNames(pattern)
             text(k) == pattern.start \o Digits(a + k - 1, pattern.marks) \o Postfix(pattern)
  <2>1. pattern \in Patterns /\ names \in Seq(Seq(Chars)) /\ Len(names) \in Nat
        /\ (names = <<>> => Len(names) = 0)
    BY DEF IInv, Shape
  <2>2. /\ IsRange(pattern)
        /\ s.start = pattern.start /\ s.marks = pattern.marks /\ s.end = Postfix(pattern)
        /\ s.first = a /\ s.last = b /\ a \in Nat /\ b \in Nat /\ a < b
        /\ b < IntMod \div 2 /\ Quotient(b, pattern.marks) = 0
        /\ s.padding \/ pattern.marks = 1
    BY <2>1, DocumentedIsParsed
  <2>3. DocumentedNames(pattern) = [k \in 1..(b - a + 1) |-> text(k)]
    BY DEF DocumentedNames
  <2> HIDE DEF a, b, s, D
  <2>4. b < UlongMod - 1 /\ b + 1 - a \in Nat /\ b - a + 1 \in Nat /\ UlongMod \in Nat \ {0}
    <3>1. UlongMod \in Nat \ {0} /\ IntMod \in Nat /\ IntMod <= UlongMod
      BY ONLY ModuliAre
    <3>2. IntMod \div 2 \in Nat /\ 2 * (IntMod \div 2) <= IntMod
      BY ONLY <3>1
    <3> DEFINE h == IntMod \div 2
    <3>3. h \in Nat /\ 2 * h <= IntMod /\ b < h
      BY ONLY <2>2, <3>2
    <3> HIDE DEF h
    <3> QED BY ONLY <2>2, <3>1, <3>3
  <2>5. D \in Seq({text(k) : k \in 1..(b - a + 1)}) /\ Len(D) = b - a + 1
        /\ \A k \in 1..(b - a + 1) : D[k] = text(k)
    <3> DEFINE n == b - a + 1
    <3>1. n \in Nat /\ D = [k \in 1..n |-> text(k)]
      BY ONLY <2>3, <2>4 DEF D
    <3> HIDE DEF n, text
    <3>2. D \in Seq({text(k) : k \in 1..n}) /\ Len(D) = n /\ \A k \in 1..n : D[k] = text(k)
      BY ONLY <3>1
    <3> QED BY ONLY <3>2 DEF n
  <2>6. result # "INVALID_SEQUENCE"
    BY ONLY <2>2, IInv DEF IInv, Phases
  <2>7. CASE pass = "parse"
    <3>1. names = <<>> /\ Len(names) = 0
      BY ONLY <2>1, <2>7, IInv DEF IInv, Phases, Accepted
    <3>2. Len(names) <= Len(D) /\ \A k \in 1..Len(names) : names[k] = D[k]
      BY ONLY <2>4, <2>5, <3>1
    <3>3. IsPrefix(names, D)
      BY ONLY <2>1, <2>5, <3>2, PrefixIf
    <3> QED BY ONLY <2>7, <3>3 DEF D
  <2>8. CASE pass # "parse"
    <3>1. Accepted
      BY ONLY <2>6, <2>8 DEF Accepted
    <3>2. IsSequence(s) /\ seq = s
      BY ONLY <3>1, IInv, AcceptedIs DEF IInv, s
    <3>3. i = a + Len(names) /\ i <= b + 1
      BY ONLY <2>2, <2>4, <3>1, <3>2, IInv DEF IInv, Counter
    <3>4. /\ result = "INTERNAL_ERROR" => i <= b /\ ~Fits(s, i)
          /\ pass = "done" /\ result = "OK" => i > b
      BY ONLY <2>2, <3>1, <3>2, IInv DEF IInv, Counter
    <3>5. ASSUME NEW n \in Nat, n <= b
          PROVE  Fits(s, n) /\ Number(s, n) = Digits(n, pattern.marks)
      <4>1. Quotient(b, s.marks) = 0
        BY ONLY <2>2
      <4>2. Fits(s, n) /\ (s.padding \/ s.marks = 1 => Number(s, n) = Digits(n, s.marks))
        BY ONLY <2>2, <3>2, <3>5, <4>1, SmallNumbersFit
      <4> QED BY ONLY <2>2, <4>2
    <3>6. ASSUME NEW k \in 1..Len(names) PROVE names[k] = text(k)
      <4> DEFINE n == a + k - 1
      <4>1. n \in Nat /\ n <= b
        BY ONLY <2>1, <2>2, <3>3, k \in 1..Len(names)
      <4>2. n % UlongMod = n
        <5> HIDE DEF n
        <5>1. n \in 0..(UlongMod - 1)
          BY ONLY <2>2, <2>4, <4>1
        <5> QED BY ONLY <2>4, <5>1
      <4>3. names[k] = Text(s, n % UlongMod)
        BY ONLY <2>2, <3>1, <3>2, k \in 1..Len(names), IInv DEF IInv, Made
      <4>4. Number(s, n) = Digits(n, pattern.marks)
        BY ONLY <3>5, <4>1
      <4> HIDE DEF n
      <4>5. names[k] = pattern.start \o Digits(n, pattern.marks) \o Postfix(pattern)
        BY ONLY <2>2, <4>2, <4>3, <4>4 DEF Text
      <4> QED BY ONLY <4>5 DEF n
    <3>7. Len(names) <= Len(D) /\ \A k \in 1..Len(names) : names[k] = D[k]
      <4>1. Len(names) <= b - a + 1
        BY ONLY <2>1, <2>2, <3>3
      <4>2. \A k \in 1..Len(names) : k \in 1..(b - a + 1)
        BY ONLY <2>1, <2>2, <4>1
      <4> HIDE DEF text
      <4> QED BY ONLY <2>5, <3>6, <4>1, <4>2
    <3>8. IsPrefix(names, D) /\ (Len(names) = Len(D) => names = D)
      BY ONLY <2>1, <2>5, <3>7, PrefixIf
    <3>9. pass = "done" => Len(names) = Len(D) /\ result = "OK"
      <4> SUFFICES ASSUME pass = "done" PROVE Len(names) = Len(D) /\ result = "OK"
        OBVIOUS
      <4>1. i \in Nat
        BY ONLY <2>1, <2>2, <3>3
      <4>2. result # "INTERNAL_ERROR"
        BY ONLY <3>4, <3>5, <4>1
      <4>3. result = "OK"
        BY ONLY <2>6, <4>2, IInv DEF IInv, Shape
      <4>4. i > b
        BY ONLY <3>4, <4>3, pass = "done"
      <4>5. Len(names) = Len(D)
        BY ONLY <2>1, <2>2, <2>5, <3>3, <4>1, <4>4
      <4> QED BY ONLY <4>3, <4>5
    <3> QED BY ONLY <3>8, <3>9 DEF D
  <2> QED BY <2>7, <2>8
<1> QED BY <1>1, SequenceInvariant, PTL
====
