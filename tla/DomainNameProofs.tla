-------------------------- MODULE DomainNameProofs --------------------------
(***************************************************************************)
(* What the conversions of DomainName return, for texts of any length and  *)
(* any limits, and the facts on finite sets of numbers this rests on.      *)
(***************************************************************************)
EXTENDS DomainName, FiniteSetTheorems, WellFoundedInduction, SequenceTheorems, TLAPS

-----------------------------------------------------------------------------
(* Numbers. *)

\* The least number principle, from the library's order on finite sets: an
\* induction that needs no operator for the induction hypothesis.
LEMMA LeastNumber ==
  ASSUME NEW T, T \subseteq Nat, T # {}
  PROVE  \E m \in T : \A n \in T : m <= n
<1>1. PICK b \in T : TRUE
  OBVIOUS
<1> DEFINE F == {0..k : k \in {i \in T : i <= b}}
<1>2. F \subseteq FiniteSubsetsOf(0..b) /\ F # {}
  <2>1. \A k \in Nat : IsFiniteSet(0..k)
    BY FS_Interval
  <2>2. QED
    BY <1>1, <2>1 DEF FiniteSubsetsOf
<1>3. PICK X \in F : \A Y \in F : ~(<<Y, X>> \in StrictSubsetOrdering(0..b))
  BY <1>2, FS_StrictSubsetOrderingWellFounded, WFMin
<1>4. PICK m \in T : m <= b /\ X = 0..m
  BY <1>3
<1>5. ASSUME NEW n \in T, n < m
      PROVE  FALSE
  <2>1. 0..n \in F
    BY <1>4, <1>5
  <2>2. (0..n) \subseteq (0..m) /\ m \notin 0..n /\ (0..m) \subseteq 0..b
    BY <1>4, <1>5
  <2>3. <<0..n, 0..m>> \in StrictSubsetOrdering(0..b)
    BY <2>2, <1>4 DEF StrictSubsetOrdering
  <2>4. QED
    BY <2>1, <2>3, <1>3, <1>4
<1>6. QED
  BY <1>4, <1>5

\* A bounded set of numbers has a greatest one.
LEMMA GreatestNumber ==
  ASSUME NEW T, NEW b \in Nat, T \subseteq 0..b, T # {}
  PROVE  \E m \in T : \A n \in T : n <= m
<1> DEFINE U == {b - i : i \in T}
<1>1. U \subseteq Nat /\ U # {}
  <2>1. \A i \in T : b - i \in Nat
    OBVIOUS
  <2>2. QED
    BY <2>1
<1>2. PICK u \in U : \A v \in U : u <= v
  BY <1>1, LeastNumber
<1>3. PICK m \in T : u = b - m
  BY <1>2
<1>4. \A n \in T : b - m <= b - n
  BY <1>2, <1>3
<1>5. QED
  BY <1>3, <1>4

-----------------------------------------------------------------------------
(* The k-th number of a set. *)

Rank(S, i) == Cardinality({j \in S : j <= i})

\* A larger number has a larger rank.
LEMMA RankGrows ==
  ASSUME NEW S, IsFiniteSet(S), S \subseteq Int, NEW i \in S, NEW j \in S, i < j
  PROVE  Rank(S, i) \in Nat /\ Rank(S, j) \in Nat /\ Rank(S, i) < Rank(S, j)
<1> DEFINE A == {x \in S : x <= i}
           B == {x \in S : x <= j}
<1>1. A \in SUBSET B /\ B \in SUBSET S /\ j \in B /\ j \notin A
  <2>1. \A x \in S : x <= i => x <= j
    OBVIOUS
  <2>2. ~(j <= i) /\ j <= j
    OBVIOUS
  <2>3. QED
    BY <2>1, <2>2
<1>2. IsFiniteSet(B) /\ IsFiniteSet(A)
  BY <1>1, FS_Subset
<1>3. Cardinality(A) <= Cardinality(B) /\ Cardinality(A) # Cardinality(B)
  BY <1>1, <1>2, FS_Subset
<1>4. Cardinality(A) \in Nat /\ Cardinality(B) \in Nat
  BY <1>2, FS_CardinalityType
<1>5. QED
  BY <1>3, <1>4 DEF Rank

\* No two numbers of a set have the same rank.
LEMMA RankUnique ==
  ASSUME NEW S, IsFiniteSet(S), S \subseteq Int, NEW i \in S, NEW j \in S,
         Rank(S, i) = Rank(S, j)
  PROVE  i = j
<1>1. ASSUME i < j
      PROVE  FALSE
  <2>1. Rank(S, i) \in Nat /\ Rank(S, j) \in Nat /\ Rank(S, i) < Rank(S, j)
    BY <1>1, RankGrows
  <2>2. QED
    BY <2>1
<1>2. ASSUME j < i
      PROVE  FALSE
  <2>1. Rank(S, i) \in Nat /\ Rank(S, j) \in Nat /\ Rank(S, j) < Rank(S, i)
    BY <1>2, RankGrows
  <2>2. QED
    BY <2>1
<1>3. i \in Int /\ j \in Int
  OBVIOUS
<1>4. QED
  BY <1>1, <1>2, <1>3

\* Every number from 1 to the size of the set is the rank of one element.
LEMMA RankExists ==
  ASSUME NEW S, IsFiniteSet(S), S \subseteq Int, NEW k \in 1..Cardinality(S)
  PROVE  \E i \in S : Rank(S, i) = k
<1> DEFINE n == Cardinality(S)
           f == [i \in S |-> Rank(S, i)]
<1>1. n \in Nat /\ IsFiniteSet(1..n) /\ Cardinality(1..n) = n
  BY FS_CardinalityType, FS_Interval
<1>2. f \in [S -> 1..n]
  <2> SUFFICES ASSUME NEW i \in S
               PROVE  Rank(S, i) \in 1..n
    OBVIOUS
  <2> DEFINE A == {x \in S : x <= i}
  <2>1. A \in SUBSET S /\ i \in A
    OBVIOUS
  <2>2. IsFiniteSet(A) /\ Cardinality(A) <= n
    BY <2>1, FS_Subset
  <2>3. Cardinality(A) \in Nat /\ Cardinality(A) # 0
    BY <2>1, <2>2, FS_CardinalityType, FS_EmptySet
  <2>4. QED
    BY <1>1, <2>2, <2>3 DEF Rank
<1>3. f \in Injection(S, 1..n)
  BY <1>2, RankUnique DEF Injection, IsInjective
<1>4. f \in Surjection(S, 1..n)
  BY <1>1, <1>3, FS_Injection
<1>5. QED
  BY <1>4 DEF Surjection

\* Moving a set of numbers changes no cardinality.
LEMMA ShiftedSet ==
  ASSUME NEW S, NEW T, IsFiniteSet(S), NEW m \in Int, S \subseteq Int, T \subseteq Int,
         \A i \in Int : i \in T <=> i + m \in S
  PROVE  IsFiniteSet(T) /\ Cardinality(T) = Cardinality(S)
<1> DEFINE f == [i \in S |-> i - m]
<1>1. \A i \in S : i - m \in Int /\ (i - m) + m = i
  OBVIOUS
<1>2. f \in [S -> T]
  BY <1>1
<1>3. \A i, j \in S : f[i] = f[j] => i = j
  OBVIOUS
<1>4. \A t \in T : \E i \in S : f[i] = t
  <2>1. \A t \in T : t + m \in S /\ (t + m) - m = t
    OBVIOUS
  <2>2. QED
    BY <2>1
<1>5. f \in Bijection(S, T)
  BY <1>2, <1>3, <1>4 DEF Bijection, Injection, Surjection, IsInjective
<1>6. QED
  BY <1>5, FS_Bijection DEF ExistsBijection

-----------------------------------------------------------------------------
(* Parts of texts. *)

\* Texts without their first characters.
LEMMA SuffixIs ==
  ASSUME NEW C, NEW text \in Seq(C), NEW k \in 0..Len(text)
  PROVE  LET r == SubSeq(text, k + 1, Len(text))
         IN  /\ r \in Seq(C) /\ Len(r) = Len(text) - k
             /\ \A i \in 1..Len(r) : r[i] = text[k + i]
<1>1. Len(text) \in Nat /\ k \in Int /\ k <= Len(text)
  OBVIOUS
<1>2. \A i \in (k + 1)..Len(text) : text[i] \in C
  BY <1>1
<1>3. QED
  BY <1>1, <1>2, SubSeqProperties

\* A part of a text.
LEMMA PartIs ==
  ASSUME NEW C, NEW text \in Seq(C), NEW k \in 0..Len(text), NEW n \in k..Len(text)
  PROVE  LET p == SubSeq(text, k + 1, n)
         IN  /\ p \in Seq(C) /\ Len(p) = n - k
             /\ \A i \in 1..(n - k) : p[i] = text[k + i]
<1>1. Len(text) \in Nat /\ k \in Int /\ n \in Int /\ 0 <= k /\ k <= n /\ n <= Len(text)
  OBVIOUS
<1>2. \A i \in (k + 1)..n : text[i] \in C
  BY <1>1
<1>3. QED
  BY <1>1, <1>2, SubSeqProperties

\* The first characters of a text.
LEMMA PrefixIsText ==
  ASSUME NEW C, NEW text \in Seq(C), NEW n \in 0..Len(text)
  PROVE  SubSeq(text, 1, n) \in Seq(C)
<1>1. 0 \in 0..Len(text) /\ n \in 0..Len(text) /\ 0 + 1 = 1
  OBVIOUS
<1>2. SubSeq(text, 0 + 1, n) \in Seq(C)
  BY <1>1, PartIs
<1>3. QED
  BY <1>1, <1>2

\* A part of a text without its first characters is a part of the text.
LEMMA PartOfSuffix ==
  ASSUME NEW C, NEW text \in Seq(C), NEW p \in 0..Len(text),
         NEW b \in 0..(Len(text) - p), NEW e \in b..(Len(text) - p)
  PROVE  SubSeq(SubSeq(text, p + 1, Len(text)), b + 1, e) = SubSeq(text, (b + p) + 1, e + p)
<1> DEFINE m == SubSeq(text, p + 1, Len(text))
           x == SubSeq(m, b + 1, e)
           y == SubSeq(text, (b + p) + 1, e + p)
           L == Len(text)
<1>1. /\ L \in Nat /\ p \in Int /\ 0 <= p /\ p <= L
      /\ b \in Int /\ 0 <= b /\ e \in Int /\ b <= e /\ e <= L - p
  OBVIOUS
<1>2. m \in Seq(C) /\ Len(m) = L - p /\ \A i \in 1..Len(m) : m[i] = text[p + i]
  BY SuffixIs
<1> HIDE DEF m
<1>3. x \in Seq(C) /\ Len(x) = e - b /\ \A i \in 1..(e - b) : x[i] = m[b + i]
  <2>1. b \in 0..Len(m) /\ e \in b..Len(m)
    BY <1>1, <1>2
  <2>2. QED
    BY <1>2, <2>1, PartIs
<1>4. y \in Seq(C) /\ Len(y) = e - b /\ \A i \in 1..(e - b) : y[i] = text[(b + p) + i]
  <2>1. b + p \in 0..Len(text) /\ e + p \in (b + p)..Len(text) /\ (e + p) - (b + p) = e - b
    BY <1>1
  <2>2. /\ y \in Seq(C) /\ Len(y) = (e + p) - (b + p)
        /\ \A i \in 1..((e + p) - (b + p)) : y[i] = text[(b + p) + i]
    BY <2>1, PartIs
  <2>3. QED
    BY <2>1, <2>2
<1> HIDE DEF x, y, L
<1>5. \A i \in 1..(e - b) : b + i \in 1..Len(m) /\ p + (b + i) = (b + p) + i
  BY <1>1, <1>2
<1>6. \A i \in 1..(e - b) : x[i] = y[i]
  BY <1>2, <1>3, <1>4, <1>5
<1>7. x = y
  BY <1>3, <1>4, <1>6, SeqEqual
<1>8. QED
  BY <1>7 DEF x, y, m

-----------------------------------------------------------------------------
(* normalize_domain *)

Solid(text) == {i \in DOMAIN text : ~isspace(text[i])}

\* The k-th visible character is the one at the k-th place without a blank.
LEMMA VisibleOf ==
  ASSUME NEW C, NEW text \in Seq(C)
  PROVE  /\ IsFiniteSet(Solid(text)) /\ Solid(text) \subseteq 1..Len(text)
         /\ Visible(text) \in Seq(C)
         /\ Len(Visible(text)) = Cardinality(Solid(text)) /\ Len(Visible(text)) \in Nat
         /\ \A k \in 1..Len(Visible(text)) :
              \E i \in Solid(text) : Rank(Solid(text), i) = k /\ Visible(text)[k] = text[i]
<1> DEFINE S == Solid(text)
           n == Cardinality(S)
           Nth(k) == CHOOSE i \in S : Rank(S, i) = k
<1>1. S \in SUBSET (1..Len(text)) /\ DOMAIN text = 1..Len(text) /\ Len(text) \in Nat
  BY DEF Solid
<1>2. IsFiniteSet(S) /\ n \in Nat /\ S \subseteq Int
  <2>1. IsFiniteSet(1..Len(text))
    BY <1>1, FS_Interval
  <2>2. IsFiniteSet(S)
    BY <1>1, <2>1, FS_Subset
  <2>3. n \in Nat
    BY <2>2, FS_CardinalityType
  <2>4. QED
    BY <1>1, <2>2, <2>3
<1> HIDE DEF S, n
<1>3. Visible(text) = [k \in 1..n |-> text[Nth(k)]]
  BY DEF Visible, Rank, S, n, Solid
<1>4. ASSUME NEW k \in 1..n
      PROVE  Nth(k) \in S /\ Rank(S, Nth(k)) = k /\ text[Nth(k)] \in C
  <2>1. \E i \in S : Rank(S, i) = k
    BY <1>2, RankExists DEF n
  <2>2. Nth(k) \in S /\ Rank(S, Nth(k)) = k
    BY <2>1
  <2>3. \A i \in S : text[i] \in C
    BY <1>1
  <2>4. QED
    BY <2>2, <2>3, Zenon
<1> HIDE DEF Nth
<1>5. Visible(text) \in Seq(C) /\ Len(Visible(text)) = n
  BY <1>2, <1>3, <1>4
<1>6. QED
  BY <1>1, <1>2, <1>3, <1>4, <1>5 DEF S, n

\* Blanks before a name make no difference to its visible characters.
LEMMA LeadingBlanks ==
  ASSUME NEW C, NEW text \in Seq(C), NEW m \in 0..Len(text),
         \A i \in 1..m : isspace(text[i])
  PROVE  Visible(SubSeq(text, m + 1, Len(text))) = Visible(text)
<1> DEFINE t == SubSeq(text, m + 1, Len(text))
           S == Solid(text)
           T == Solid(t)
<1>1. /\ t \in Seq(C) /\ Len(t) = Len(text) - m /\ Len(text) \in Nat
      /\ \A i \in 1..Len(t) : t[i] = text[i + m]
      /\ DOMAIN t = 1..Len(t) /\ DOMAIN text = 1..Len(text)
  OBVIOUS
<1> HIDE DEF t
<1>2. \A i \in Int : i \in T <=> i + m \in S
  <2>1. ASSUME NEW i \in Int, i \in T
        PROVE  i + m \in S
    BY <1>1, <2>1 DEF Solid
  <2>2. ASSUME NEW i \in Int, i + m \in S
        PROVE  i \in T
    <3>1. i + m \in 1..Len(text) /\ ~isspace(text[i + m])
      BY <1>1, <2>2 DEF Solid
    <3>2. i \in 1..Len(t)
      BY <1>1, <3>1
    <3>3. QED
      BY <1>1, <3>1, <3>2 DEF Solid
  <2>3. QED
    BY <2>1, <2>2
<1>3. /\ IsFiniteSet(S) /\ IsFiniteSet(T) /\ S \subseteq Int /\ T \subseteq Int
      /\ S \subseteq 1..Len(text) /\ T \subseteq 1..Len(t)
  <2>1. IsFiniteSet(S) /\ S \subseteq 1..Len(text)
    BY VisibleOf
  <2>2. IsFiniteSet(T) /\ T \subseteq 1..Len(t)
    BY <1>1, VisibleOf
  <2>3. QED
    BY <2>1, <2>2
<1> HIDE DEF S, T
<1>4. m \in Int
  BY <1>1
<1>5. Cardinality(T) = Cardinality(S)
  BY <1>2, <1>3, <1>4, ShiftedSet
<1>6. ASSUME NEW i \in T
      PROVE  i + m \in S /\ Rank(T, i) = Rank(S, i + m)
  <2> DEFINE A == {j \in S : j <= i + m}
             B == {j \in T : j <= i}
  <2>1. A \in SUBSET S /\ A \subseteq Int /\ B \subseteq Int
    BY <1>3
  <2>2. IsFiniteSet(A)
    BY <2>1, <1>3, FS_Subset
  <2>3. \A j \in Int : j \in B <=> j + m \in A
    <3>1. \A j \in Int : j <= i <=> j + m <= i + m
      BY <1>3
    <3>2. QED
      BY <3>1, <1>2
  <2> HIDE DEF A, B
  <2>4. Cardinality(B) = Cardinality(A)
    BY <2>1, <2>2, <2>3, <1>4, ShiftedSet
  <2>5. QED
    BY <2>4, <1>2, <1>3 DEF A, B, Rank
<1>7. /\ Visible(t) \in Seq(C) /\ Len(Visible(t)) = Cardinality(T)
      /\ \A k \in 1..Len(Visible(t)) : \E i \in T : Rank(T, i) = k /\ Visible(t)[k] = t[i]
  BY <1>1, VisibleOf DEF T
<1>8. /\ Visible(text) \in Seq(C) /\ Len(Visible(text)) = Cardinality(S)
      /\ \A k \in 1..Len(Visible(text)) :
           \E i \in S : Rank(S, i) = k /\ Visible(text)[k] = text[i]
  BY VisibleOf DEF S
<1>9. ASSUME NEW k \in 1..Len(Visible(t))
      PROVE  Visible(t)[k] = Visible(text)[k]
  <2>1. PICK i \in T : Rank(T, i) = k /\ Visible(t)[k] = t[i]
    BY <1>7
  <2>2. PICK j \in S : Rank(S, j) = k /\ Visible(text)[k] = text[j]
    BY <1>5, <1>7, <1>8
  <2>3. i + m \in S /\ Rank(S, i + m) = Rank(S, j)
    BY <1>6, <2>1, <2>2
  <2>4. i + m = j
    BY <2>3, <1>3, RankUnique
  <2>5. QED
    BY <2>1, <2>2, <2>4, <1>1, <1>3
<1>10. Visible(t) = Visible(text)
  BY <1>5, <1>7, <1>8, <1>9, SeqEqual
<1>11. QED
  BY <1>10 DEF t

\* What fills the copy's buffer is counted from the first visible character.
LEMMA OverflowsIgnoresBlanks ==
  ASSUME NEW C, NEW text \in Seq(C), NEW m \in 0..Len(text),
         \A i \in 1..m : isspace(text[i]),
         NEW len \in Nat, len >= 2
  PROVE  Overflows(SubSeq(text, m + 1, Len(text)), len) <=> Overflows(text, len)
<1> DEFINE t == SubSeq(text, m + 1, Len(text))
           A(k) == {i \in 1..k : ~isspace(text[i])}
           B(k) == {i \in 1..k : ~isspace(t[i])}
<1>1. /\ t \in Seq(C) /\ Len(t) = Len(text) - m /\ Len(text) \in Nat
      /\ \A i \in 1..Len(t) : t[i] = text[i + m]
  OBVIOUS
<1>2. m \in Int
  BY <1>1
<1> HIDE DEF t
<1>3. ASSUME NEW k \in 0..Len(t)
      PROVE  Cardinality(B(k)) = Cardinality(A(k + m))
  <2>1. IsFiniteSet(1..(k + m))
    BY <1>1, FS_Interval
  <2>2. IsFiniteSet(A(k + m))
    BY <2>1, FS_Subset
  <2>3. A(k + m) \subseteq Int /\ B(k) \subseteq Int
    OBVIOUS
  <2>4. \A i \in Int : i \in B(k) <=> i + m \in A(k + m)
    <3>1. ASSUME NEW i \in Int, i \in B(k)
          PROVE  i + m \in A(k + m)
      BY <3>1, <1>1
    <3>2. ASSUME NEW i \in Int, i + m \in A(k + m)
          PROVE  i \in B(k)
      <4>1. i + m > m /\ i + m <= k + m
        BY <3>2, <1>1
      <4>2. i \in 1..k
        BY <4>1, <1>1
      <4>3. QED
        BY <3>2, <4>2, <1>1
    <3>3. QED
      BY <3>1, <3>2
  <2> HIDE DEF A, B
  <2>5. QED
    BY <2>2, <2>3, <2>4, <1>2, ShiftedSet
<1>4. ASSUME NEW k \in 0..m
      PROVE  Cardinality(A(k)) = 0
  <2>1. A(k) = {}
    BY <1>1
  <2>2. QED
    BY <2>1, FS_EmptySet
<1> HIDE DEF A, B
<1>5. Overflows(t, len) <=> \E k \in 0..(Len(t) - 1) : Cardinality(B(k)) >= len - 1
  BY DEF Overflows, B
<1>6. Overflows(text, len) <=> \E k \in 0..(Len(text) - 1) : Cardinality(A(k)) >= len - 1
  BY DEF Overflows, A
<1>7. ASSUME NEW k \in 0..(Len(t) - 1), Cardinality(B(k)) >= len - 1
      PROVE  \E j \in 0..(Len(text) - 1) : Cardinality(A(j)) >= len - 1
  <2>1. k + m \in 0..(Len(text) - 1) /\ k \in 0..Len(t)
    BY <1>1
  <2>2. Cardinality(A(k + m)) >= len - 1
    BY <1>3, <1>7, <2>1
  <2>3. QED
    BY <2>1, <2>2
<1>8. ASSUME NEW k \in 0..(Len(text) - 1), Cardinality(A(k)) >= len - 1
      PROVE  \E j \in 0..(Len(t) - 1) : Cardinality(B(j)) >= len - 1
  <2>1. k > m
    BY <1>1, <1>4, <1>8
  <2>2. k - m \in 0..(Len(t) - 1) /\ k - m \in 0..Len(t) /\ (k - m) + m = k
    BY <1>1, <2>1
  <2>3. Cardinality(B(k - m)) >= len - 1
    BY <1>3, <1>8, <2>2
  <2>4. QED
    BY <2>2, <2>3
<1>9. Overflows(t, len) <=> Overflows(text, len)
  BY <1>5, <1>6, <1>7, <1>8
<1>10. QED
  BY <1>9 DEF t

\* filter.c takes a name with blanks before it for the name without them.
LEMMA LabelsIgnoreBlanks ==
  ASSUME NEW C, NEW text \in Seq(C), NEW m \in 0..Len(text),
         \A i \in 1..m : isspace(text[i])
  PROVE  LabelsOfText(SubSeq(text, m + 1, Len(text))) = LabelsOfText(text)
<1> DEFINE t == SubSeq(text, m + 1, Len(text))
           len == DNS_MAX_NAME_LEN + 1
<1>1. Visible(t) = Visible(text)
  BY LeadingBlanks
<1>2. len \in Nat /\ len >= 2
  BY NameLimits
<1>3. Overflows(t, len) <=> Overflows(text, len)
  BY <1>2, OverflowsIgnoresBlanks
<1> HIDE DEF t, len
<1>4. normalize_domain(t, len) = normalize_domain(text, len)
  <2>1. Written(t) = Written(text)
    BY <1>1 DEF Written
  <2>2. QED
    BY <1>3, <2>1 DEF normalize_domain
<1>5. QED
  BY <1>4 DEF LabelsOfText, t, len

\* A name that is accepted is a text, and fits the buffer with its end.
LEMMA NormalizedName ==
  ASSUME NEW C, \A c \in C : tolower(c) \in C,
         NEW domain \in Seq(C), NEW len \in Nat,
         normalize_domain(domain, len) # Failed
  PROVE  /\ normalize_domain(domain, len) \in Seq(C)
         /\ Len(normalize_domain(domain, len)) \in 1..(len - 1)
<1> DEFINE visible == Visible(domain)
           written == Written(domain)
           solid   == {i \in DOMAIN written : written[i] # "."}
           end     == CHOOSE i \in solid : \A j \in solid : j <= i
           kept    == SubSeq(written, 1, end)
           name    == normalize_domain(domain, len)
<1>1. solid # {} /\ ~Overflows(domain, len) /\ name = kept
  BY DEF normalize_domain, WithoutTrailingDots
<1>2. /\ visible \in Seq(C) /\ Len(visible) = Cardinality(Solid(domain))
      /\ Len(visible) \in Nat /\ DOMAIN visible = 1..Len(visible)
  BY VisibleOf
<1>4. written \in Seq(C) /\ Len(written) = Len(visible) /\ DOMAIN written = 1..Len(visible)
  <2>1. written = [i \in 1..Len(visible) |-> tolower(visible[i])]
    BY <1>2 DEF Written
  <2> HIDE DEF written, visible
  <2>2. \A i \in 1..Len(visible) : visible[i] \in C
    BY <1>2
  <2>3. \A i \in 1..Len(visible) : tolower(visible[i]) \in C
    BY <2>2
  <2>4. QED
    BY <1>2, <2>1, <2>3
<1> HIDE DEF written, visible
<1>5. solid \subseteq 0..Len(visible)
  BY <1>4
<1>6. \E i \in solid : \A j \in solid : j <= i
  BY <1>1, <1>2, <1>5, GreatestNumber
<1>7. end \in solid
  BY <1>6
<1>8. end \in 1..Len(visible)
  BY <1>4, <1>7
<1> HIDE DEF end, solid
<1>9. kept \in Seq(C) /\ Len(kept) = end
  BY <1>2, <1>4, <1>8
<1>10. Len(visible) <= len - 1
  <2> DEFINE n == Len(domain)
             A == {i \in 1..(n - 1) : ~isspace(domain[i])}
  <2>1. n \in Nat /\ n # 0 /\ DOMAIN domain = 1..n
    <3>1. n \in Nat /\ DOMAIN domain = 1..n
      OBVIOUS
    <3>2. ASSUME Solid(domain) = {}
          PROVE  FALSE
      <4>1. Cardinality(Solid(domain)) = 0
        BY <3>2, FS_EmptySet
      <4>2. QED
        BY <1>2, <1>8, <4>1
    <3>3. QED
      BY <3>1, <3>2 DEF Solid
  <2>2. IsFiniteSet(1..(n - 1))
    BY <2>1, FS_Interval
  <2>3. IsFiniteSet(A) /\ Cardinality(A) \in Nat
    BY <2>2, FS_Subset, FS_CardinalityType
  <2>4. Cardinality(A) < len - 1
    <3>1. n - 1 \in 0..(n - 1)
      BY <2>1
    <3>2. ~(Cardinality(A) >= len - 1)
      BY <1>1, <3>1 DEF Overflows
    <3>3. QED
      BY <2>3, <3>2
  <2>5. Cardinality(A \cup {n}) = Cardinality(A) + 1 /\ IsFiniteSet(A \cup {n})
    <3>1. n \notin A
      BY <2>1
    <3> HIDE DEF A, n
    <3>2. QED
      BY <2>3, <3>1, FS_AddElement
  <2>6. Solid(domain) \in SUBSET (A \cup {n})
    BY <2>1 DEF Solid
  <2>7. Cardinality(Solid(domain)) <= Cardinality(A \cup {n})
    BY <2>5, <2>6, FS_Subset
  <2>8. Cardinality(A \cup {n}) \in Nat
    BY <2>5, FS_CardinalityType
  <2>9. QED
    BY <1>2, <2>3, <2>4, <2>5, <2>7, <2>8
<1>11. QED
  BY <1>1, <1>2, <1>8, <1>9, <1>10

-----------------------------------------------------------------------------
(* split_domain_labels *)

\* The place of a number in a set, counted from the largest.
Place(S, i) == Cardinality({j \in S : j >= i})

\* The places from the right are the ranks, in reverse.
LEMMA PlaceIs ==
  ASSUME NEW S, IsFiniteSet(S), S \subseteq Int, NEW i \in S
  PROVE  /\ Cardinality(S) \in Nat /\ Rank(S, i) \in 1..Cardinality(S)
         /\ Place(S, i) = Cardinality(S) + 1 - Rank(S, i)
<1> DEFINE n == Cardinality(S)
           A == {j \in S : j <= i}
           B == S \ A
<1>1. n \in Nat
  BY FS_CardinalityType
<1>2. A \in SUBSET S /\ i \in A /\ S \cap A = A
  OBVIOUS
<1>3. IsFiniteSet(A) /\ Cardinality(A) = Rank(S, i) /\ Cardinality(A) <= n
  BY <1>2, FS_Subset DEF Rank
<1>4. Cardinality(A) \in Nat /\ Cardinality(A) # 0
  BY <1>2, <1>3, FS_CardinalityType, FS_EmptySet
<1>5. IsFiniteSet(B) /\ Cardinality(B) = n - Cardinality(A)
  BY <1>2, FS_Difference
<1>6. {j \in S : j >= i} = B \cup {i} /\ i \notin B
  <2>1. \A j \in S : j >= i <=> ~(j <= i) \/ j = i
    OBVIOUS
  <2>2. i <= i
    OBVIOUS
  <2>3. QED
    BY <2>1, <2>2
<1> HIDE DEF A, B
<1>7. Cardinality(B \cup {i}) = Cardinality(B) + 1
  BY <1>5, <1>6, FS_AddElement
<1>8. Place(S, i) = Cardinality(B) + 1
  BY <1>6, <1>7 DEF Place
<1> HIDE DEF n
<1>9. Rank(S, i) \in 1..n /\ Place(S, i) = n + 1 - Rank(S, i)
  BY <1>1, <1>3, <1>4, <1>5, <1>8
<1>10. QED
  BY <1>1, <1>9 DEF n

\* A place belongs to one element, smaller elements have later places, and
\* every number up to the size of the set is the place of an element.
LEMMA PlaceGrows ==
  ASSUME NEW S, IsFiniteSet(S), S \subseteq Int
  PROVE  /\ \A i, j \in S : Place(S, i) = Place(S, j) => i = j
         /\ \A i, j \in S : i < j => Place(S, j) < Place(S, i)
         /\ \A k \in 1..Cardinality(S) : \E i \in S : Place(S, i) = k
         /\ \A i \in S : Place(S, i) \in 1..Cardinality(S)
         /\ Cardinality(S) \in Nat
<1> DEFINE n == Cardinality(S)
<1>1. n \in Nat
  BY FS_CardinalityType
<1>2. \A i \in S : Rank(S, i) \in 1..n /\ Place(S, i) = n + 1 - Rank(S, i)
  BY PlaceIs
<1>3. \A i, j \in S : Rank(S, i) = Rank(S, j) => i = j
  BY RankUnique
<1>4. \A i, j \in S : i < j => Rank(S, i) < Rank(S, j)
  BY RankGrows
<1>5. \A k \in 1..n : \E i \in S : Rank(S, i) = k
  BY RankExists
<1> HIDE DEF n
<1>6. \A i, j \in S : Place(S, i) = Place(S, j) => i = j
  <2> SUFFICES ASSUME NEW i \in S, NEW j \in S, Place(S, i) = Place(S, j)
               PROVE  Rank(S, i) = Rank(S, j)
    BY <1>3
  <2>1. QED
    BY <1>1, <1>2
<1>7. \A i, j \in S : i < j => Place(S, j) < Place(S, i)
  <2> SUFFICES ASSUME NEW i \in S, NEW j \in S, i < j
               PROVE  Place(S, j) < Place(S, i)
    OBVIOUS
  <2>1. Rank(S, i) < Rank(S, j)
    BY <1>4
  <2>2. QED
    BY <1>1, <1>2, <2>1
<1>8. \A k \in 1..n : \E i \in S : Place(S, i) = k
  <2> SUFFICES ASSUME NEW k \in 1..n
               PROVE  \E i \in S : Place(S, i) = k
    OBVIOUS
  <2>1. n + 1 - k \in 1..n
    BY <1>1
  <2>2. PICK i \in S : Rank(S, i) = n + 1 - k
    BY <1>5, <2>1
  <2>3. Place(S, i) = k
    BY <1>1, <1>2, <2>2
  <2>4. QED
    BY <2>3
<1>9. \A i \in S : Place(S, i) \in 1..n
  BY <1>1, <1>2
<1>10. QED
  BY <1>1, <1>6, <1>7, <1>8, <1>9 DEF n

\* Counted from the right every element has its number too.
LEMMA RankFromRight ==
  ASSUME NEW S, IsFiniteSet(S), S \subseteq Int, NEW k \in 1..Cardinality(S)
  PROVE  \E i \in S : Cardinality({j \in S : j >= i}) = k
<1>1. \E i \in S : Place(S, i) = k
  BY PlaceGrows
<1>2. QED
  BY <1>1 DEF Place

\* What is split without an error gives labels that are not empty, not too
\* long and without a dot.
LEMMA SplitLabels ==
  ASSUME NEW C, NEW name \in Seq(C), split_domain_labels(name) # Failed
  PROVE  /\ split_domain_labels(name) \in Seq(Seq(C))
         /\ \A k \in DOMAIN split_domain_labels(name) :
              /\ Len(split_domain_labels(name)[k]) \in 1..DNS_MAX_LABEL_LEN
              /\ \A i \in DOMAIN split_domain_labels(name)[k] :
                   split_domain_labels(name)[k][i] # "."
<1> DEFINE dots     == {i \in DOMAIN name : name[i] = "."}
           ends     == dots \cup {Len(name) + 1}
           n        == Cardinality(ends)
           End(k)   == CHOOSE e \in ends : Cardinality({d \in ends : d >= e}) = k
           Start(k) == 1 + CHOOSE s \in dots \cup {0} :
                             /\ s < End(k)
                             /\ \A d \in dots : d < End(k) => d <= s
           labels   == [k \in 1..n |-> SubSeq(name, Start(k), End(k) - 1)]
<1>1. /\ split_domain_labels(name) = labels
      /\ \A k \in DOMAIN labels : Len(labels[k]) \in 1..DNS_MAX_LABEL_LEN
  BY Zenon DEF split_domain_labels
<1>2. Len(name) \in Nat /\ DOMAIN name = 1..Len(name)
  OBVIOUS
<1>3. dots \subseteq 1..Len(name) /\ ends \subseteq 1..(Len(name) + 1)
  BY <1>2
<1>4. IsFiniteSet(ends) /\ n \in Nat
  <2>1. IsFiniteSet(1..(Len(name) + 1))
    BY <1>2, FS_Interval
  <2>2. IsFiniteSet(ends)
    BY <1>3, <2>1, FS_Subset
  <2>3. QED
    BY <2>2, FS_CardinalityType
<1>5. ASSUME NEW k \in 1..n
      PROVE  End(k) \in ends
  <2> HIDE DEF ends
  <2>1. ends \subseteq Int
    BY <1>2, <1>3
  <2>2. \E e \in ends : Cardinality({d \in ends : d >= e}) = k
    BY <1>4, <2>1, RankFromRight
  <2>3. QED
    BY <2>2
<1>6. ASSUME NEW k \in 1..n
      PROVE  /\ End(k) \in 1..(Len(name) + 1) /\ Start(k) \in 1..End(k)
             /\ \A d \in dots : d < End(k) => d < Start(k)
  <2> DEFINE e == End(k)
             before == {s \in dots \cup {0} : s < e}
  <2>1. e \in 1..(Len(name) + 1)
    BY <1>3, <1>5
  <2> HIDE DEF e
  <2>2. before \subseteq 0..Len(name) /\ before # {}
    BY <1>2, <1>3, <2>1
  <2>3. \E s \in before : \A d \in before : d <= s
    BY <1>2, <2>2, GreatestNumber
  <2>4. \E s \in dots \cup {0} : s < e /\ \A d \in dots : d < e => d <= s
    BY <2>3
  <2> DEFINE s == CHOOSE s \in dots \cup {0} : s < e /\ \A d \in dots : d < e => d <= s
  <2>5. s \in dots \cup {0} /\ s < e /\ \A d \in dots : d < e => d <= s
    BY <2>4
  <2>6. Start(k) = 1 + s
    BY DEF e
  <2> HIDE DEF s, Start, dots
  <2>7. s \in Nat
    BY <1>2, <1>3, <2>5
  <2>8. dots \subseteq Int
    BY <1>2, <1>3
  <2>9. e \in 1..(Len(name) + 1) /\ Start(k) \in 1..e
        /\ \A d \in dots : d < e => d < Start(k)
    BY <1>2, <2>1, <2>5, <2>6, <2>7, <2>8
  <2>10. QED
    BY <2>9 DEF e
<1> HIDE DEF End, Start, n, ends
<1>7. ASSUME NEW k \in 1..n
      PROVE  /\ labels[k] \in Seq(C)
             /\ \A i \in DOMAIN labels[k] : labels[k][i] # "."
  <2> DEFINE a == Start(k)
             b == End(k) - 1
  <2>1. a \in Int /\ b \in Int /\ a >= 1 /\ b <= Len(name) /\ \A d \in dots : d <= b => d < a
    BY <1>2, <1>3, <1>6
  <2> HIDE DEF a, b
  <2>2. \A i \in a..b : name[i] \in C /\ name[i] # "."
    BY <1>2, <2>1
  <2>3. /\ SubSeq(name, a, b) \in Seq(C)
        /\ Len(SubSeq(name, a, b)) = IF a <= b THEN b - a + 1 ELSE 0
        /\ \A i \in 1..(b - a + 1) : SubSeq(name, a, b)[i] = name[a + i - 1]
    BY <2>1, <2>2, SubSeqProperties
  <2>4. \A i \in DOMAIN SubSeq(name, a, b) : SubSeq(name, a, b)[i] # "."
    BY <2>1, <2>2, <2>3
  <2>5. labels[k] = SubSeq(name, a, b)
    BY DEF a, b
  <2>6. QED
    BY <2>3, <2>4, <2>5
<1>8. labels \in Seq(Seq(C)) /\ DOMAIN labels = 1..n
  <2>1. labels \in [1..n -> Seq(C)]
    BY <1>7, Zenon
  <2> HIDE DEF labels
  <2>2. QED
    BY <1>4, <2>1
<1> HIDE DEF labels
<1>9. QED
  BY <1>1, <1>7, <1>8

\* A text filter.c accepts as a name: its labels keep the limits of the wire.
THEOREM AcceptedNames ==
  ASSUME NEW C, \A c \in C : tolower(c) \in C,
         NEW text \in Seq(C), LabelsOfText(text) # Failed
  PROVE  /\ LabelsOfText(text) \in Seq(Seq(C))
         /\ Len(normalize_domain(text, DNS_MAX_NAME_LEN + 1)) <= DNS_MAX_NAME_LEN
         /\ \A k \in DOMAIN LabelsOfText(text) :
              /\ Len(LabelsOfText(text)[k]) \in 1..DNS_MAX_LABEL_LEN
              /\ \A i \in DOMAIN LabelsOfText(text)[k] : LabelsOfText(text)[k][i] # "."
<1> DEFINE name == normalize_domain(text, DNS_MAX_NAME_LEN + 1)
<1>1. name # Failed /\ LabelsOfText(text) = split_domain_labels(name)
  BY DEF LabelsOfText
<1>2. DNS_MAX_NAME_LEN + 1 \in Nat /\ DNS_MAX_NAME_LEN \in Nat
  BY NameLimits
<1>3. name \in Seq(C) /\ Len(name) \in 1..((DNS_MAX_NAME_LEN + 1) - 1)
  BY <1>1, <1>2, NormalizedName
<1> HIDE DEF name
<1>4. Len(name) <= DNS_MAX_NAME_LEN
  BY <1>2, <1>3
<1>5. /\ split_domain_labels(name) \in Seq(Seq(C))
      /\ \A k \in DOMAIN split_domain_labels(name) :
           /\ Len(split_domain_labels(name)[k]) \in 1..DNS_MAX_LABEL_LEN
           /\ \A i \in DOMAIN split_domain_labels(name)[k] :
                split_domain_labels(name)[k][i] # "."
  BY <1>1, <1>3, SplitLabels
<1>6. QED
  BY <1>1, <1>4, <1>5 DEF name

-----------------------------------------------------------------------------
(* Names below names. *)

Dots(name) == {i \in DOMAIN name : name[i] = "."}
LabelEnds(name) == Dots(name) \cup {Len(name) + 1}
LabelCount(name) == Cardinality(LabelEnds(name))

\* Where the k-th label from the right ends, and what it begins after.
NthEnd(name, k) ==
  CHOOSE e \in LabelEnds(name) : Cardinality({d \in LabelEnds(name) : d >= e}) = k

Before(name, e) ==
  CHOOSE s \in Dots(name) \cup {0} : s < e /\ \A d \in Dots(name) : d < e => d <= s

NthLabel(name, k) ==
  SubSeq(name, 1 + Before(name, NthEnd(name, k)), NthEnd(name, k) - 1)

\* split_domain_labels in these words.
LEMMA SplitIs ==
  ASSUME NEW name, split_domain_labels(name) # Failed
  PROVE  /\ split_domain_labels(name) = [k \in 1..LabelCount(name) |-> NthLabel(name, k)]
         /\ \A k \in 1..LabelCount(name) : Len(NthLabel(name, k)) \in 1..DNS_MAX_LABEL_LEN
<1> DEFINE labels == [k \in 1..LabelCount(name) |-> NthLabel(name, k)]
<1>1. /\ split_domain_labels(name) = labels
      /\ \A k \in DOMAIN labels : Len(labels[k]) \in 1..DNS_MAX_LABEL_LEN
  BY Zenon DEF split_domain_labels, LabelCount, NthLabel, NthEnd, Before, LabelEnds, Dots
<1>2. QED
  BY <1>1

\* Labels end at dots and at the end of the name, numbered from the right.
LEMMA EndsAre ==
  ASSUME NEW C, NEW name \in Seq(C)
  PROVE  /\ Len(name) \in Nat /\ LabelCount(name) \in Nat
         /\ \A i : i \in Dots(name) <=> i \in 1..Len(name) /\ name[i] = "."
         /\ Dots(name) \subseteq 1..Len(name)
         /\ LabelEnds(name) \subseteq 1..(Len(name) + 1) /\ IsFiniteSet(LabelEnds(name))
         /\ \A i : i \in LabelEnds(name) <=> i \in Dots(name) \/ i = Len(name) + 1
<1>1. Len(name) \in Nat /\ DOMAIN name = 1..Len(name)
  OBVIOUS
<1>2. \A i : i \in Dots(name) <=> i \in 1..Len(name) /\ name[i] = "."
  BY <1>1 DEF Dots
<1>3. Dots(name) \subseteq 1..Len(name)
  BY <1>2
<1>4. LabelEnds(name) \subseteq 1..(Len(name) + 1)
  BY <1>1, <1>3 DEF LabelEnds
<1>5. IsFiniteSet(LabelEnds(name))
  <2>1. IsFiniteSet(1..(Len(name) + 1))
    BY <1>1, FS_Interval
  <2>2. QED
    BY <1>4, <2>1, FS_Subset
<1>6. LabelCount(name) \in Nat
  BY <1>5, FS_CardinalityType DEF LabelCount
<1>7. QED
  BY <1>1, <1>2, <1>3, <1>4, <1>5, <1>6 DEF LabelEnds

\* The k-th end from the right is at the k-th place, and the only one there.
LEMMA NthEndIs ==
  ASSUME NEW C, NEW name \in Seq(C)
  PROVE  /\ \A k \in 1..LabelCount(name) :
              /\ NthEnd(name, k) \in LabelEnds(name)
              /\ Place(LabelEnds(name), NthEnd(name, k)) = k
         /\ \A e \in LabelEnds(name) :
              /\ Place(LabelEnds(name), e) \in 1..LabelCount(name)
              /\ NthEnd(name, Place(LabelEnds(name), e)) = e
<1> DEFINE S == LabelEnds(name)
<1>1. IsFiniteSet(S) /\ S \subseteq Int
  BY EndsAre
<1> HIDE DEF S
<1>2. /\ \A i, j \in S : Place(S, i) = Place(S, j) => i = j
      /\ \A k \in 1..Cardinality(S) : \E i \in S : Place(S, i) = k
      /\ \A i \in S : Place(S, i) \in 1..Cardinality(S)
  BY <1>1, PlaceGrows
<1>3. \A k : NthEnd(name, k) = CHOOSE e \in S : Place(S, e) = k
  BY DEF NthEnd, Place, S
<1>4. \A k \in 1..Cardinality(S) : NthEnd(name, k) \in S /\ Place(S, NthEnd(name, k)) = k
  BY <1>2, <1>3
<1>5. \A e \in S : NthEnd(name, Place(S, e)) = e
  BY <1>2, <1>4
<1>6. QED
  BY <1>2, <1>4, <1>5 DEF S, LabelCount

\* The last end from the left is the end of the name, a label begins after the
\* end of the next one from the right, and the last from the right at the
\* beginning of the name.
LEMMA LabelsAdjoin ==
  ASSUME NEW C, NEW name \in Seq(C)
  PROVE  /\ LabelCount(name) \in Nat \ {0} /\ NthEnd(name, 1) = Len(name) + 1
         /\ \A k \in 1..(LabelCount(name) - 1) :
              /\ Before(name, NthEnd(name, k)) = NthEnd(name, k + 1)
              /\ NthEnd(name, k + 1) \in Dots(name)
              /\ NthEnd(name, k + 1) < NthEnd(name, k)
         /\ Before(name, NthEnd(name, LabelCount(name))) = 0
<1> DEFINE S == LabelEnds(name)
           c == LabelCount(name)
           N == Len(name)
           dots == Dots(name)
           end(k) == NthEnd(name, k)
<1>1. /\ N \in Nat /\ c \in Nat /\ dots \subseteq 1..N
      /\ IsFiniteSet(S) /\ S \subseteq Int
      /\ \A i : i \in S <=> i \in dots \/ i = N + 1
      /\ \A i \in S : i \in Int /\ 1 <= i /\ i <= N + 1
  <2>1. S \subseteq Int /\ S \subseteq 1..(N + 1)
    BY EndsAre
  <2>2. \A i \in S : i \in Int /\ 1 <= i /\ i <= N + 1
    <3> HIDE DEF S
    <3>1. N \in Nat
      OBVIOUS
    <3>2. QED
      BY <2>1, <3>1
  <2>3. QED
    BY <2>1, <2>2, EndsAre
<1>2. /\ \A k \in 1..c : end(k) \in S /\ Place(S, end(k)) = k
      /\ \A e \in S : Place(S, e) \in 1..c /\ end(Place(S, e)) = e
  BY NthEndIs
<1> HIDE DEF S, c, N, dots, end
<1>3. /\ \A i, j \in S : i < j => Place(S, j) < Place(S, i)
      /\ \A i, j \in S : Place(S, i) = Place(S, j) => i = j
  BY <1>1, PlaceGrows
<1>4. N + 1 \in S /\ c \in Nat \ {0}
  BY <1>1, <1>2
<1>5. end(1) = N + 1
  <2>1. 1 \in 1..c
    BY <1>4
  <2>2. end(1) \in S /\ Place(S, end(1)) = 1
    BY <1>2, <2>1
  <2>3. end(1) <= N + 1 /\ end(1) \in Int
    BY <1>1, <2>2
  <2>4. ~(end(1) < N + 1)
    <3> SUFFICES ASSUME end(1) < N + 1
                 PROVE  FALSE
      OBVIOUS
    <3>1. Place(S, N + 1) < 1
      BY <1>3, <1>4, <2>2
    <3>2. Place(S, N + 1) \in 1..c
      BY <1>2, <1>4
    <3>3. QED
      BY <1>1, <3>1, <3>2
  <2>5. QED
    BY <1>1, <2>3, <2>4
<1>6. ASSUME NEW k \in 1..(c - 1)
      PROVE  /\ end(k + 1) \in dots /\ end(k + 1) < end(k)
             /\ Before(name, end(k)) = end(k + 1)
  <2>1. k \in 1..c /\ k + 1 \in 1..c /\ k \in Int
    BY <1>1
  <2>2. /\ end(k) \in S /\ end(k + 1) \in S /\ Place(S, end(k)) = k
        /\ Place(S, end(k + 1)) = k + 1
    BY <1>2, <2>1
  <2>3. end(k) \in Int /\ end(k + 1) \in Int /\ end(k) <= N + 1
    BY <1>1, <2>2
  <2>4. end(k + 1) < end(k)
    <3>1. ~(end(k) < end(k + 1))
      <4>1. end(k) < end(k + 1) => k + 1 < k
        BY <1>3, <2>2
      <4>2. QED
        BY <2>1, <4>1
    <3>2. end(k) # end(k + 1)
      BY <2>1, <2>2
    <3>3. QED
      BY <2>3, <3>1, <3>2
  <2>5. end(k + 1) \in dots
    <3>1. end(k + 1) # N + 1
      BY <1>1, <2>3, <2>4
    <3>2. QED
      BY <1>1, <2>2, <3>1
  <2>6. \A d \in dots : d < end(k) => d <= end(k + 1)
    <3> SUFFICES ASSUME NEW d \in dots, d < end(k), end(k + 1) < d
                 PROVE  FALSE
      BY <1>1, <2>3
    <3>1. d \in S /\ Place(S, d) \in Int
      BY <1>1, <1>2
    <3>2. k < Place(S, d) /\ Place(S, d) < k + 1
      BY <1>3, <2>2, <3>1
    <3>3. QED
      BY <2>1, <3>1, <3>2
  <2>7. Before(name, end(k)) = end(k + 1)
    <3> DEFINE P(s) == s < end(k) /\ \A d \in dots : d < end(k) => d <= s
    <3>1. P(end(k + 1)) /\ end(k + 1) \in dots \cup {0}
      BY <2>4, <2>5, <2>6
    <3>2. \A s \in dots \cup {0} : P(s) => s = end(k + 1)
      <4> SUFFICES ASSUME NEW s \in dots \cup {0}, P(s)
                   PROVE  s = end(k + 1)
        OBVIOUS
      <4>1. end(k + 1) <= s /\ end(k + 1) >= 1
        <5>1. end(k + 1) <= s
          BY <2>4, <2>5
        <5>2. QED
          BY <1>1, <2>2, <5>1
      <4>2. s \in dots /\ s \in Int
        BY <1>1, <2>3, <4>1
      <4>3. s <= end(k + 1)
        BY <2>6, <4>2
      <4>4. QED
        BY <2>3, <4>1, <4>2, <4>3
    <3>3. Before(name, end(k)) = CHOOSE s \in dots \cup {0} : P(s)
      BY DEF Before, dots
    <3> HIDE DEF P
    <3>4. QED
      BY <3>1, <3>2, <3>3
  <2>8. QED
    BY <2>4, <2>5, <2>7
<1>7. Before(name, end(c)) = 0
  <2>1. end(c) \in S /\ Place(S, end(c)) = c /\ end(c) \in Int /\ 0 < end(c)
    <3>1. c \in 1..c
      BY <1>4
    <3>2. end(c) \in S /\ Place(S, end(c)) = c
      BY <1>2, <3>1
    <3>3. end(c) \in Int /\ 1 <= end(c)
      BY <1>1, <3>2
    <3>4. QED
      BY <3>2, <3>3
  <2>2. \A d \in dots : ~(d < end(c))
    <3> SUFFICES ASSUME NEW d \in dots, d < end(c)
                 PROVE  FALSE
      OBVIOUS
    <3>1. d \in S /\ Place(S, d) \in 1..c
      BY <1>1, <1>2
    <3>2. c < Place(S, d)
      BY <1>3, <2>1, <3>1
    <3>3. QED
      BY <1>1, <3>1, <3>2
  <2>3. 0 \in dots \cup {0}
    OBVIOUS
  <2>4. \A s \in dots \cup {0} : s < end(c) => s = 0
    BY <2>2
  <2>5. Before(name, end(c)) =
          CHOOSE s \in dots \cup {0} : s < end(c) /\ \A d \in dots : d < end(c) => d <= s
    BY DEF Before, dots
  <2>6. QED
    BY <2>1, <2>2, <2>3, <2>4, <2>5
<1>8. QED
  BY <1>4, <1>5, <1>6, <1>7 DEF c, N, dots, end

\* A label by its characters.
LEMMA NthLabelIs ==
  ASSUME NEW C, NEW name \in Seq(C), NEW k \in 1..LabelCount(name)
  PROVE  LET e == NthEnd(name, k)
             b == Before(name, e)
         IN  /\ e \in LabelEnds(name) /\ e \in Int /\ 1 <= e /\ e <= Len(name) + 1
             /\ b \in Int /\ 0 <= b /\ b < e /\ b \in Dots(name) \cup {0}
             /\ Len(NthLabel(name, k)) = e - 1 - b
             /\ \A i \in 1..(e - 1 - b) : NthLabel(name, k)[i] = name[b + i]
<1> DEFINE e == NthEnd(name, k)
           b == Before(name, e)
           N == Len(name)
<1>1. N \in Nat /\ LabelCount(name) \in Nat /\ k \in Int
  BY EndsAre
<1>2. e \in LabelEnds(name) /\ e \in 1..(N + 1)
  BY EndsAre, NthEndIs
<1>3. e \in Int /\ 1 <= e /\ e <= N + 1
  BY <1>1, <1>2
<1> HIDE DEF e
<1>4. b \in Int /\ 0 <= b /\ b < e /\ b \in Dots(name) \cup {0}
  <2>1. CASE k = LabelCount(name)
    <3>1. b = 0
      BY <2>1, LabelsAdjoin DEF e
    <3>2. QED
      BY <1>3, <3>1
  <2>2. CASE k # LabelCount(name)
    <3>1. k \in 1..(LabelCount(name) - 1)
      BY <1>1, <2>2
    <3>2. b \in Dots(name) /\ b < e
      BY <3>1, LabelsAdjoin DEF e
    <3>3. b \in 1..N
      BY <3>2, EndsAre
    <3>4. QED
      BY <1>1, <3>2, <3>3
  <2>3. QED
    BY <2>1, <2>2
<1> HIDE DEF b
<1>5. b \in 0..N /\ e - 1 \in b..N /\ 1 + b = b + 1
  BY <1>1, <1>3, <1>4
<1>6. NthLabel(name, k) = SubSeq(name, b + 1, e - 1)
  BY <1>5 DEF NthLabel, b, e
<1>7. /\ Len(NthLabel(name, k)) = e - 1 - b
      /\ \A i \in 1..(e - 1 - b) : NthLabel(name, k)[i] = name[b + i]
  BY <1>5, <1>6, PartIs DEF N
<1>8. QED
  BY <1>2, <1>3, <1>4, <1>7 DEF b, e, N

\* The labels of a name's tail after a dot are the last labels of the name.
LEMMA TailLabels ==
  ASSUME NEW C, NEW n \in Seq(C), NEW p \in Dots(n), NEW m, m = SubSeq(n, p + 1, Len(n))
  PROVE  /\ LabelCount(m) \in 1..LabelCount(n)
         /\ \A k \in 1..LabelCount(m) : NthLabel(n, k) = NthLabel(m, k)
<1> DEFINE S == LabelEnds(n)
           T == LabelEnds(m)
           cn == LabelCount(n)
           cm == LabelCount(m)
           N == Len(n)
<1>1. /\ N \in Nat /\ p \in Int /\ 1 <= p /\ p <= N /\ p \in 0..N
  BY EndsAre
<1>2. m \in Seq(C) /\ Len(m) = N - p /\ \A i \in 1..(N - p) : m[i] = n[p + i]
  BY <1>1, SuffixIs
<1>3. /\ IsFiniteSet(S) /\ S \subseteq Int
      /\ \A i : i \in S <=> (i \in 1..N /\ n[i] = ".") \/ i = N + 1
      /\ p \in S /\ cn \in Nat
  <2>1. S \subseteq 1..(N + 1)
    BY EndsAre
  <2>2. S \subseteq Int
    BY <1>1, <2>1
  <2>3. QED
    BY <2>2, EndsAre
<1>4. /\ IsFiniteSet(T) /\ T \subseteq Int
      /\ \A i : i \in T <=> (i \in 1..(N - p) /\ m[i] = ".") \/ i = N - p + 1
      /\ cm \in Nat
  <2>1. T \subseteq 1..(Len(m) + 1)
    BY <1>2, EndsAre
  <2>2. T \subseteq Int
    BY <1>1, <1>2, <2>1
  <2>3. QED
    BY <1>2, <2>2, EndsAre
<1>5. /\ \A k \in 1..cn : NthEnd(n, k) \in S /\ Place(S, NthEnd(n, k)) = k
      /\ \A e \in S : Place(S, e) \in 1..cn /\ NthEnd(n, Place(S, e)) = e
  BY NthEndIs
<1>6. /\ \A k \in 1..cm : NthEnd(m, k) \in T /\ Place(T, NthEnd(m, k)) = k
      /\ \A e \in T : Place(T, e) \in 1..cm /\ NthEnd(m, Place(T, e)) = e
  BY <1>2, NthEndIs
<1>7. /\ cm # 0
      /\ \A k \in 1..(cm - 1) : Before(m, NthEnd(m, k)) = NthEnd(m, k + 1)
      /\ Before(m, NthEnd(m, cm)) = 0
  BY <1>2, LabelsAdjoin
<1>8. \A k \in 1..(cn - 1) : Before(n, NthEnd(n, k)) = NthEnd(n, k + 1)
  BY LabelsAdjoin
<1> HIDE DEF S, T, cn, cm, N
<1>9. \A i \in Int : 1 <= i => (i \in T <=> i + p \in S)
  <2> SUFFICES ASSUME NEW i \in Int, 1 <= i
               PROVE  i \in T <=> i + p \in S
    OBVIOUS
  <2>1. i \in 1..(N - p) <=> i + p \in 1..N
    BY <1>1
  <2>2. i = N - p + 1 <=> i + p = N + 1
    BY <1>1
  <2>3. i \in 1..(N - p) => m[i] = n[i + p]
    <3>1. p + i = i + p
      BY <1>1
    <3>2. QED
      BY <1>2, <3>1
  <2>4. QED
    BY <1>3, <1>4, <2>1, <2>2, <2>3
<1>10. \A e \in T : e \in Int /\ 1 <= e
  BY <1>1, <1>4
<1>11. ASSUME NEW e \in T
       PROVE  e + p \in S /\ Place(S, e + p) = Place(T, e)
  <2> DEFINE A == {d \in S : d >= e + p}
             B == {d \in T : d >= e}
  <2>1. A \in SUBSET S /\ A \subseteq Int /\ B \subseteq Int
    BY <1>3, <1>4
  <2>2. IsFiniteSet(A)
    BY <1>3, <2>1, FS_Subset
  <2>3. \A i \in Int : i \in B <=> i + p \in A
    <3> SUFFICES ASSUME NEW i \in Int
                 PROVE  i \in B <=> i + p \in A
      OBVIOUS
    <3>1. i >= e <=> i + p >= e + p
      BY <1>1, <1>10
    <3>2. i >= e => 1 <= i
      BY <1>10
    <3>3. QED
      BY <1>9, <3>1, <3>2
  <2> HIDE DEF A, B
  <2>4. Cardinality(B) = Cardinality(A)
    BY <1>1, <2>1, <2>2, <2>3, ShiftedSet
  <2>5. QED
    BY <1>9, <1>10, <2>4 DEF Place, A, B
<1>12. \A k \in 1..cm : k \in 1..cn /\ NthEnd(n, k) = NthEnd(m, k) + p
  <2> SUFFICES ASSUME NEW k \in 1..cm
               PROVE  k \in 1..cn /\ NthEnd(n, k) = NthEnd(m, k) + p
    OBVIOUS
  <2>1. NthEnd(m, k) \in T /\ Place(T, NthEnd(m, k)) = k
    BY <1>6
  <2>2. NthEnd(m, k) + p \in S /\ Place(S, NthEnd(m, k) + p) = k
    BY <1>11, <2>1
  <2>3. QED
    BY <1>5, <2>2
<1>13. cm \in 1..(cn - 1) /\ NthEnd(n, cm + 1) = p
  <2>1. /\ \A i, j \in S : i < j => Place(S, j) < Place(S, i)
        /\ \A i, j \in S : Place(S, i) = Place(S, j) => i = j
    BY <1>3, PlaceGrows
  <2>2. cm \in 1..cm
    BY <1>4, <1>7
  <2> DEFINE e == NthEnd(n, cm)
  <2>3. e \in S /\ Place(S, e) = cm /\ p < e
    <3>1. e = NthEnd(m, cm) + p /\ NthEnd(m, cm) \in T
      BY <1>6, <1>12, <2>2
    <3>2. p < e
      BY <1>1, <1>10, <3>1
    <3>3. QED
      BY <1>5, <1>12, <2>2, <3>2
  <2> HIDE DEF e
  <2>4. cm < Place(S, p) /\ Place(S, p) \in 1..cn
    BY <1>3, <1>5, <2>1, <2>3
  <2>5. cm \in 1..(cn - 1) /\ cm + 1 \in 1..cn
    BY <1>3, <1>4, <1>7, <2>4
  <2> DEFINE q == NthEnd(n, cm + 1)
  <2>6. q \in S /\ Place(S, q) = cm + 1
    BY <1>5, <2>5
  <2> HIDE DEF q
  <2>7. ~(q < p)
    <3>1. q < p => Place(S, p) < cm + 1
      BY <1>3, <2>1, <2>6
    <3>2. QED
      BY <1>3, <1>4, <2>4, <3>1
  <2>8. ~(p < q)
    <3> SUFFICES ASSUME p < q
                 PROVE  FALSE
      OBVIOUS
    <3>1. q - p \in Int /\ 1 <= q - p /\ (q - p) + p = q
      BY <1>1, <1>3, <2>6
    <3>2. q - p \in T
      BY <1>9, <2>6, <3>1
    <3>3. Place(T, q - p) = cm + 1
      BY <1>11, <2>6, <3>1, <3>2
    <3>4. Place(T, q - p) \in 1..cm
      BY <1>6, <3>2
    <3>5. QED
      BY <1>4, <3>3, <3>4
  <2>9. q = p
    BY <1>1, <1>3, <2>6, <2>7, <2>8
  <2>10. QED
    BY <2>5, <2>9 DEF q
<1>14. \A k \in 1..cm : Before(n, NthEnd(n, k)) = Before(m, NthEnd(m, k)) + p
  <2> SUFFICES ASSUME NEW k \in 1..cm
               PROVE  Before(n, NthEnd(n, k)) = Before(m, NthEnd(m, k)) + p
    OBVIOUS
  <2>1. k \in 1..(cn - 1)
    BY <1>3, <1>4, <1>13
  <2>2. Before(n, NthEnd(n, k)) = NthEnd(n, k + 1)
    BY <1>8, <2>1
  <2>3. CASE k = cm
    BY <1>1, <1>7, <1>13, <2>2, <2>3
  <2>4. CASE k # cm
    <3>1. k \in 1..(cm - 1) /\ k + 1 \in 1..cm
      BY <1>4, <2>4
    <3>2. QED
      BY <1>7, <1>12, <2>2, <3>1
  <2>5. QED
    BY <2>3, <2>4
<1>15. \A k \in 1..cm : NthLabel(n, k) = NthLabel(m, k)
  <2> SUFFICES ASSUME NEW k \in 1..cm
               PROVE  NthLabel(n, k) = NthLabel(m, k)
    OBVIOUS
  <2> DEFINE e == NthEnd(m, k)
             b == Before(m, e)
  <2>1. e \in Int /\ 1 <= e /\ e <= N - p + 1 /\ b \in Int /\ 0 <= b /\ b < e
    BY <1>2, NthLabelIs DEF cm
  <2>2. NthLabel(m, k) = SubSeq(m, 1 + b, e - 1)
    BY DEF NthLabel
  <2>3. NthLabel(n, k) = SubSeq(n, 1 + (b + p), (e + p) - 1)
    BY <1>12, <1>14 DEF NthLabel
  <2> HIDE DEF e, b
  <2>4. /\ b \in 0..(N - p) /\ e - 1 \in b..(N - p) /\ 1 + b = b + 1
        /\ 1 + (b + p) = (b + p) + 1 /\ (e + p) - 1 = (e - 1) + p
    BY <1>1, <2>1
  <2>5. SubSeq(m, b + 1, e - 1) = SubSeq(n, (b + p) + 1, (e - 1) + p)
    BY <1>1, <2>4, PartOfSuffix DEF N
  <2>6. QED
    BY <2>2, <2>3, <2>4, <2>5
<1>16. cm \in 1..cn
  BY <1>3, <1>4, <1>13
<1>17. QED
  BY <1>15, <1>16 DEF cm, cn

\* The ends and beginnings of labels, gathered for every label of a name.
LEMMA LabelPlaces ==
  ASSUME NEW C, NEW name \in Seq(C), NEW k \in 1..LabelCount(name)
  PROVE  /\ NthEnd(name, k) \in Int /\ 1 <= NthEnd(name, k) /\ NthEnd(name, k) <= Len(name) + 1
         /\ Before(name, NthEnd(name, k)) \in Int /\ 0 <= Before(name, NthEnd(name, k))
         /\ Before(name, NthEnd(name, k)) < NthEnd(name, k)
         /\ Before(name, NthEnd(name, k)) \in Dots(name) \cup {0}
         /\ Len(NthLabel(name, k)) = NthEnd(name, k) - 1 - Before(name, NthEnd(name, k))
BY NthLabelIs

\* When the last labels of a name are the labels of another, their ends are
\* as far from the end of the name as the other's are from its own.
LEMMA SameEnds ==
  ASSUME NEW C, NEW n \in Seq(C), NEW m \in Seq(C), LabelCount(m) <= LabelCount(n),
         \A k \in 1..LabelCount(m) : NthLabel(n, k) = NthLabel(m, k)
  PROVE  \A k \in 1..LabelCount(m) :
           /\ NthEnd(n, k) = NthEnd(m, k) + (Len(n) - Len(m))
           /\ Before(n, NthEnd(n, k)) = Before(m, NthEnd(m, k)) + (Len(n) - Len(m))
<1> DEFINE cn == LabelCount(n)
           cm == LabelCount(m)
           E(k) == NthEnd(n, k)
           F(k) == NthEnd(m, k)
           G(k) == Before(n, NthEnd(n, k))
           H(k) == Before(m, NthEnd(m, k))
           delta == Len(n) - Len(m)
<1>1. Len(n) \in Nat /\ Len(m) \in Nat /\ delta \in Int /\ Len(n) + 1 = (Len(m) + 1) + delta
  OBVIOUS
<1>2. /\ cn \in Nat \ {0} /\ cm \in Nat \ {0} /\ cm <= cn
      /\ E(1) = Len(n) + 1 /\ F(1) = Len(m) + 1
      /\ \A k \in 1..(cn - 1) : G(k) = E(k + 1)
      /\ \A k \in 1..(cm - 1) : H(k) = F(k + 1)
  BY LabelsAdjoin
<1>3. \A k \in 1..cm : k \in 1..cn
  BY <1>2
<1>4. \A k \in 1..cm : /\ E(k) \in Int /\ F(k) \in Int /\ G(k) \in Int /\ H(k) \in Int
                       /\ Len(NthLabel(n, k)) = E(k) - 1 - G(k)
                       /\ Len(NthLabel(m, k)) = F(k) - 1 - H(k)
  BY <1>3, LabelPlaces
<1>5. \A k \in 1..cm : Len(NthLabel(n, k)) = Len(NthLabel(m, k))
  OBVIOUS
<1> HIDE DEF cn, cm, E, F, G, H, delta
<1>6. \A k \in 1..cm : E(k) - 1 - G(k) = F(k) - 1 - H(k)
  BY <1>4, <1>5
<1>7. \A k \in 1..cm : E(k) = F(k) + delta
  <2> DEFINE Bad == {k \in 1..cm : E(k) # F(k) + delta}
  <2> SUFFICES ASSUME Bad # {}
               PROVE  FALSE
    OBVIOUS
  <2>0. Bad \subseteq Nat
    BY <1>2
  <2>1. PICK k \in Bad : \A j \in Bad : k <= j
    BY <2>0, LeastNumber
  <2>2. k # 1
    BY <1>1, <1>2, <2>1
  <2>3. k - 1 \in 1..cm /\ k - 1 \in 1..(cm - 1) /\ k - 1 \in 1..(cn - 1) /\ (k - 1) + 1 = k
    BY <1>2, <2>1, <2>2
  <2>4. E(k - 1) = F(k - 1) + delta
    BY <2>1, <2>3
  <2>5. G(k - 1) = E(k) /\ H(k - 1) = F(k)
    BY <1>2, <2>3
  <2>6. E(k) = F(k) + delta
    <3> DEFINE a == E(k - 1)
               b == F(k - 1)
               c == E(k)
               d == F(k)
    <3>1. /\ a - 1 - c = b - 1 - d /\ a = b + delta
          /\ a \in Int /\ b \in Int /\ c \in Int /\ d \in Int
      BY <1>4, <1>6, <2>1, <2>3, <2>4, <2>5
    <3> HIDE DEF a, b, c, d
    <3>2. c = d + delta
      BY <1>1, <3>1
    <3>3. QED
      BY <3>2 DEF c, d
  <2>7. QED
    BY <2>1, <2>6
<1>8. \A k \in 1..cm : G(k) = H(k) + delta
  <2> SUFFICES ASSUME NEW k \in 1..cm
               PROVE  G(k) = H(k) + delta
    OBVIOUS
  <2> DEFINE a == E(k)
             b == F(k)
             c == G(k)
             d == H(k)
  <2>1. /\ a - 1 - c = b - 1 - d /\ a = b + delta
        /\ a \in Int /\ b \in Int /\ c \in Int /\ d \in Int
    BY <1>4, <1>6, <1>7
  <2> HIDE DEF a, b, c, d
  <2>2. c = d + delta
    BY <1>1, <2>1
  <2>3. QED
    BY <2>2 DEF c, d
<1>9. QED
  BY <1>7, <1>8 DEF cm, E, F, G, H, delta

\* A name whose last labels are all the labels of another is that other name
\* or has it as its tail after a dot.
LEMMA SameLabels ==
  ASSUME NEW C, NEW n \in Seq(C), NEW m \in Seq(C), LabelCount(m) <= LabelCount(n),
         \A k \in 1..LabelCount(m) : NthLabel(n, k) = NthLabel(m, k)
  PROVE  n = m \/ \E p \in Dots(n) : m = SubSeq(n, p + 1, Len(n))
<1> DEFINE cm == LabelCount(m)
           N == Len(n)
           M == Len(m)
           delta == N - M
           T == LabelEnds(m)
           F(k) == NthEnd(m, k)
           H(k) == Before(m, NthEnd(m, k))
<1>1. N \in Nat /\ M \in Nat /\ delta \in Int
  OBVIOUS
<1>2. /\ cm \in Nat \ {0} /\ H(cm) = 0 /\ cm \in 1..cm
      /\ \A k \in 1..cm : k \in 1..LabelCount(n)
  <2>1. /\ LabelCount(m) \in Nat \ {0} /\ LabelCount(n) \in Nat
        /\ Before(m, NthEnd(m, LabelCount(m))) = 0
    BY LabelsAdjoin
  <2>2. QED
    BY <2>1
<1>3. \A k \in 1..cm : /\ NthEnd(n, k) = F(k) + delta
                       /\ Before(n, NthEnd(n, k)) = H(k) + delta
  BY SameEnds
<1>4. delta \in Dots(n) \cup {0} /\ 0 <= delta /\ delta <= N
  <2>1. /\ Before(n, NthEnd(n, cm)) \in Dots(n) \cup {0}
        /\ 0 <= Before(n, NthEnd(n, cm))
    BY <1>2, LabelPlaces
  <2>2. Before(n, NthEnd(n, cm)) = delta
    BY <1>1, <1>2, <1>3
  <2>3. QED
    BY <1>1, <2>1, <2>2
<1>5. /\ T \subseteq Nat /\ M + 1 \in T
      /\ \A i : i \in T <=> (i \in 1..M /\ m[i] = ".") \/ i = M + 1
      /\ \A i \in T : i \in Int /\ 1 <= i /\ i <= M + 1
  <2>1. /\ T \subseteq 1..(M + 1)
        /\ \A i : i \in T <=> (i \in 1..M /\ m[i] = ".") \/ i = M + 1
    BY EndsAre
  <2> HIDE DEF T
  <2>2. \A i \in T : i \in Nat /\ 1 <= i /\ i <= M + 1
    BY <1>1, <2>1
  <2>3. QED
    BY <2>1, <2>2
<1>6. \A e \in T : Place(T, e) \in 1..cm /\ F(Place(T, e)) = e
  BY NthEndIs
<1>7. ASSUME NEW j \in 1..M
      PROVE  m[j] = n[delta + j]
  <2>1. CASE m[j] = "."
    <3> DEFINE k == Place(T, j)
    <3>1. j \in T
      BY <1>5, <2>1
    <3>2. k \in 1..cm /\ F(k) = j
      BY <1>6, <3>1
    <3> HIDE DEF k
    <3>3. NthEnd(n, k) = delta + j
      BY <1>1, <1>3, <3>2
    <3>4. NthEnd(n, k) \in LabelEnds(n)
      BY <1>2, <3>2, NthEndIs
    <3>5. delta + j # N + 1
      BY <1>1
    <3>6. QED
      BY <2>1, <3>3, <3>4, <3>5, EndsAre
  <2>2. CASE m[j] # "."
    <3> DEFINE U == {e \in T : j < e}
    <3>1. U \subseteq Nat /\ U # {}
      <4>1. M + 1 \in U
        BY <1>1, <1>5
      <4>2. QED
        BY <1>5, <4>1
    <3>2. PICK e \in U : \A d \in U : e <= d
      BY <3>1, LeastNumber
    <3> DEFINE k == Place(T, e)
    <3>3. k \in 1..cm /\ F(k) = e
      BY <1>6, <3>2
    <3> HIDE DEF k
    <3> DEFINE b == H(k)
    <3>4. /\ b \in Int /\ 0 <= b /\ b < e /\ b \in Dots(m) \cup {0}
          /\ \A i \in 1..(e - 1 - b) : NthLabel(m, k)[i] = m[b + i]
      BY <3>3, NthLabelIs
    <3>5. \A i \in 1..((e + delta) - 1 - (b + delta)) :
             NthLabel(n, k)[i] = n[(b + delta) + i]
      <4>1. k \in 1..LabelCount(n)
        BY <1>2, <3>3
      <4>2. \A i \in 1..(NthEnd(n, k) - 1 - Before(n, NthEnd(n, k))) :
               NthLabel(n, k)[i] = n[Before(n, NthEnd(n, k)) + i]
        BY <4>1, NthLabelIs
      <4>3. NthEnd(n, k) = e + delta /\ Before(n, NthEnd(n, k)) = b + delta
        BY <1>3, <3>3
      <4>4. QED
        BY <4>2, <4>3
    <3>6. NthLabel(n, k) = NthLabel(m, k)
      BY <3>3
    <3> HIDE DEF b
    <3>7. j < e /\ e \in Int /\ j \in Int
      BY <1>5, <3>2
    <3>8. b < j
      <4> SUFFICES ASSUME j <= b
                   PROVE  FALSE
        BY <3>4, <3>7
      <4>1. b \in Dots(m)
        BY <3>4
      <4>2. b \in T /\ b # j
        BY <2>2, <4>1, EndsAre
      <4>3. b \in U
        BY <3>4, <3>7, <4>2
      <4>4. QED
        BY <3>2, <3>4, <3>7, <4>3
    <3> HIDE DEF delta
    <3>9. /\ j - b \in 1..(e - 1 - b) /\ b + (j - b) = j
          /\ j - b \in 1..((e + delta) - 1 - (b + delta))
          /\ (b + delta) + (j - b) = delta + j
      BY <1>1, <3>4, <3>7, <3>8
    <3>10. QED
      BY <3>4, <3>5, <3>6, <3>9
  <2>3. QED
    BY <2>1, <2>2
<1>8. CASE delta = 0
  <2>1. N = M /\ \A j \in 1..M : delta + j = j
    BY <1>1, <1>8
  <2>2. n = m
    BY <1>7, <2>1, SeqEqual
  <2>3. QED
    BY <2>2
<1>9. CASE delta \in Dots(n)
  <2> DEFINE t == SubSeq(n, delta + 1, N)
  <2>1. delta \in 0..Len(n)
    BY <1>1, <1>4
  <2>2. t \in Seq(C) /\ Len(t) = N - delta /\ \A i \in 1..Len(t) : t[i] = n[delta + i]
    BY <2>1, SuffixIs
  <2>3. N - delta = M
    BY <1>1
  <2> HIDE DEF t, delta
  <2>4. m = t
    BY <1>7, <2>2, <2>3, SeqEqual
  <2>5. QED
    BY <1>9, <2>4 DEF t
<1>10. QED
  BY <1>4, <1>8, <1>9

\* On names that split, walking down the labels from the right meets all
\* the labels of another name exactly when that name is the same or the tail
\* after a dot: "google.com" lies on the way to "ads.google.com" and not to
\* "xgoogle.com".
THEOREM NamesBelow ==
  ASSUME NEW C, NEW n \in Seq(C), NEW m \in Seq(C),
         split_domain_labels(n) # Failed, split_domain_labels(m) # Failed
  PROVE  (\E i \in 1..Len(split_domain_labels(n)) :
             SubSeq(split_domain_labels(n), 1, i) = split_domain_labels(m))
           <=> n = m \/ \E p \in DOMAIN n : n[p] = "." /\ m = SubSeq(n, p + 1, Len(n))
<1> DEFINE L == split_domain_labels(n)
           K == split_domain_labels(m)
           cn == LabelCount(n)
           cm == LabelCount(m)
<1>1. cn \in Nat \ {0} /\ cm \in Nat \ {0}
  BY LabelsAdjoin
<1>2. L = [k \in 1..cn |-> NthLabel(n, k)] /\ K = [k \in 1..cm |-> NthLabel(m, k)]
  BY SplitIs
<1>3. L \in Seq(Seq(C)) /\ K \in Seq(Seq(C))
  BY SplitLabels
<1> HIDE DEF cn, cm
<1>4. /\ Len(L) = cn /\ Len(K) = cm
      /\ \A k \in 1..cn : L[k] = NthLabel(n, k)
      /\ \A k \in 1..cm : K[k] = NthLabel(m, k)
  BY <1>1, <1>2, <1>3
<1> HIDE DEF L, K
<1>5. \A i \in 1..cn : /\ SubSeq(L, 1, i) \in Seq(Seq(C)) /\ Len(SubSeq(L, 1, i)) = i
                       /\ \A k \in 1..i : SubSeq(L, 1, i)[k] = L[k]
  <2> SUFFICES ASSUME NEW i \in 1..cn
               PROVE  /\ SubSeq(L, 1, i) \in Seq(Seq(C)) /\ Len(SubSeq(L, 1, i)) = i
                      /\ \A k \in 1..i : SubSeq(L, 1, i)[k] = L[k]
    OBVIOUS
  <2>1. 0 \in 0..Len(L) /\ i \in 0..Len(L) /\ 0 + 1 = 1 /\ i - 0 = i
    BY <1>1, <1>4
  <2>2. /\ SubSeq(L, 0 + 1, i) \in Seq(Seq(C)) /\ Len(SubSeq(L, 0 + 1, i)) = i - 0
        /\ \A k \in 1..(i - 0) : SubSeq(L, 0 + 1, i)[k] = L[0 + k]
    BY <1>3, <2>1, PartIs
  <2>3. \A k \in 1..i : 0 + k = k
    BY <1>1
  <2>4. QED
    BY <2>1, <2>2, <2>3
<1>6. ASSUME NEW i \in 1..cn, SubSeq(L, 1, i) = K
      PROVE  n = m \/ \E p \in Dots(n) : m = SubSeq(n, p + 1, Len(n))
  <2>1. i = cm /\ cm <= cn
    BY <1>1, <1>4, <1>5, <1>6
  <2>2. \A k \in 1..cm : NthLabel(n, k) = NthLabel(m, k)
    BY <1>1, <1>4, <1>5, <1>6, <2>1
  <2>3. QED
    BY <2>1, <2>2, SameLabels DEF cn, cm
<1>7. ASSUME cm \in 1..cn, \A k \in 1..cm : NthLabel(n, k) = NthLabel(m, k)
      PROVE  \E i \in 1..cn : SubSeq(L, 1, i) = K
  <2>1. \A k \in 1..cm : SubSeq(L, 1, cm)[k] = K[k]
    <3>1. \A k \in 1..cm : k \in 1..cn
      BY <1>1, <1>7
    <3>2. QED
      BY <1>4, <1>5, <1>7, <3>1
  <2>2. SubSeq(L, 1, cm) = K
    BY <1>3, <1>4, <1>5, <1>7, <2>1, SeqEqual
  <2>3. QED
    BY <1>7, <2>2
<1>8. ASSUME n = m \/ \E p \in Dots(n) : m = SubSeq(n, p + 1, Len(n))
      PROVE  cm \in 1..cn /\ \A k \in 1..cm : NthLabel(n, k) = NthLabel(m, k)
  <2>1. CASE n = m
    BY <1>1, <2>1 DEF cn, cm
  <2>2. ASSUME NEW p \in Dots(n), m = SubSeq(n, p + 1, Len(n))
        PROVE  cm \in 1..cn /\ \A k \in 1..cm : NthLabel(n, k) = NthLabel(m, k)
    BY <2>2, TailLabels DEF cn, cm
  <2>3. QED
    BY <1>8, <2>1, <2>2
<1>9. (\E i \in 1..cn : SubSeq(L, 1, i) = K)
        <=> n = m \/ \E p \in Dots(n) : m = SubSeq(n, p + 1, Len(n))
  BY <1>6, <1>7, <1>8
<1>10. QED
  BY <1>4, <1>9 DEF L, K, Dots

-----------------------------------------------------------------------------
(* Labels joined by dots. *)

\* The labels in their order make the name, with a dot between them: label k is
\* behind place at[k - 1] and ends before place at[k].
Joins(name, labels, at) ==
  /\ at \in [0..Len(labels) -> Nat] /\ at[0] = 0 /\ at[Len(labels)] = Len(name) + 1
  /\ \A k \in 1..Len(labels) :
       /\ at[k] = at[k - 1] + Len(labels[k]) + 1
       /\ \A i \in 1..Len(labels[k]) : name[at[k - 1] + i] = labels[k][i]
       /\ k < Len(labels) => name[at[k]] = "."

Dotless(labels) ==
  \A k \in DOMAIN labels : labels[k] # << >> /\ \A i \in DOMAIN labels[k] : labels[k][i] # "."

\* What grows at each step grows from any step to a later one.
LEMMA Increasing ==
  ASSUME NEW n \in Nat, NEW f \in [0..n -> Nat], \A k \in 1..n : f[k - 1] < f[k]
  PROVE  \A j, k \in 0..n : j < k => f[j] < f[k]
<1> SUFFICES ASSUME NEW j \in 0..n, NEW b \in 0..n, j < b, ~(f[j] < f[b])
             PROVE  FALSE
  OBVIOUS
<1> DEFINE T == {k \in 0..n : j < k /\ ~(f[j] < f[k])}
<1>1. T \subseteq Nat /\ T # {}
  <2>1. b \in T
    OBVIOUS
  <2>2. T \subseteq Nat
    OBVIOUS
  <2>3. QED
    BY <2>1, <2>2
<1>2. PICK m \in T : \A k \in T : m <= k
  <2> HIDE DEF T
  <2>1. QED
    BY <1>1, LeastNumber
<1>3. m \in 0..n /\ j < m /\ ~(f[j] < f[m]) /\ m - 1 \in 0..n /\ m \in 1..n /\ m - 1 < m
  BY <1>2
<1>4. m - 1 \notin T
  <2> HIDE DEF T
  <2>1. QED
    BY <1>2, <1>3
<1>5. m - 1 = j \/ f[j] < f[m - 1]
  BY <1>3, <1>4
<1>6. f[m - 1] < f[m] /\ f[m - 1] \in Nat /\ f[m] \in Nat /\ f[j] \in Nat
  BY <1>3
<1>7. CASE m - 1 = j
  BY <1>3, <1>6, <1>7
<1>8. CASE f[j] < f[m - 1]
  <2>1. f[j] < f[m]
    BY <1>6, <1>8
  <2>2. QED
    BY <1>3, <2>1
<1>9. QED
  BY <1>5, <1>7, <1>8

\* The dots of a joined name are those between its labels.
LEMMA JoinedDots ==
  ASSUME NEW C, NEW name \in Seq(C), NEW labels \in Seq(Seq(C)), NEW at,
         Joins(name, labels, at), Dotless(labels)
  PROVE  LET n == Len(labels)
         IN  /\ n \in Nat /\ at \in [0..n -> Nat]
             /\ \A j, k \in 0..n : j < k => at[j] < at[k]
             /\ \A p : p \in Dots(name) <=> \E k \in 1..(n - 1) : p = at[k]
<1> DEFINE n == Len(labels)
<1>1. /\ n \in Nat /\ at \in [0..n -> Nat] /\ at[0] = 0 /\ at[n] = Len(name) + 1
      /\ Len(name) \in Nat
  BY DEF Joins
<1>2. \A k \in 1..n :
        /\ labels[k] \in Seq(C) /\ Len(labels[k]) \in Nat \ {0}
        /\ \A i \in 1..Len(labels[k]) : labels[k][i] # "."
        /\ k - 1 \in 0..n /\ k \in 0..n /\ at[k - 1] \in Nat /\ at[k] \in Nat
        /\ at[k] = at[k - 1] + Len(labels[k]) + 1
        /\ \A i \in 1..Len(labels[k]) : name[at[k - 1] + i] = labels[k][i]
        /\ k < n => name[at[k]] = "."
  <2> SUFFICES ASSUME NEW k \in 1..n
               PROVE  /\ labels[k] \in Seq(C) /\ Len(labels[k]) \in Nat \ {0}
                      /\ \A i \in 1..Len(labels[k]) : labels[k][i] # "."
                      /\ k - 1 \in 0..n /\ k \in 0..n /\ at[k - 1] \in Nat /\ at[k] \in Nat
    BY DEF Joins
  <2>1. labels[k] \in Seq(C) /\ labels[k] # << >> /\ \A i \in DOMAIN labels[k] : labels[k][i] # "."
    BY DEF Dotless
  <2>2. k - 1 \in 0..n /\ k \in 0..n
    BY <1>1
  <2>3. Len(labels[k]) \in Nat \ {0} /\ DOMAIN labels[k] = 1..Len(labels[k])
    BY <2>1
  <2>4. QED
    BY <1>1, <2>1, <2>2, <2>3
<1> HIDE DEF n
<1>3. ASSUME NEW k \in 1..n
      PROVE  at[k - 1] < at[k]
  <2>1. /\ Len(labels[k]) \in Nat /\ at[k - 1] \in Nat
        /\ at[k] = at[k - 1] + Len(labels[k]) + 1
    BY <1>2
  <2>2. QED
    BY <2>1
<1>4. \A j, k \in 0..n : j < k => at[j] < at[k]
  BY <1>1, <1>3, Increasing
<1>5. ASSUME NEW k \in 1..(n - 1)
      PROVE  at[k] \in Dots(name)
  <2>1. k \in 1..n /\ k < n /\ k \in 0..n /\ 0 \in 0..n /\ n \in 0..n /\ 0 < k
    BY <1>1
  <2>2. at[0] < at[k] /\ at[k] < at[n] /\ at[k] \in Nat
    BY <1>1, <1>4, <2>1
  <2>3. at[k] \in 1..Len(name)
    BY <1>1, <2>2
  <2>4. QED
    BY <1>2, <2>1, <2>3, EndsAre
<1>6. ASSUME NEW p \in Dots(name)
      PROVE  \E k \in 1..(n - 1) : p = at[k]
  <2>1. p \in 1..Len(name) /\ name[p] = "."
    BY EndsAre
  <2> DEFINE T == {k \in 0..n : p <= at[k]}
  <2>2. T \subseteq Nat /\ n \in T
    BY <1>1, <2>1
  <2>3. PICK k \in T : \A j \in T : k <= j
    <3> HIDE DEF T
    <3>1. QED
      BY <2>2, LeastNumber
  <2>4. k \in 0..n /\ p <= at[k] /\ k # 0
    BY <1>1, <2>1, <2>3
  <2>5. k \in 1..n /\ k - 1 \in 0..n
    BY <1>1, <2>4
  <2>6. at[k - 1] < p
    <3>1. k - 1 \notin T
      <4> HIDE DEF T
      <4>1. QED
        BY <2>3, <2>4
    <3>2. QED
      BY <1>1, <2>1, <2>5, <3>1
  <2>7. p = at[k]
    <3> SUFFICES ASSUME p # at[k]
                 PROVE  FALSE
      OBVIOUS
    <3>1. /\ Len(labels[k]) \in Nat /\ at[k] = at[k - 1] + Len(labels[k]) + 1
          /\ at[k - 1] \in Nat /\ at[k] \in Nat
      BY <1>2, <2>5
    <3>2. p - at[k - 1] \in 1..Len(labels[k]) /\ at[k - 1] + (p - at[k - 1]) = p
      <4> DEFINE a == at[k - 1]
                 l == Len(labels[k])
      <4>1. /\ p \in Nat /\ a \in Nat /\ l \in Nat
            /\ a < p /\ p <= a + l + 1 /\ p # a + l + 1
        BY <1>1, <2>1, <2>4, <2>6, <3>1
      <4> HIDE DEF a, l
      <4>2. p - a \in 1..l /\ a + (p - a) = p
        BY <4>1
      <4>3. QED
        BY <4>2 DEF a, l
    <3>3. name[p] = labels[k][p - at[k - 1]] /\ labels[k][p - at[k - 1]] # "."
      BY <1>2, <2>5, <3>2
    <3>4. QED
      BY <2>1, <3>3
  <2>8. k # n
    BY <1>1, <2>1, <2>7
  <2>9. QED
    BY <1>1, <2>5, <2>7, <2>8
<1>7. QED
  BY <1>1, <1>4, <1>5, <1>6 DEF n

\* A label is behind the end of the one before it.
LEMMA JoinedBefore ==
  ASSUME NEW C, NEW name \in Seq(C), NEW labels \in Seq(Seq(C)), NEW at,
         Joins(name, labels, at), Dotless(labels), NEW k \in 1..Len(labels)
  PROVE  Before(name, at[k]) = at[k - 1]
<1> DEFINE n == Len(labels)
           P(s) == s < at[k] /\ \A d \in Dots(name) : d < at[k] => d <= s
<1>1. /\ n \in Nat /\ at \in [0..n -> Nat] /\ at[0] = 0
      /\ \A i, j \in 0..n : i < j => at[i] < at[j]
      /\ \A p : p \in Dots(name) <=> \E j \in 1..(n - 1) : p = at[j]
  <2>1. at[0] = 0
    BY DEF Joins
  <2>2. QED
    BY <2>1, JoinedDots
<1>2. k \in 1..n
  OBVIOUS
<1> HIDE DEF n
<1>3. k \in 0..n /\ k - 1 \in 0..n /\ k - 1 < k
  BY <1>1, <1>2
<1>4. at[k - 1] < at[k] /\ at[k - 1] \in Nat /\ at[k] \in Nat
  BY <1>1, <1>3
<1>5. at[k - 1] \in Dots(name) \cup {0}
  <2>1. CASE k = 1
    BY <1>1, <2>1
  <2>2. CASE k # 1
    <3>1. k - 1 \in 1..(n - 1)
      BY <1>1, <1>2, <2>2
    <3>2. QED
      BY <1>1, <3>1
  <2>3. QED
    BY <2>1, <2>2
<1>6. ASSUME NEW d \in Dots(name), d < at[k]
      PROVE  d <= at[k - 1]
  <2>1. PICK j \in 1..(n - 1) : d = at[j]
    BY <1>1
  <2>2. j \in 0..n /\ at[j] \in Nat
    BY <1>1
  <2>3. ~(k < j) /\ k # j
    BY <1>1, <1>3, <1>4, <1>6, <2>1, <2>2
  <2>4. j = k - 1 \/ j < k - 1
    BY <1>1, <1>2, <2>3
  <2>5. at[j] <= at[k - 1]
    <3>1. CASE j = k - 1
      BY <1>4, <3>1
    <3>2. CASE j < k - 1
      BY <1>1, <1>3, <1>4, <2>2, <3>2
    <3>3. QED
      BY <2>4, <3>1, <3>2
  <2>6. QED
    BY <2>1, <2>5
<1>7. ASSUME NEW s \in Dots(name) \cup {0}, P(s)
      PROVE  s = at[k - 1]
  <2>1. s \in Int
    BY EndsAre
  <2>2. at[k - 1] <= s
    <3>1. CASE at[k - 1] = 0
      <4>1. s >= 0
        BY EndsAre
      <4>2. QED
        BY <3>1, <4>1
    <3>2. CASE at[k - 1] # 0
      BY <1>4, <1>5, <1>7, <3>2
    <3>3. QED
      BY <3>1, <3>2
  <2>3. s <= at[k - 1]
    <3>1. CASE s = 0
      BY <1>4, <3>1
    <3>2. CASE s # 0
      BY <1>6, <1>7, <3>2
    <3>3. QED
      BY <3>1, <3>2
  <2>4. QED
    BY <1>4, <2>1, <2>2, <2>3
<1>8. P(at[k - 1])
  BY <1>4, <1>6
<1>9. Before(name, at[k]) = CHOOSE s \in Dots(name) \cup {0} : P(s)
  BY DEF Before
<1> HIDE DEF P
<1>10. QED
  BY <1>5, <1>7, <1>8, <1>9

\* The ends of the labels of a joined name, from the right, are the places
\* between them.
LEMMA JoinedEnds ==
  ASSUME NEW C, NEW name \in Seq(C), NEW labels \in Seq(Seq(C)), NEW at,
         Joins(name, labels, at), Dotless(labels), Len(labels) # 0
  PROVE  /\ LabelCount(name) = Len(labels)
         /\ \A k \in 1..Len(labels) :
              /\ NthEnd(name, k) = at[Len(labels) + 1 - k]
              /\ Before(name, NthEnd(name, k)) = at[Len(labels) - k]
<1> DEFINE n == Len(labels)
           m == LabelCount(name)
           Right(k) == k <= m /\ NthEnd(name, k) = at[n + 1 - k]
           Wrong == {k \in 1..n : ~Right(k)}
<1>1. /\ n \in Nat /\ n >= 1 /\ at \in [0..n -> Nat] /\ at[0] = 0
      /\ at[n] = Len(name) + 1
      /\ \A i, j \in 0..n : i < j => at[i] < at[j]
  <2>1. at[0] = 0 /\ at[n] = Len(name) + 1
    BY DEF Joins
  <2>2. QED
    BY <2>1, JoinedDots
<1>2. \A k \in 1..n : Before(name, at[k]) = at[k - 1]
  BY JoinedBefore
<1>3. /\ m \in Nat /\ m >= 1 /\ NthEnd(name, 1) = Len(name) + 1
      /\ \A k \in 1..(m - 1) : /\ Before(name, NthEnd(name, k)) = NthEnd(name, k + 1)
                               /\ NthEnd(name, k + 1) \in Dots(name)
      /\ Before(name, NthEnd(name, m)) = 0
  BY LabelsAdjoin
<1> HIDE DEF n, m
<1>4. ASSUME NEW k \in 1..n, ~Right(k)
      PROVE  FALSE
  <2>1. Wrong \subseteq Nat
    BY <1>1
  <2>2. k \in Wrong
    BY <1>4
  <2>3. PICK j \in Wrong : \A i \in Wrong : j <= i
    <3> HIDE DEF Wrong
    <3>1. QED
      BY <2>1, <2>2, LeastNumber
  <2>4. j \in 1..n /\ ~Right(j)
    BY <2>3
  <2>5. j # 1
    <3>1. n + 1 - 1 = n
      BY <1>1
    <3>2. Right(1)
      BY <1>1, <1>3, <3>1
    <3>3. QED
      BY <2>4, <3>2
  <2> DEFINE i == j - 1
  <2>6. i \in 1..n /\ i + 1 = j /\ i < j
    BY <1>1, <2>4, <2>5
  <2>7. Right(i)
    BY <1>1, <2>3, <2>4, <2>6
  <2>8. n + 1 - i \in 1..n /\ (n + 1 - i) - 1 = n + 1 - j /\ n + 1 - j \in 1..n /\ n + 1 - j > 0
    BY <1>1, <2>4, <2>6
  <2> HIDE DEF i
  <2>9. Before(name, NthEnd(name, i)) = at[n + 1 - j]
    BY <1>2, <2>7, <2>8
  <2>10. at[n + 1 - j] # 0
    <3>1. 0 \in 0..n /\ n + 1 - j \in 0..n
      BY <1>1, <2>8
    <3>2. at[0] < at[n + 1 - j]
      BY <1>1, <2>8, <3>1
    <3>3. at[n + 1 - j] \in Nat
      BY <1>1, <3>1
    <3>4. QED
      BY <1>1, <3>2, <3>3
  <2>11. i # m
    BY <1>3, <2>9, <2>10
  <2>12. i \in 1..(m - 1) /\ j <= m
    BY <1>3, <2>6, <2>7, <2>11
  <2>13. NthEnd(name, j) = at[n + 1 - j]
    BY <1>3, <2>6, <2>9, <2>12
  <2>14. QED
    BY <2>4, <2>12, <2>13
<1>5. \A k \in 1..n : Right(k)
  BY <1>4
<1>6. m = n
  <2>1. n \in 1..n /\ 1 \in 1..n /\ n + 1 - n = 1 /\ 1 - 1 = 0
    BY <1>1
  <2>2. n <= m /\ NthEnd(name, n) = at[1]
    BY <1>5, <2>1
  <2>3. Before(name, NthEnd(name, n)) = 0
    BY <1>1, <1>2, <2>1, <2>2
  <2>4. n \notin 1..(m - 1)
    <3> SUFFICES ASSUME n \in 1..(m - 1)
                 PROVE  FALSE
      OBVIOUS
    <3>1. 0 \in Dots(name)
      BY <1>3, <2>3
    <3>2. QED
      BY <3>1, EndsAre
  <2>5. QED
    BY <1>1, <1>3, <2>2, <2>4
<1>7. ASSUME NEW k \in 1..n
      PROVE  NthEnd(name, k) = at[n + 1 - k] /\ Before(name, NthEnd(name, k)) = at[n - k]
  <2>1. n + 1 - k \in 1..n /\ (n + 1 - k) - 1 = n - k
    BY <1>1
  <2>2. NthEnd(name, k) = at[n + 1 - k]
    BY <1>5
  <2>3. QED
    BY <1>2, <2>1, <2>2
<1>8. QED
  BY <1>6, <1>7 DEF n, m

\* A joined name is split into its labels.
LEMMA JoinedSplit ==
  ASSUME NEW C, NEW name \in Seq(C), NEW labels \in Seq(Seq(C)), NEW at,
         Joins(name, labels, at), Dotless(labels), Len(labels) # 0,
         \A k \in DOMAIN labels : Len(labels[k]) <= DNS_MAX_LABEL_LEN
  PROVE  split_domain_labels(name) = [k \in 1..Len(labels) |-> labels[Len(labels) + 1 - k]]
<1> DEFINE n == Len(labels)
           parts == [k \in 1..LabelCount(name) |-> NthLabel(name, k)]
<1>1. n \in Nat /\ DOMAIN labels = 1..n
  OBVIOUS
<1>2. LabelCount(name) = n
  BY JoinedEnds
<1>3. ASSUME NEW k \in 1..n
      PROVE  /\ NthLabel(name, k) = labels[n + 1 - k]
             /\ Len(NthLabel(name, k)) \in 1..DNS_MAX_LABEL_LEN
  <2> DEFINE j == n + 1 - k
             label == labels[j]
             e == NthEnd(name, k)
             b == Before(name, e)
  <2>1. j \in 1..n /\ j - 1 = n - k
    BY <1>1
  <2>2. label \in Seq(C) /\ label # << >> /\ Len(label) <= DNS_MAX_LABEL_LEN
    <3> HIDE DEF j
    <3>1. j \in DOMAIN labels
      BY <1>1, <2>1
    <3>2. labels[j] # << >>
      BY <3>1 DEF Dotless
    <3>3. labels[j] \in Seq(C) /\ Len(labels[j]) <= DNS_MAX_LABEL_LEN
      BY <3>1
    <3>4. QED
      BY <3>2, <3>3
  <2>3. Len(label) \in 1..DNS_MAX_LABEL_LEN /\ Len(label) \in Nat
    <3> HIDE DEF label
    <3>1. QED
      BY <2>2, NameLimits
  <2>4. e = at[j] /\ b = at[j - 1]
    BY <2>1, JoinedEnds
  <2>5. /\ at[j] = at[j - 1] + Len(label) + 1
        /\ \A i \in 1..Len(label) : name[at[j - 1] + i] = label[i]
    BY <2>1 DEF Joins
  <2>6. at[j - 1] \in Nat
    <3>1. j - 1 \in 0..n
      BY <1>1, <2>1
    <3>2. at \in [0..n -> Nat]
      BY DEF Joins
    <3>3. QED
      BY <3>1, <3>2
  <2>7. /\ Len(NthLabel(name, k)) = e - 1 - b
        /\ \A i \in 1..(e - 1 - b) : NthLabel(name, k)[i] = name[b + i]
        /\ 0 <= b /\ b < e /\ e <= Len(name) + 1 /\ b \in Int /\ e \in Int
    BY <1>2, NthLabelIs
  <2> HIDE DEF e, b, label, j
  <2>8. e - 1 - b = Len(label)
    BY <2>3, <2>4, <2>5, <2>6
  <2>9. NthLabel(name, k) \in Seq(C)
    <3>1. NthLabel(name, k) = SubSeq(name, b + 1, e - 1)
      <4>1. NthLabel(name, k) = SubSeq(name, 1 + b, e - 1)
        BY DEF NthLabel, e, b
      <4>2. 1 + b = b + 1
        BY <2>7
      <4>3. QED
        BY <4>1, <4>2
    <3>2. b \in 0..Len(name) /\ e - 1 \in b..Len(name)
      BY <2>7
    <3>3. QED
      BY <3>1, <3>2, PartIs
  <2>10. NthLabel(name, k) = label
    <3>1. \A i \in 1..Len(label) : NthLabel(name, k)[i] = label[i]
      BY <2>4, <2>5, <2>7, <2>8
    <3> DEFINE x == NthLabel(name, k)
    <3>2. x \in Seq(C) /\ Len(x) = Len(label) /\ \A i \in 1..Len(x) : x[i] = label[i]
      BY <2>7, <2>8, <2>9, <3>1
    <3> HIDE DEF x
    <3>3. x = label
      BY <2>2, <3>2, SeqEqual
    <3>4. QED
      BY <3>3 DEF x
  <2>11. QED
    BY <2>3, <2>10 DEF label, j
<1>4. parts = [k \in 1..n |-> labels[n + 1 - k]]
  BY <1>2, <1>3
<1>5. ~(\E k \in DOMAIN parts : Len(parts[k]) \notin 1..DNS_MAX_LABEL_LEN)
  BY <1>2, <1>3
<1>6. split_domain_labels(name) = parts
  <2>1. split_domain_labels(name) =
          IF \E k \in DOMAIN parts : Len(parts[k]) \notin 1..DNS_MAX_LABEL_LEN
          THEN Failed ELSE parts
    BY Zenon DEF split_domain_labels, LabelCount, NthLabel, NthEnd, Before, LabelEnds, Dots
  <2> HIDE DEF parts
  <2>2. QED
    BY <1>5, <2>1
<1>7. QED
  BY <1>4, <1>6

\* Every character of a joined name is one of a label or a dot behind one.
LEMMA JoinedParts ==
  ASSUME NEW C, NEW name \in Seq(C), NEW labels \in Seq(Seq(C)), NEW at,
         Joins(name, labels, at), NEW p \in 1..Len(name)
  PROVE  \E k \in 1..Len(labels) :
           \/ name[p] = "."
           \/ \E i \in 1..Len(labels[k]) : p = at[k - 1] + i /\ name[p] = labels[k][i]
<1> DEFINE n == Len(labels)
           T == {k \in 0..n : p <= at[k]}
<1>1. /\ n \in Nat /\ Len(name) \in Nat /\ at \in [0..n -> Nat] /\ at[0] = 0
      /\ at[n] = Len(name) + 1
  BY DEF Joins
<1>2. \A k \in 1..n :
        /\ at[k] = at[k - 1] + Len(labels[k]) + 1
        /\ \A i \in 1..Len(labels[k]) : name[at[k - 1] + i] = labels[k][i]
        /\ k < n => name[at[k]] = "."
        /\ Len(labels[k]) \in Nat
  BY DEF Joins
<1> HIDE DEF n
<1>3. T \subseteq Nat /\ n \in T
  BY <1>1
<1>4. PICK k \in T : \A j \in T : k <= j
  <2> HIDE DEF T
  <2>1. QED
    BY <1>3, LeastNumber
<1>5. k \in 1..n /\ p <= at[k] /\ k - 1 \in 0..n
  BY <1>1, <1>4
<1>6. at[k - 1] < p
  <2>1. k - 1 \notin T
    <3> HIDE DEF T
    <3>1. k \in Nat
      BY <1>1, <1>5
    <3>2. QED
      BY <1>4, <3>1
  <2>2. QED
    BY <1>1, <1>5, <2>1
<1> DEFINE a == at[k - 1]
           l == Len(labels[k])
<1>7. a \in Nat /\ l \in Nat /\ p \in Nat /\ at[k] = a + l + 1
  BY <1>1, <1>2, <1>5
<1>8. CASE p = at[k]
  <2>1. k # n
    BY <1>1, <1>8
  <2>2. name[p] = "."
    BY <1>1, <1>2, <1>5, <1>8, <2>1
  <2>3. QED
    BY <1>5, <2>2 DEF n
<1>9. CASE p # at[k]
  <2> DEFINE i == p - a
  <2>1. a < p /\ p < a + l + 1
    <3>1. p # a + l + 1 /\ p <= a + l + 1 /\ a < p
      BY <1>5, <1>6, <1>7, <1>9
    <3> HIDE DEF a, l
    <3>2. QED
      BY <1>7, <3>1
  <2>2. i \in 1..l /\ p = a + i
    <3> HIDE DEF a, l
    <3>1. QED
      BY <1>7, <2>1
  <2> HIDE DEF i
  <2>3. name[p] = labels[k][i]
    BY <1>2, <1>5, <2>2
  <2>4. QED
    BY <1>5, <2>2, <2>3 DEF n
<1>10. QED
  BY <1>8, <1>9

\* A text in lower case, and each text of a sequence of them.
Lowered(text) == [i \in 1..Len(text) |-> tolower(text[i])]
LoweredEach(texts) == [k \in 1..Len(texts) |-> Lowered(texts[k])]

\* A name without blanks is copied as it is, in lower case.
LEMMA NoBlanks ==
  ASSUME NEW C, NEW text \in Seq(C), \A i \in 1..Len(text) : ~isspace(text[i])
  PROVE  /\ Written(text) = Lowered(text)
         /\ Len(text) <= DNS_MAX_NAME_LEN => ~Overflows(text, DNS_MAX_NAME_LEN + 1)
<1> DEFINE n == Len(text)
           v == Visible(text)
<1>1. n \in Nat /\ DOMAIN text = 1..n
  OBVIOUS
<1>2. Solid(text) = 1..n
  BY <1>1 DEF Solid
<1>3. \A k \in 0..n : Cardinality(1..k) = k
  <2>1. \A k \in 0..n : 0 <= k /\ k \in Nat
    BY <1>1
  <2>2. \A k \in Nat : Cardinality(1..k) = k
    <3> TAKE k \in Nat
    <3>1. Cardinality(1..k) = IF 1 > k THEN 0 ELSE k - 1 + 1
      BY FS_Interval
    <3>2. QED
      BY <3>1
  <2>3. QED
    BY <2>1, <2>2
<1>4. ASSUME NEW i \in 1..n
      PROVE  Rank(1..n, i) = i
  <2>1. {j \in 1..n : j <= i} = 1..i
    BY <1>1
  <2>2. i \in 0..n
    BY <1>1
  <2>3. QED
    BY <1>3, <2>1, <2>2 DEF Rank
<1>5. v = text
  <2>1. n \in 0..n
    BY <1>1
  <2>2. /\ v \in Seq(C) /\ Len(v) = n
        /\ \A k \in 1..Len(v) : \E i \in Solid(text) : Rank(Solid(text), i) = k /\ v[k] = text[i]
    BY <1>2, <1>3, <2>1, VisibleOf
  <2> HIDE DEF v
  <2>3. \A k \in 1..Len(v) : v[k] = text[k]
    BY <1>2, <1>4, <2>2
  <2> HIDE DEF n
  <2>4. QED
    BY <2>2, <2>3, SeqEqual DEF n
<1>6. Written(text) = Lowered(text)
  BY <1>1, <1>5 DEF Written, Lowered
<1>7. ASSUME n <= DNS_MAX_NAME_LEN, Overflows(text, DNS_MAX_NAME_LEN + 1)
      PROVE  FALSE
  <2>1. PICK k \in 0..(n - 1) :
          Cardinality({i \in 1..k : ~isspace(text[i])}) >= (DNS_MAX_NAME_LEN + 1) - 1
    BY <1>7 DEF Overflows
  <2>2. {i \in 1..k : ~isspace(text[i])} = 1..k
    BY <1>1
  <2>3. k \in 0..n
    BY <1>1
  <2>4. Cardinality(1..k) = k
    BY <1>3, <2>3
  <2>5. k >= (DNS_MAX_NAME_LEN + 1) - 1
    BY <2>1, <2>2, <2>4
  <2>6. QED
    BY <1>1, <1>7, <2>5, NameLimits
<1>8. QED
  BY <1>6, <1>7

\* Lower case leaves dots alone.
LEMMA LowerDots == \A c : tolower(c) = "." <=> c = "."
  BY DEF tolower, LowerCase

\* The labels in lower case make the name in lower case.
LEMMA LowerJoins ==
  ASSUME NEW C, \A c \in C : tolower(c) \in C, NEW name \in Seq(C),
         NEW labels \in Seq(Seq(C)), NEW at, Joins(name, labels, at), Dotless(labels)
  PROVE  /\ Lowered(name) \in Seq(C) /\ Len(Lowered(name)) = Len(name)
         /\ LoweredEach(labels) \in Seq(Seq(C)) /\ Len(LoweredEach(labels)) = Len(labels)
         /\ \A k \in 1..Len(labels) : Len(LoweredEach(labels)[k]) = Len(labels[k])
         /\ Joins(Lowered(name), LoweredEach(labels), at) /\ Dotless(LoweredEach(labels))
<1> DEFINE lowered == LoweredEach(labels)
           n == Len(labels)
           low == Lowered(name)
<1>1. ASSUME NEW t \in Seq(C)
      PROVE  /\ Lowered(t) \in Seq(C) /\ Len(Lowered(t)) = Len(t)
             /\ \A i \in 1..Len(t) : Lowered(t)[i] = tolower(t[i])
  BY DEF Lowered
<1>2. n \in Nat /\ DOMAIN labels = 1..n /\ \A k \in 1..n : labels[k] \in Seq(C)
  OBVIOUS
<1>3. /\ lowered \in Seq(Seq(C)) /\ Len(lowered) = n /\ DOMAIN lowered = 1..n
      /\ \A k \in 1..n : lowered[k] = Lowered(labels[k])
  <2>1. \A k \in 1..n : Lowered(labels[k]) \in Seq(C)
    BY <1>1, <1>2
  <2>2. QED
    BY <1>2, <2>1 DEF LoweredEach
<1> HIDE DEF lowered
<1>4. \A k \in 1..n : Len(lowered[k]) = Len(labels[k])
  BY <1>1, <1>2, <1>3
<1>5. low \in Seq(C) /\ Len(low) = Len(name) /\ \A i \in 1..Len(name) : low[i] = tolower(name[i])
  BY <1>1
<1> HIDE DEF low
<1>6. /\ at \in [0..n -> Nat] /\ at[0] = 0 /\ at[n] = Len(name) + 1 /\ Len(name) \in Nat
      /\ \A i, j \in 0..n : i < j => at[i] < at[j]
  <2>1. at[0] = 0 /\ at[n] = Len(name) + 1
    BY DEF Joins
  <2>2. QED
    BY <2>1, JoinedDots
<1>7. \A k \in 1..n :
        /\ at[k] = at[k - 1] + Len(labels[k]) + 1
        /\ \A i \in 1..Len(labels[k]) : name[at[k - 1] + i] = labels[k][i]
        /\ k < n => name[at[k]] = "."
        /\ Len(labels[k]) \in Nat
  BY DEF Joins
<1>8. ASSUME NEW k \in 1..n
      PROVE  /\ at[k] = at[k - 1] + Len(lowered[k]) + 1
             /\ \A i \in 1..Len(lowered[k]) : low[at[k - 1] + i] = lowered[k][i]
             /\ k < n => low[at[k]] = "."
  <2> HIDE DEF n
  <2>1. /\ k - 1 \in 0..n /\ k \in 0..n /\ n \in 0..n /\ 0 \in 0..n
        /\ at[k - 1] \in Nat /\ at[k] \in Nat
    BY <1>2, <1>6
  <2>2. at[k] <= Len(name) + 1
    <3>1. k = n \/ at[k] < at[n]
      BY <1>2, <1>6, <2>1
    <3>2. QED
      BY <1>6, <2>1, <3>1
  <2>3. ASSUME NEW i \in 1..Len(lowered[k])
        PROVE  low[at[k - 1] + i] = lowered[k][i]
    <3> DEFINE a == at[k - 1]
               l == Len(labels[k])
               p == a + i
    <3>1. a \in Nat /\ l \in Nat /\ i \in 1..l /\ a + l + 1 <= Len(name) + 1
      BY <1>4, <1>7, <2>1, <2>2
    <3>2. p \in 1..Len(name)
      <4> HIDE DEF a, l
      <4>1. QED
        BY <1>6, <3>1
    <3>3. name[p] = labels[k][i]
      BY <1>7, <3>1
    <3>4. low[p] = tolower(labels[k][i])
      <4> HIDE DEF p
      <4>1. QED
        BY <1>5, <3>2, <3>3
    <3>5. lowered[k][i] = tolower(labels[k][i])
      BY <1>1, <1>2, <1>3, <3>1
    <3>6. QED
      BY <3>4, <3>5
  <2>4. ASSUME k < n
        PROVE  low[at[k]] = "."
    <3>1. at[k] < at[n] /\ at[0] < at[k]
      BY <1>2, <1>6, <2>1, <2>4
    <3>2. at[k] \in 1..Len(name)
      BY <1>6, <2>1, <3>1
    <3>3. name[at[k]] = "."
      BY <1>7, <2>4
    <3>4. low[at[k]] = tolower(".")
      BY <1>5, <3>2, <3>3
    <3>5. QED
      BY <3>4, LowerDots
  <2>5. QED
    BY <1>4, <1>7, <2>3, <2>4
<1>9. Joins(low, lowered, at)
  BY <1>3, <1>5, <1>6, <1>8 DEF Joins
<1>10. ASSUME NEW k \in 1..n
       PROVE  lowered[k] # << >> /\ \A i \in DOMAIN lowered[k] : lowered[k][i] # "."
  <2>1. labels[k] # << >> /\ \A i \in DOMAIN labels[k] : labels[k][i] # "."
    BY <1>2 DEF Dotless
  <2> DEFINE t == labels[k]
  <2>2. t \in Seq(C) /\ t # << >> /\ \A i \in DOMAIN t : t[i] # "."
    BY <1>2, <2>1
  <2>3. lowered[k] = Lowered(t)
    BY <1>3
  <2> HIDE DEF t
  <2>4. Lowered(t) # << >> /\ DOMAIN Lowered(t) = 1..Len(t) /\ DOMAIN t = 1..Len(t)
    BY <1>1, <2>2
  <2>5. \A i \in 1..Len(t) : Lowered(t)[i] # "."
    BY <1>1, <2>2, <2>4, LowerDots
  <2>6. QED
    BY <2>3, <2>4, <2>5
<1>11. Dotless(lowered)
  BY <1>3, <1>10 DEF Dotless
<1>12. QED
  BY <1>3, <1>4, <1>5, <1>9, <1>11 DEF lowered, low

\* Nothing of a joined name is cut, and it is no invalid name.
LEMMA JoinedKept ==
  ASSUME NEW C, NEW name \in Seq(C), NEW labels \in Seq(Seq(C)), NEW at,
         Joins(name, labels, at), Dotless(labels), Len(labels) # 0
  PROVE  WithoutTrailingDots(name) = name /\ name # Failed
<1> DEFINE n == Len(labels)
           len == Len(name)
           solid == {i \in DOMAIN name : name[i] # "."}
           end == CHOOSE i \in solid : \A j \in solid : j <= i
<1>1. /\ n \in Nat /\ n >= 1 /\ len \in Nat /\ DOMAIN name = 1..len /\ DOMAIN labels = 1..n
      /\ at \in [0..n -> Nat] /\ at[0] = 0 /\ at[n] = len + 1
      /\ \A i, j \in 0..n : i < j => at[i] < at[j]
      /\ \A p : p \in Dots(name) <=> \E k \in 1..(n - 1) : p = at[k]
  <2>1. at[0] = 0 /\ at[n] = len + 1
    BY DEF Joins
  <2>2. QED
    BY <2>1, JoinedDots
<1>2. \A k \in 1..n : at[k] = at[k - 1] + Len(labels[k]) + 1
                      /\ \A i \in 1..Len(labels[k]) : name[at[k - 1] + i] = labels[k][i]
  BY DEF Joins
<1>3. \A k \in 1..n : /\ Len(labels[k]) \in Nat /\ Len(labels[k]) >= 1
                      /\ DOMAIN labels[k] = 1..Len(labels[k])
                      /\ \A i \in 1..Len(labels[k]) : labels[k][i] # "."
  <2> TAKE k \in 1..n
  <2> DEFINE t == labels[k]
  <2>1. t \in Seq(C)
    BY <1>1
  <2>2. t # << >> /\ \A i \in DOMAIN t : t[i] # "."
    BY <1>1 DEF Dotless
  <2> HIDE DEF t
  <2>3. Len(t) \in Nat /\ Len(t) >= 1 /\ DOMAIN t = 1..Len(t)
    BY <2>1, <2>2
  <2>4. QED
    BY <2>2, <2>3 DEF t
<1> HIDE DEF n, len
\* A label begins and ends with no dot.
<1>4. ASSUME NEW k \in 1..n
      PROVE  name[at[k - 1] + 1] # "." /\ name[at[k] - 1] # "."
  <2> DEFINE l == Len(labels[k])
             a == at[k - 1]
  <2>1. l \in Nat /\ l >= 1 /\ a \in Nat /\ at[k] = a + l + 1
    <3>1. k - 1 \in 0..n
      BY <1>1
    <3>2. QED
      BY <1>1, <1>2, <1>3, <3>1
  <2>2. name[a + 1] = labels[k][1] /\ name[a + l] = labels[k][l] /\ labels[k][1] # "."
        /\ labels[k][l] # "."
    <3>1. 1 \in 1..l /\ l \in 1..l
      <4> HIDE DEF l
      <4>1. QED
        BY <2>1
    <3>2. QED
      BY <1>2, <1>3, <3>1
  <2>3. at[k] - 1 = a + l
    <3> HIDE DEF a, l
    <3>1. QED
      BY <2>1
  <2>4. QED
    BY <2>2, <2>3
<1>5. len >= 1 /\ name[len] # "." /\ name[1] # "."
  <2>1. n \in 1..n /\ 1 \in 1..n /\ 1 - 1 = 0 /\ 0 + 1 = 1 /\ (len + 1) - 1 = len
    BY <1>1
  <2>2. name[at[n] - 1] # "." /\ name[at[0] + 1] # "."
    BY <1>4, <2>1
  <2>3. len # 0
    <3>1. 0 \in 0..n /\ n \in 0..n /\ 0 < n /\ 1 \in 0..n
      BY <1>1
    <3>2. at[1] = at[1 - 1] + Len(labels[1]) + 1 /\ Len(labels[1]) \in Nat /\ Len(labels[1]) >= 1
      BY <1>2, <1>3, <2>1
    <3>3. at[1] >= 2
      BY <1>1, <2>1, <3>2
    <3>4. at[1] <= at[n]
      <4>1. 1 = n \/ 1 < n
        BY <1>1
      <4>2. at[1] \in Nat /\ at[n] \in Nat
        BY <1>1, <3>1
      <4>3. CASE 1 = n
        BY <4>2, <4>3
      <4>4. CASE 1 < n
        BY <1>1, <3>1, <4>2, <4>4
      <4>5. QED
        BY <4>1, <4>3, <4>4
    <3>5. QED
      BY <1>1, <3>3, <3>4
  <2>4. QED
    BY <1>1, <2>1, <2>2, <2>3
<1>6. ASSUME NEW j \in 1..(len - 1), name[j] = "."
      PROVE  name[j + 1] # "."
  <2>1. j \in Dots(name)
    BY <1>1, <1>6 DEF Dots
  <2>2. PICK k \in 1..(n - 1) : j = at[k]
    BY <1>1, <2>1
  <2>3. k + 1 \in 1..n /\ (k + 1) - 1 = k
    BY <1>1
  <2>4. name[at[(k + 1) - 1] + 1] # "."
    BY <1>4, <2>3
  <2>5. QED
    BY <2>2, <2>3, <2>4
<1>7. end = len
  <2>1. len \in solid /\ \A j \in solid : j <= len
    BY <1>1, <1>5
  <2>2. solid \subseteq 1..len
    BY <1>1
  <2> HIDE DEF solid
  <2>3. end \in solid /\ \A j \in solid : j <= end
    BY <2>1
  <2> HIDE DEF end
  <2>4. end <= len /\ len <= end /\ end \in Int
    BY <2>1, <2>2, <2>3
  <2>5. QED
    BY <1>1, <2>4
<1>8. SubSeq(name, 1, len) = name
  <2> DEFINE s == SubSeq(name, 1, len)
  <2>1. s \in Seq(C) /\ Len(s) = len /\ \A i \in 1..len : s[i] = name[i]
    BY <1>1 DEF len
  <2> HIDE DEF s
  <2>2. QED
    BY <2>1, SeqEqual DEF len, s
<1>9. solid # {}
  <2>1. len \in solid
    BY <1>1, <1>5
  <2>2. QED
    BY <2>1
<1>10. WithoutTrailingDots(name) =
         IF solid = {} \/ (\/ SubSeq(name, 1, end)[1] = "."
                           \/ \E j \in 1..(end - 1) : /\ SubSeq(name, 1, end)[j] = "."
                                                      /\ SubSeq(name, 1, end)[j + 1] = ".")
         THEN Failed ELSE SubSeq(name, 1, end)
  BY Zenon DEF WithoutTrailingDots
<1> HIDE DEF solid, end
<1>11. WithoutTrailingDots(name) = name
  BY <1>5, <1>6, <1>7, <1>8, <1>9, <1>10
<1>12. name # Failed
  BY <1>5 DEF Failed, len
<1>13. QED
  BY <1>11, <1>12

\* No label is too long, and no blank is in one.
InPlainText(labels) ==
  \A k \in DOMAIN labels : /\ Len(labels[k]) <= DNS_MAX_LABEL_LEN
                           /\ \A i \in DOMAIN labels[k] : ~isspace(labels[k][i])

\* What is_domain_blocked and filter_add_domain read in a text that is nothing
\* but labels with a dot between two of them: no blank in it, no dot in a
\* label, no label empty or too long and the whole no longer than a name can
\* be.  They read these labels, from the last to the first and in lower case.
THEOREM JoinedNames ==
  ASSUME NEW C, \A c \in C : tolower(c) \in C, NEW text \in Seq(C),
         NEW labels \in Seq(Seq(C)), NEW at, Joins(text, labels, at),
         Dotless(labels), labels # << >>, InPlainText(labels), Len(text) <= DNS_MAX_NAME_LEN
  PROVE  LabelsOfText(text) = [k \in 1..Len(labels) |-> Lowered(labels[Len(labels) + 1 - k])]
<1> DEFINE n == Len(labels)
           lowered == LoweredEach(labels)
           low == Lowered(text)
<1>1. n \in Nat /\ n # 0 /\ DOMAIN labels = 1..n
  OBVIOUS
<1>2. \A i \in 1..Len(text) : ~isspace(text[i])
  <2> TAKE p \in 1..Len(text)
  <2>1. PICK k \in 1..n :
          \/ text[p] = "."
          \/ \E i \in 1..Len(labels[k]) : p = at[k - 1] + i /\ text[p] = labels[k][i]
    BY JoinedParts
  <2>2. CASE text[p] = "."
    BY <2>2 DEF isspace
  <2>3. CASE \E i \in 1..Len(labels[k]) : text[p] = labels[k][i]
    <3>1. DOMAIN labels[k] = 1..Len(labels[k])
      OBVIOUS
    <3>2. QED
      BY <1>1, <2>3, <3>1 DEF InPlainText
  <2>4. QED
    BY <2>1, <2>2, <2>3
<1>3. Written(text) = low /\ ~Overflows(text, DNS_MAX_NAME_LEN + 1)
  BY <1>2, NoBlanks
<1>4. /\ low \in Seq(C) /\ lowered \in Seq(Seq(C)) /\ Len(lowered) = n
      /\ \A k \in 1..n : Len(lowered[k]) = Len(labels[k])
      /\ Joins(low, lowered, at) /\ Dotless(lowered)
  <2>1. \A c \in C : tolower(c) \in C
    OBVIOUS
  <2>2. /\ Lowered(text) \in Seq(C) /\ Len(Lowered(text)) = Len(text)
        /\ LoweredEach(labels) \in Seq(Seq(C)) /\ Len(LoweredEach(labels)) = Len(labels)
        /\ \A k \in 1..Len(labels) : Len(LoweredEach(labels)[k]) = Len(labels[k])
        /\ Joins(Lowered(text), LoweredEach(labels), at) /\ Dotless(LoweredEach(labels))
    BY <2>1, LowerJoins, Zenon
  <2>3. QED
    BY <2>2
<1>5. \A k \in 1..n : lowered[k] = Lowered(labels[k])
  BY DEF LoweredEach
<1> HIDE DEF n, lowered, low
<1>6. WithoutTrailingDots(low) = low /\ low # Failed
  BY <1>1, <1>4, JoinedKept
<1>7. normalize_domain(text, DNS_MAX_NAME_LEN + 1) = low
  BY <1>3, <1>6 DEF normalize_domain
<1>8. LabelsOfText(text) = split_domain_labels(low)
  BY <1>6, <1>7 DEF LabelsOfText
<1>9. \A k \in DOMAIN lowered : Len(lowered[k]) <= DNS_MAX_LABEL_LEN
  BY <1>1, <1>4 DEF InPlainText
<1>10. split_domain_labels(low) = [k \in 1..n |-> lowered[n + 1 - k]]
  <2>1. split_domain_labels(low)
          = [k \in 1..Len(lowered) |-> lowered[Len(lowered) + 1 - k]]
    BY <1>1, <1>4, <1>9, JoinedSplit
  <2>2. QED
    BY <1>4, <2>1
<1>11. \A k \in 1..n : lowered[n + 1 - k] = Lowered(labels[n + 1 - k])
  <2> TAKE k \in 1..n
  <2>1. n + 1 - k \in 1..n
    BY <1>1
  <2>2. QED
    BY <1>5, <2>1
<1>12. [k \in 1..n |-> lowered[n + 1 - k]] = [k \in 1..n |-> Lowered(labels[n + 1 - k])]
  BY <1>11, Zenon
<1>13. QED
  BY <1>8, <1>10, <1>12 DEF n

\* A text without a character has no labels.
LEMMA NoText == LabelsOfText(<< >>) = Failed
<1> DEFINE text == << >>
<1>1. Visible(text) = << >>
  <2>1. << >> \in Seq({})
    OBVIOUS
  <2>2. Visible(<< >>) \in Seq({})
    BY <2>1, VisibleOf
  <2>3. \A s \in Seq({}) : s = << >>
    OBVIOUS
  <2>4. QED
    BY <2>2, <2>3
<1>2. Written(text) = << >>
  <2>1. Written(text) = [i \in DOMAIN Visible(text) |-> tolower(Visible(text)[i])]
    BY DEF Written
  <2>2. QED
    BY <1>1, <2>1
<1>3. WithoutTrailingDots(<< >>) = Failed
  <2>1. {i \in DOMAIN << >> : << >>[i] # "."} = {}
    OBVIOUS
  <2>2. QED
    BY <2>1 DEF WithoutTrailingDots
<1>4. QED
  BY <1>2, <1>3 DEF LabelsOfText, normalize_domain
=============================================================================
