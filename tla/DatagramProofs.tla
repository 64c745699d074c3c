--------------------------- MODULE DatagramProofs ---------------------------
(***************************************************************************)
(* The parser's safety carries over to its three callers: whatever         *)
(* recvfrom cuts off, whichever caller runs and whatever it decides, no    *)
(* call of parse_dns_message leaves its buffers or loses what it owns.     *)
(* The callers bring what the parser's own theorems assume: a call only    *)
(* when no message is alive, bytes, and free_dns_message after every       *)
(* return.                                                                 *)
(* Then what the bytes mean: the parser accepts what is well formed and    *)
(* hands out its names, an error reply carries the question, the name      *)
(* encode_dns_name wrote is read back, and what the server decides follows *)
(* from the bytes the client sent: the filter, asked for the name the      *)
(* parser handed out, looks for the labels on the wire.                    *)
(***************************************************************************)
EXTENDS Wire, ParserProofs

NP == INSTANCE DomainNameProofs

-----------------------------------------------------------------------------
(* Recursive definitions over the places of a datagram or a text. *)

\* The least number principle of DomainNameProofs, whose limits are these.
LEMMA LeastNumber ==
  ASSUME NEW T, T \subseteq Nat, T # {}
  PROVE  \E m \in T : \A n \in T : m <= n
<1>1. DNS_MAX_NAME_LEN \in Nat \ {0} /\ DNS_MAX_LABEL_LEN \in Nat \ {0}
  BY ParserLimits
<1>2. QED
  BY <1>1, NP!LeastNumber

\* Induction over the numbers, with a set in place of a formula.
LEMMA SetInduction ==
  ASSUME NEW S, 0 \in S, \A k \in Nat : k \in S => k + 1 \in S
  PROVE  \A k \in Nat : k \in S
<1> DEFINE T == Nat \ S
<1> SUFFICES ASSUME T # {}
             PROVE  FALSE
  OBVIOUS
<1>1. T \subseteq Nat
  OBVIOUS
<1> HIDE DEF T
<1>2. PICK m \in T : \A n \in T : m <= n
  BY <1>1, LeastNumber
<1>3. m \in Nat /\ m \notin S
  BY <1>2 DEF T
<1>4. m - 1 \in Nat /\ (m - 1) + 1 = m /\ ~(m <= m - 1)
  BY <1>3
<1>5. m - 1 \in S
  BY <1>2, <1>4 DEF T
<1>6. QED
  BY <1>3, <1>4, <1>5

\* Induction over the places of a datagram, from its end.
LEMMA UpwardInduction ==
  ASSUME NEW S, NEW L \in Nat, \A i \in Nat : i >= L => i \in S,
         \A i \in Nat : (\A j \in Nat : i < j => j \in S) => i \in S
  PROVE  \A i \in Nat : i \in S
<1> DEFINE P == {k \in Nat : \A i \in Nat : i + k >= L => i \in S}
<1>1. 0 \in P
  OBVIOUS
<1>2. ASSUME NEW k \in Nat, k \in P
      PROVE  k + 1 \in P
  <2> SUFFICES ASSUME NEW i \in Nat, i + (k + 1) >= L
               PROVE  i \in S
    OBVIOUS
  <2>1. \A j \in Nat : j + k >= L => j \in S
    BY <1>2
  <2>2. \A j \in Nat : i < j => j + k >= L
    OBVIOUS
  <2>3. QED
    BY <2>1, <2>2
<1> HIDE DEF P
<1>3. L \in P
  BY <1>1, <1>2, SetInduction
<1>4. \A i \in Nat : i + L >= L
  OBVIOUS
<1>5. QED
  BY <1>3, <1>4 DEF P

SolvesSteps(f, n, c, g) == f[0] = c /\ \A k \in 1..n : f[k] = g[k][f[k - 1]]

\* A sequence of values, each made from the one before, exists.
LEMMA StepRecursion ==
  ASSUME NEW V, NEW n \in Nat, NEW c \in V, NEW g \in [1..n -> [V -> V]]
  PROVE  \E f \in [0..n -> V] : SolvesSteps(f, n, c, g)
<1> DEFINE Solves(f, k) == f[0] = c /\ \A j \in 1..n : j <= k => f[j] = g[j][f[j - 1]]
           P == {k \in Nat : \E f \in [0..n -> V] : Solves(f, k)}
<1>1. 0 \in P
  <2> DEFINE f == [j \in 0..n |-> c]
  <2>1. f \in [0..n -> V] /\ Solves(f, 0)
    OBVIOUS
  <2>2. QED
    BY <2>1
<1>2. ASSUME NEW k \in Nat, k \in P
      PROVE  k + 1 \in P
  <2>1. PICK h \in [0..n -> V] : Solves(h, k)
    BY <1>2
  <2> DEFINE f == [j \in 0..n |-> IF j <= k THEN h[j] ELSE g[k + 1][h[k]]]
  <2>2. CASE n <= k
    <3>1. Solves(h, k + 1)
      BY <2>1, <2>2
    <3>2. QED
      BY <3>1
  <2>3. CASE k < n
    <3>1. k \in 0..n /\ k + 1 \in 1..n /\ 0 \in 0..n /\ 0 <= k
      BY <2>3
    <3>2. f \in [0..n -> V]
      BY <3>1
    <3>3. ASSUME NEW j \in 1..n, j <= k + 1
          PROVE  f[j] = g[j][f[j - 1]]
      <4>1. j \in 0..n /\ j - 1 \in 0..n /\ j - 1 <= k
        BY <3>3
      <4>2. f[j - 1] = h[j - 1]
        BY <4>1
      <4>3. CASE j <= k
        BY <2>1, <4>1, <4>2, <4>3
      <4>4. CASE j = k + 1
        <5>1. ~(j <= k) /\ j - 1 = k
          BY <4>4
        <5>2. f[j] = g[k + 1][h[k]]
          BY <4>1, <5>1
        <5>3. QED
          BY <4>2, <4>4, <5>1, <5>2
      <4>5. QED
        BY <3>3, <4>3, <4>4
    <3>4. f[0] = c
      BY <2>1, <3>1
    <3>5. Solves(f, k + 1)
      BY <3>3, <3>4
    <3> HIDE DEF f, Solves
    <3>6. QED
      BY <3>2, <3>5
  <2>4. QED
    BY <2>2, <2>3
<1>3. n \in P
  <2> HIDE DEF P
  <2>1. QED
    BY <1>1, <1>2, SetInduction
<1>4. PICK f \in [0..n -> V] : Solves(f, n)
  BY <1>3
<1>5. \A j \in 1..n : j <= n
  OBVIOUS
<1>6. QED
  BY <1>4, <1>5 DEF SolvesSteps

\* The value at a place that is no stop is made from the one at a later place;
\* from place L on there are only stops.
Upwards(V, L, stop, c, next, g) ==
  /\ L \in Nat /\ stop \in SUBSET Nat /\ c \in [Nat -> V]
  /\ next \in [Nat -> Nat] /\ g \in [Nat -> [V -> V]]
  /\ \A i \in Nat : i \notin stop => i < L /\ i < next[i]

SolvesUpwards(f, stop, c, next, g) ==
  \A i \in Nat : /\ i \in stop => f[i] = c[i]
                 /\ i \notin stop => f[i] = g[i][f[next[i]]]

\* Functions defined upwards exist.
LEMMA UpwardRecursion ==
  ASSUME NEW V, NEW L, NEW stop, NEW c, NEW next, NEW g, Upwards(V, L, stop, c, next, g)
  PROVE  \E f \in [Nat -> V] : SolvesUpwards(f, stop, c, next, g)
<1> USE DEF Upwards
<1> DEFINE Solves(f, k) ==
             \A i \in Nat : i + k >= L => f[i] = IF i \in stop THEN c[i] ELSE g[i][f[next[i]]]
           Bad0 == {k \in Nat : ~ \E f \in [Nat -> V] : Solves(f, k)}
<1>1. Bad0 = {}
  <2> SUFFICES ASSUME Bad0 # {}
               PROVE  FALSE
    OBVIOUS
  <2>0. Bad0 \subseteq Nat
    OBVIOUS
  <2> HIDE DEF Bad0
  <2>1. PICK k \in Bad0 : \A j \in Bad0 : k <= j
    BY <2>0, LeastNumber
  <2>2. k # 0
    <3>1. Solves(c, 0)
      OBVIOUS
    <3>2. QED
      BY <2>1, <3>1 DEF Bad0
  <2>3. k - 1 \in Nat /\ k - 1 \notin Bad0
    <3>1. k \in Nat /\ k - 1 \in Nat /\ ~(k <= k - 1)
      BY <2>0, <2>2
    <3>2. QED
      BY <2>1, <3>1
  <2>4. PICK h \in [Nat -> V] : Solves(h, k - 1)
    BY <2>3 DEF Bad0
  <2> DEFINE f == [i \in Nat |-> IF i \in stop THEN c[i] ELSE g[i][h[next[i]]]]
  <2>5. f \in [Nat -> V]
    OBVIOUS
  <2>6. ASSUME NEW i \in Nat, i + k >= L
        PROVE  f[i] = IF i \in stop THEN c[i] ELSE g[i][f[next[i]]]
    <3>1. CASE i \in stop
      BY <3>1
    <3>2. CASE i \notin stop
      <4> DEFINE n == next[i]
      <4>1. n \in Nat /\ n + (k - 1) >= L
        <5>1. k \in Nat /\ n \in Nat /\ i < n
          BY <2>0, <3>2
        <5> HIDE DEF n
        <5>2. QED
          BY <2>6, <5>1
      <4>2. h[n] = IF n \in stop THEN c[n] ELSE g[n][h[next[n]]]
        BY <2>4, <4>1
      <4>3. f[n] = h[n]
        BY <4>1, <4>2
      <4>4. f[i] = g[i][h[n]]
        BY <3>2
      <4>5. QED
        BY <3>2, <4>3, <4>4
    <3>3. QED
      BY <3>1, <3>2
  <2>7. QED
    <3>1. Solves(f, k)
      BY <2>6
    <3>2. QED
      BY <2>1, <2>5, <3>1 DEF Bad0
<1>2. PICK f \in [Nat -> V] : Solves(f, L)
  BY <1>1
<1>3. \A i \in Nat : i + L >= L
  OBVIOUS
<1>4. QED
  BY <1>2, <1>3 DEF SolvesUpwards

-----------------------------------------------------------------------------
(* The texts encode_dns_name is given, and what it makes of them. *)

CText == Seq(Octet \ {0})

\* Where the label at i ends: at the next dot, or behind the text.
EndsLabel(d, i, e) ==
  /\ e \in i..(Len(d) + 1)
  /\ e <= Len(d) => d[e] = Dot
  /\ \A j \in i..(e - 1) : d[j] # Dot

\* A label ends somewhere.
LEMMA LabelEnds ==
  ASSUME NEW d \in CText, NEW i \in 1..(Len(d) + 1)
  PROVE  EndsLabel(d, i, DotOrEnd(d, i))
<1> DEFINE T == {e \in i..(Len(d) + 1) : e <= Len(d) => d[e] = Dot}
<1>1. Len(d) \in Nat /\ i \in Nat
  BY DEF CText
<1>2. T \subseteq Nat
  BY <1>1
<1>3. Len(d) + 1 \in T
  BY <1>1
<1>4. PICK m \in T : \A e \in T : m <= e
  <2> HIDE DEF T
  <2>1. QED
    BY <1>2, <1>3, LeastNumber
<1>5. ASSUME NEW j \in i..(m - 1)
      PROVE  d[j] # Dot
  <2>1. j \in i..(Len(d) + 1) /\ ~(m <= j)
    BY <1>1, <1>2, <1>4
  <2>2. QED
    BY <1>4, <2>1
<1>6. EndsLabel(d, i, m)
  BY <1>4, <1>5 DEF EndsLabel
<1>7. m \in i..(Len(d) + 1) /\ (m <= Len(d) => d[m] = Dot) /\ \A j \in i..(m - 1) : d[j] # Dot
  BY <1>6 DEF EndsLabel
<1>8. QED
  BY <1>7 DEF DotOrEnd, EndsLabel

\* And nowhere else.
LEMMA LabelEndsOnce ==
  ASSUME NEW d \in CText, NEW i \in 1..(Len(d) + 1), NEW a, NEW b,
         EndsLabel(d, i, a), EndsLabel(d, i, b)
  PROVE  a = b
<1>1. Len(d) \in Nat /\ i \in Nat /\ a \in i..(Len(d) + 1) /\ b \in i..(Len(d) + 1)
  BY DEF CText, EndsLabel
<1>2. ~(a < b)
  <2> SUFFICES ASSUME a < b
               PROVE  FALSE
    OBVIOUS
  <2>1. a \in i..(b - 1) /\ a <= Len(d)
    BY <1>1
  <2>2. QED
    BY <2>1 DEF EndsLabel
<1>3. ~(b < a)
  <2> SUFFICES ASSUME b < a
               PROVE  FALSE
    OBVIOUS
  <2>1. b \in i..(a - 1) /\ b <= Len(d)
    BY <1>1
  <2>2. QED
    BY <2>1 DEF EndsLabel
<1>4. QED
  BY <1>1, <1>2, <1>3

\* The places of a label have the same end.
LEMMA LabelEndsAhead ==
  ASSUME NEW d \in CText, NEW i \in 1..Len(d), d[i] # Dot
  PROVE  /\ DotOrEnd(d, i) \in (i + 1)..(Len(d) + 1)
         /\ i < Len(d) /\ d[i + 1] # Dot => DotOrEnd(d, i) = DotOrEnd(d, i + 1)
         /\ i = Len(d) \/ d[i + 1] = Dot => DotOrEnd(d, i) = i + 1
<1>1. Len(d) \in Nat /\ i \in Nat /\ i \in 1..(Len(d) + 1) /\ i + 1 \in 1..(Len(d) + 1)
  BY DEF CText
<1> DEFINE e == DotOrEnd(d, i)
           f == DotOrEnd(d, i + 1)
<1>2. EndsLabel(d, i, e) /\ EndsLabel(d, i + 1, f)
  BY <1>1, LabelEnds
<1> HIDE DEF e, f
<1>3. e \in (i + 1)..(Len(d) + 1)
  BY <1>1, <1>2 DEF EndsLabel
<1>4. f \in (i + 1)..(Len(d) + 1) /\ \A j \in i..(f - 1) : d[j] # Dot
  BY <1>1, <1>2 DEF EndsLabel
<1>5. EndsLabel(d, i, f)
  BY <1>1, <1>2, <1>4 DEF EndsLabel
<1>6. e = f
  BY <1>1, <1>2, <1>5, LabelEndsOnce
<1>7. ASSUME i = Len(d) \/ d[i + 1] = Dot
      PROVE  e = i + 1
  <2>1. EndsLabel(d, i + 1, i + 1)
    BY <1>1, <1>7 DEF EndsLabel
  <2>2. QED
    BY <1>1, <1>2, <1>6, <2>1, LabelEndsOnce
<1>8. QED
  BY <1>3, <1>6, <1>7 DEF e, f

\* A value at each place of a text: at a dot that of the next place, at a label
\* made from the one at its end.
FollowsLabels(d, f, c, g) ==
  /\ f[Len(d) + 1] = c
  /\ \A i \in 1..Len(d) : /\ d[i] = Dot => f[i] = f[i + 1]
                          /\ d[i] # Dot => f[i] = g[i][f[DotOrEnd(d, i)]]

\* Such values exist.
LEMMA LabelRecursion ==
  ASSUME NEW V, NEW d \in CText, NEW c \in V, NEW g \in [1..Len(d) -> [V -> V]]
  PROVE  \E f \in [1..(Len(d) + 1) -> V] : FollowsLabels(d, f, c, g)
<1> DEFINE L == Len(d) + 1
           stop == Nat \ (1..Len(d))
           all == [i \in Nat |-> c]
           next == [i \in Nat |-> IF i \in 1..Len(d) /\ d[i] # Dot THEN DotOrEnd(d, i) ELSE i + 1]
           same == [v \in V |-> v]
           turn == [i \in Nat |-> IF i \in 1..Len(d) /\ d[i] # Dot THEN g[i] ELSE same]
<1>1. Len(d) \in Nat /\ L \in Nat
  BY DEF CText
<1>2. \A i \in 1..Len(d) : d[i] # Dot => DotOrEnd(d, i) \in (i + 1)..(Len(d) + 1)
  BY LabelEndsAhead
<1>3. \A i \in Nat : next[i] \in Nat /\ i < next[i]
  <2> SUFFICES ASSUME NEW i \in Nat
               PROVE  next[i] \in Nat /\ i < next[i]
    OBVIOUS
  <2>1. CASE i \in 1..Len(d) /\ d[i] # Dot
    <3>1. next[i] = DotOrEnd(d, i)
      BY <2>1
    <3>2. QED
      BY <1>1, <1>2, <2>1, <3>1
  <2>2. CASE ~(i \in 1..Len(d) /\ d[i] # Dot)
    BY <2>2
  <2>3. QED
    BY <2>1, <2>2
<1>4. next \in [Nat -> Nat]
  BY <1>3
<1>5. turn \in [Nat -> [V -> V]] /\ all \in [Nat -> V]
  OBVIOUS
<1>6. \A i \in Nat : i \notin stop => i < L
  BY <1>1
<1>7. Upwards(V, L, stop, all, next, turn)
  <2>1. stop \in SUBSET Nat
    OBVIOUS
  <2> HIDE DEF L, stop, all, next, turn
  <2>2. QED
    BY <1>1, <1>3, <1>4, <1>5, <1>6, <2>1 DEF Upwards
<1>8. PICK h \in [Nat -> V] : SolvesUpwards(h, stop, all, next, turn)
  <2> HIDE DEF L, stop, all, next, turn
  <2>1. QED
    BY <1>7, UpwardRecursion
<1> DEFINE f == [i \in 1..(Len(d) + 1) |-> h[i]]
<1>9. f \in [1..(Len(d) + 1) -> V]
  BY <1>1
<1>10. f[Len(d) + 1] = c
  <2>1. Len(d) + 1 \in stop /\ Len(d) + 1 \in Nat /\ Len(d) + 1 \in 1..(Len(d) + 1)
    BY <1>1
  <2>2. h[Len(d) + 1] = all[Len(d) + 1]
    BY <1>8, <2>1 DEF SolvesUpwards
  <2>3. QED
    BY <2>1, <2>2
<1>11. ASSUME NEW i \in 1..Len(d)
       PROVE  /\ d[i] = Dot => f[i] = f[i + 1]
              /\ d[i] # Dot => f[i] = g[i][f[DotOrEnd(d, i)]]
  <2>1. i \in Nat /\ i \notin stop /\ i \in 1..(Len(d) + 1) /\ i + 1 \in 1..(Len(d) + 1)
    BY <1>1
  <2>2. h[i] = turn[i][h[next[i]]] /\ f[i] = h[i] /\ f[i + 1] = h[i + 1]
    BY <1>8, <2>1 DEF SolvesUpwards
  <2>3. CASE d[i] = Dot
    <3>1. turn[i] = same /\ next[i] = i + 1 /\ h[i + 1] \in V
      BY <2>1, <2>3
    <3>2. QED
      BY <2>2, <2>3, <3>1
  <2>4. CASE d[i] # Dot
    <3>1. turn[i] = g[i] /\ next[i] = DotOrEnd(d, i) /\ DotOrEnd(d, i) \in 1..(Len(d) + 1)
      BY <1>1, <1>2, <2>1, <2>4
    <3>2. f[DotOrEnd(d, i)] = h[DotOrEnd(d, i)]
      BY <3>1
    <3> HIDE DEF turn, next, f
    <3>3. QED
      BY <2>2, <2>4, <3>1, <3>2
  <2>5. QED
    BY <2>3, <2>4
<1>12. FollowsLabels(d, f, c, g)
  <2> HIDE DEF f
  <2>1. QED
    BY <1>10, <1>11 DEF FollowsLabels
<1>13. QED
  BY <1>9, <1>12

\* What encode_dns_name writes for the label at i: its length and its text.
LengthAndText(d, i) == <<DotOrEnd(d, i) - i>> \o SubSeq(d, i, DotOrEnd(d, i) - 1)

\* Bytes, numbers that may be too large for one at first.
LEMMA LabelText ==
  ASSUME NEW d \in CText, NEW i \in 1..Len(d), d[i] # Dot
  PROVE  /\ SubSeq(d, i, DotOrEnd(d, i) - 1) \in CText
         /\ Len(SubSeq(d, i, DotOrEnd(d, i) - 1)) = DotOrEnd(d, i) - i
         /\ DotOrEnd(d, i) - i \in Nat \ {0}
         /\ LengthAndText(d, i) \in Seq(Nat)
         /\ DotOrEnd(d, i) - i <= DNS_MAX_LABEL_LEN => LengthAndText(d, i) \in Seq(Octet)
<1> DEFINE e == DotOrEnd(d, i)
           S == SubSeq(d, i, e - 1)
           B == Octet \ {0}
<1>1. Len(d) \in Nat /\ e \in (i + 1)..(Len(d) + 1) /\ d \in Seq(B)
  BY LabelEndsAhead DEF CText
<1>2. B \subseteq Nat /\ B \subseteq Octet /\ \A n \in Nat : n <= DNS_MAX_LABEL_LEN => n \in Octet
  BY ParserLimits DEF Octet
<1> HIDE DEF B, e
<1>3. S \in Seq(B) /\ Len(S) = e - i /\ e - i \in Nat \ {0}
  BY <1>1
<1> DEFINE one == <<e - i>>
<1>4. one \in Seq(Nat) /\ S \in Seq(Nat)
  <2>1. S \in Seq(Nat)
    BY <1>2, <1>3, SeqMonotonic
  <2>2. QED
    BY <1>3, <2>1
<1>5. S \in Seq(Octet) /\ (e - i <= DNS_MAX_LABEL_LEN => one \in Seq(Octet))
  <2>1. S \in Seq(Octet)
    BY <1>2, <1>3, SeqMonotonic
  <2>2. e - i <= DNS_MAX_LABEL_LEN => e - i \in Octet
    BY <1>2, <1>3
  <2> HIDE DEF S
  <2>3. QED
    BY <2>1, <2>2
<1>6. one \o S \in Seq(Nat)
  <2> HIDE DEF one, S
  <2>1. QED
    BY <1>4
<1>7. e - i <= DNS_MAX_LABEL_LEN => one \o S \in Seq(Octet)
  <2> HIDE DEF one, S
  <2>1. QED
    BY <1>5
<1>8. LengthAndText(d, i) = one \o S
  BY DEF LengthAndText, e
<1>9. QED
  BY <1>3, <1>6, <1>7, <1>8 DEF e, CText, B

\* w[i] is what encode_dns_name writes for the text from place i on.
Encodes(d, w) ==
  /\ w \in [1..(Len(d) + 1) -> Seq(Nat)]
  /\ w[Len(d) + 1] = << >>
  /\ \A i \in 1..Len(d) : /\ d[i] = Dot => w[i] = w[i + 1]
                          /\ d[i] # Dot => w[i] = LengthAndText(d, i) \o w[DotOrEnd(d, i)]

\* Labels writes the text from its first place on.
LEMMA LabelsAre ==
  ASSUME NEW d \in CText
  PROVE  \E w : Encodes(d, w) /\ Labels(d) = w[1]
<1> DEFINE n == Len(d)
           head(i) == LengthAndText(d, i)
           Turn(w, i) == IF i > n THEN << >>
                         ELSE IF d[i] = Dot THEN w[i + 1]
                         ELSE head(i) \o w[DotOrEnd(d, i)]
           from == CHOOSE w : w = [i \in 1..(n + 1) |-> Turn(w, i)]
<1>1. Labels(d) = from[1]
  BY DEF Labels, LengthAndText
<1>2. n \in Nat
  BY DEF CText
<1> DEFINE V == Seq(Nat)
           c == << >>
           g == [i \in 1..n |-> [v \in V |-> IF d[i] = Dot THEN v ELSE head(i) \o v]]
<1>3. c \in V
  OBVIOUS
<1>4. \A i \in 1..n : d[i] # Dot => head(i) \in V
  BY LabelText
<1>5. g \in [1..n -> [V -> V]]
  <2> SUFFICES ASSUME NEW i \in 1..n, NEW v \in V, d[i] # Dot
               PROVE  head(i) \o v \in V
    OBVIOUS
  <2> DEFINE h == head(i)
  <2>1. h \in Seq(Nat)
    BY <1>4
  <2> HIDE DEF h
  <2>2. h \o v \in Seq(Nat)
    BY <2>1
  <2>3. QED
    BY <2>2 DEF h
<1>6. PICK f \in [1..(n + 1) -> V] : FollowsLabels(d, f, c, g)
  <2> HIDE DEF V, c, g
  <2>1. QED
    BY <1>3, <1>5, LabelRecursion
<1>7. f[n + 1] = << >>
  BY <1>6 DEF FollowsLabels
<1>8. ASSUME NEW i \in 1..n
      PROVE  /\ d[i] = Dot => f[i] = f[i + 1]
             /\ d[i] # Dot => f[i] = head(i) \o f[DotOrEnd(d, i)]
  <2>1. d[i] # Dot => DotOrEnd(d, i) \in 1..(n + 1)
    BY <1>2, LabelEndsAhead
  <2>2. /\ d[i] = Dot => f[i] = f[i + 1]
        /\ d[i] # Dot => f[i] = g[i][f[DotOrEnd(d, i)]]
    BY <1>6 DEF FollowsLabels
  <2>3. d[i] # Dot => f[DotOrEnd(d, i)] \in V
    BY <2>1
  <2> HIDE DEF V, head
  <2>4. QED
    BY <2>2, <2>3
<1>9. f = [i \in 1..(n + 1) |-> Turn(f, i)]
  <2>1. ASSUME NEW i \in 1..(n + 1)
        PROVE  f[i] = Turn(f, i)
    <3>1. CASE i = n + 1
      BY <1>2, <1>7, <3>1
    <3>2. CASE i # n + 1
      <4>1. i \in 1..n /\ ~(i > n)
        BY <1>2, <3>2
      <4> HIDE DEF head
      <4>2. QED
        BY <1>8, <4>1
    <3>3. QED
      BY <3>1, <3>2
  <2> HIDE DEF Turn
  <2>2. QED
    BY <2>1
<1>10. from = [i \in 1..(n + 1) |-> Turn(from, i)]
  <2> HIDE DEF Turn
  <2>1. QED
    BY <1>9
<1>11. from[n + 1] = << >>
  <2>1. n + 1 \in 1..(n + 1) /\ n + 1 > n
    BY <1>2
  <2>2. from[n + 1] = Turn(from, n + 1)
    <3> HIDE DEF Turn, from
    <3>1. QED
      BY <1>10, <2>1
  <2> HIDE DEF from
  <2>3. QED
    BY <2>1, <2>2
<1>12. ASSUME NEW i \in 1..n
       PROVE  /\ d[i] = Dot => from[i] = from[i + 1]
              /\ d[i] # Dot => from[i] = head(i) \o from[DotOrEnd(d, i)]
  <2>1. i \in 1..(n + 1) /\ ~(i > n)
    BY <1>2
  <2>2. from[i] = Turn(from, i)
    <3> HIDE DEF Turn, from
    <3>1. QED
      BY <1>10, <2>1
  <2> HIDE DEF from, head
  <2>3. QED
    BY <2>1, <2>2
<1>13. \A i \in 1..(n + 1) : from[i] = f[i]
  <2> HIDE DEF from, head
  <2> DEFINE S == {i \in Nat : i \in 1..(n + 1) => from[i] = f[i]}
  <2>1. \A i \in Nat : i >= n + 1 => i \in S
    BY <1>2, <1>7, <1>11
  <2>2. ASSUME NEW i \in Nat, \A j \in Nat : i < j => j \in S
        PROVE  i \in S
    <3> SUFFICES ASSUME i \in 1..(n + 1)
                 PROVE  from[i] = f[i]
      OBVIOUS
    <3>1. CASE i = n + 1
      BY <1>7, <1>11, <3>1
    <3>2. CASE i # n + 1 /\ d[i] = Dot
      <4>1. i \in 1..n /\ i + 1 \in Nat /\ i < i + 1 /\ i + 1 \in 1..(n + 1)
        BY <1>2, <3>2
      <4>2. from[i + 1] = f[i + 1]
        BY <2>2, <4>1
      <4>3. QED
        BY <1>8, <1>12, <3>2, <4>1, <4>2
    <3>3. CASE i # n + 1 /\ d[i] # Dot
      <4>1. i \in 1..n
        BY <1>2, <3>3
      <4>2. DotOrEnd(d, i) \in (i + 1)..(n + 1)
        BY <3>3, <4>1, LabelEndsAhead
      <4>3. DotOrEnd(d, i) \in Nat /\ i < DotOrEnd(d, i) /\ DotOrEnd(d, i) \in 1..(n + 1)
        BY <1>2, <4>1, <4>2
      <4>4. from[DotOrEnd(d, i)] = f[DotOrEnd(d, i)]
        BY <2>2, <4>3
      <4>5. QED
        BY <1>8, <1>12, <3>3, <4>1, <4>4
    <3>4. QED
      BY <3>1, <3>2, <3>3
  <2> HIDE DEF S
  <2>3. \A i \in Nat : i \in S
    <3> DEFINE L == n + 1
    <3>1. L \in Nat /\ \A i \in Nat : i >= L => i \in S
      BY <1>2, <2>1
    <3> HIDE DEF L
    <3>2. QED
      BY <2>2, <3>1, UpwardInduction
  <2>4. QED
    BY <1>2, <2>3 DEF S
<1>14. Encodes(d, f)
  <2> HIDE DEF head
  <2>1. \A i \in 1..Len(d) : /\ d[i] = Dot => f[i] = f[i + 1]
                             /\ d[i] # Dot => f[i] = head(i) \o f[DotOrEnd(d, i)]
    BY <1>8
  <2>2. QED
    BY <1>6, <1>7, <2>1 DEF Encodes, head
<1>15. Labels(d) = f[1]
  <2>1. 1 \in 1..(n + 1)
    BY <1>2
  <2> HIDE DEF from
  <2>2. QED
    BY <1>1, <1>13, <2>1
<1>16. QED
  BY <1>14, <1>15

\* What is written are bytes, unless a label is too long.
LEMMA LabelsType ==
  ASSUME NEW d \in CText, ~LabelTooLong(d), NEW w, Encodes(d, w)
  PROVE  w \in [1..(Len(d) + 1) -> Seq(Octet)]
<1> DEFINE n == Len(d)
           S == {i \in Nat : i \in 1..(n + 1) => w[i] \in Seq(Octet)}
<1>1. n \in Nat
  BY DEF CText
<1>2. w[n + 1] \in Seq(Octet)
  BY DEF Encodes
<1>3. \A i \in Nat : i >= n + 1 => i \in S
  BY <1>1, <1>2
<1>4. ASSUME NEW i \in Nat, \A j \in Nat : i < j => j \in S
      PROVE  i \in S
  <2> SUFFICES ASSUME i \in 1..(n + 1)
               PROVE  w[i] \in Seq(Octet)
    OBVIOUS
  <2>1. CASE i = n + 1
    BY <1>2, <2>1
  <2>2. CASE i # n + 1 /\ d[i] = Dot
    <3>1. i \in 1..n /\ i + 1 \in Nat /\ i < i + 1 /\ i + 1 \in 1..(n + 1)
      BY <1>1, <2>2
    <3>2. w[i + 1] \in Seq(Octet)
      BY <1>4, <3>1
    <3>3. w[i] = w[i + 1]
      BY <2>2, <3>1 DEF Encodes
    <3>4. QED
      BY <3>2, <3>3
  <2>3. CASE i # n + 1 /\ d[i] # Dot
    <3> DEFINE e == DotOrEnd(d, i)
               a == LengthAndText(d, i)
               b == w[e]
    <3>1. i \in 1..n
      BY <1>1, <2>3
    <3>2. e \in (i + 1)..(n + 1)
      BY <2>3, <3>1, LabelEndsAhead
    <3>3. e \in Nat /\ i < e /\ e \in 1..(n + 1)
      BY <1>1, <3>1, <3>2
    <3>4. b \in Seq(Octet)
      BY <1>4, <3>3
    <3>5. e - i <= DNS_MAX_LABEL_LEN
      <4>1. i \in DOMAIN d /\ ~(e - i > DNS_MAX_LABEL_LEN)
        BY <2>3, <3>1 DEF LabelTooLong, CText
      <4>2. QED
        BY <1>1, <3>1, <3>2, <4>1, ParserLimits
    <3>6. a \in Seq(Octet)
      BY <2>3, <3>1, <3>5, LabelText
    <3>7. w[i] = a \o b
      BY <2>3, <3>1 DEF Encodes
    <3> HIDE DEF a, b
    <3>8. QED
      BY <3>4, <3>6, <3>7
  <2>4. QED
    BY <2>1, <2>2, <2>3
<1> HIDE DEF S
<1>5. \A i \in Nat : i \in S
  <2> DEFINE L == n + 1
  <2>1. L \in Nat /\ \A i \in Nat : i >= L => i \in S
    BY <1>1, <1>3
  <2> HIDE DEF L
  <2>2. QED
    BY <1>4, <2>1, UpwardInduction
<1>6. \A i \in 1..(n + 1) : w[i] \in Seq(Octet)
  BY <1>1, <1>5 DEF S
<1>7. QED
  BY <1>6 DEF Encodes

\* Queries put together with encode_dns_name are bytes.
LEMMA QueryType ==
  ASSUME NEW domain \in Domain, NEW buf_len \in Room
  PROVE  QueryFor(encode_dns_name(domain, buf_len)) \in Seq(Octet)
<1> DEFINE qname == encode_dns_name(domain, buf_len)
           front == << 0, 7, 1, 0, 0, 1, 0, 0, 0, 0, 0, 0 >>
           back == << 0, TYPE_A, 0, 1 >>
           w1 == Labels(domain)
<1>1. qname \in Seq(Octet)
  <2>1. CASE qname = Refused
    BY <2>1 DEF Refused
  <2>2. CASE qname # Refused
    <3>1. domain \in CText
      BY TextsAndRooms DEF CText
    <3>2. qname = w1 \o <<0>> /\ ~LabelTooLong(domain)
      BY <2>2 DEF encode_dns_name
    <3>3. PICK w : Encodes(domain, w) /\ w1 = w[1]
      BY <3>1, LabelsAre
    <3>4. Len(domain) \in Nat
      BY <3>1 DEF CText
    <3>5. w[1] \in Seq(Octet)
      BY <3>1, <3>2, <3>3, <3>4, LabelsType
    <3>6. <<0>> \in Seq(Octet)
      BY DEF Octet
    <3> HIDE DEF qname, w1
    <3>7. QED
      BY <3>2, <3>3, <3>5, <3>6
  <2>3. QED
    BY <2>1, <2>2
<1>2. front \in Seq(Octet) /\ back \in Seq(Octet)
  BY DEF Octet, TYPE_A
<1> HIDE DEF qname, front, back
<1>3. front \o qname \in Seq(Octet)
  BY <1>1, <1>2
<1>4. (front \o qname) \o back \in Seq(Octet)
  <2> DEFINE fq == front \o qname
  <2>1. fq \in Seq(Octet)
    BY <1>3
  <2> HIDE DEF fq
  <2>2. fq \o back \in Seq(Octet)
    BY <1>2, <2>1
  <2>3. QED
    BY <2>2 DEF fq
<1>5. QED
  BY <1>4 DEF QueryFor, qname, front, back

-----------------------------------------------------------------------------
(* The parser's safety, for its callers. *)

\* What recvfrom leaves of a datagram is a sequence of bytes no longer than
\* query_buffer.
LEMMA ReceivedType ==
  ASSUME NEW bytes \in Seq(Octet)
  PROVE  Received(bytes) \in Seq(Octet) /\ Len(Received(bytes)) <= DNS_UDP_MAX_SIZE
<1>1. CASE Len(bytes) > DNS_UDP_MAX_SIZE
  <2>1. Received(bytes) = SubSeq(bytes, 1, DNS_UDP_MAX_SIZE)
    BY <1>1 DEF Received
  <2>2. QED
    BY <1>1, <2>1, SizesAndTests
<1>2. CASE ~(Len(bytes) > DNS_UDP_MAX_SIZE)
  <2>1. Received(bytes) = SubSeq(bytes, 1, Len(bytes))
    BY <1>2 DEF Received
  <2>2. QED
    BY <1>2, <2>1, SizesAndTests
<1>3. QED
  BY <1>1, <1>2

\* While run_server decides, the datagram at hand is what query_buffer holds.
FitsBuffer == caller = "run_server" => len <= DNS_UDP_MAX_SIZE

HandleInv == IInv /\ FitsBuffer

\* Before the first datagram the parser holds nothing.
LEMMA HandleInitInvariant == HandleInit => HandleInv
  BY ParserInit DEF HandleInit, HandleInv, FitsBuffer

\* Each of the callers hands the parser bytes, and no more than it received.
LEMMA ArrivalKeepsInvariant == HandleInv /\ Arrival => HandleInv'
<1> SUFFICES ASSUME HandleInv, Arrival
             PROVE  HandleInv'
  OBVIOUS
<1>1. IInv
  BY DEF HandleInv
<1>2. ASSUME NEW bytes \in Packet, Receive(bytes)
      PROVE  HandleInv'
  <2>1. bytes \in Seq(Octet)
    BY PacketType
  <2>2. Received(bytes) \in Seq(Octet) /\ Len(Received(bytes)) <= DNS_UDP_MAX_SIZE
    BY <2>1, ReceivedType
  <2>3. parse_dns_message(Received(bytes))
    BY <1>2 DEF Receive, Call
  <2>4. packet' = Received(bytes)
    BY <2>3 DEF parse_dns_message
  <2>5. IInv'
    BY <1>1, <2>2, <2>3, ParseCallKeepsInvariant
  <2>6. FitsBuffer'
    BY <2>2, <2>4 DEF FitsBuffer, len
  <2>7. QED
    BY <2>5, <2>6 DEF HandleInv
<1>3. ASSUME NEW bytes \in TestPacket, dns_parse_query(bytes) \/ dns_build_error_response(bytes)
      PROVE  HandleInv'
  <2>1. bytes \in Seq(Octet)
    BY SizesAndTests
  <2>2. parse_dns_message(bytes) /\ caller' # "run_server"
    BY <1>3 DEF dns_parse_query, dns_build_error_response, Call
  <2>3. QED
    BY <1>1, <2>1, <2>2, ParseCallKeepsInvariant DEF HandleInv, FitsBuffer
<1>4. ASSUME NEW domain \in Domain, NEW buf_len \in Room, EncodeAndParse(domain, buf_len)
      PROVE  HandleInv'
  <2> DEFINE query == QueryFor(encode_dns_name(domain, buf_len))
  <2>1. query \in Seq(Octet)
    BY QueryType
  <2>2. parse_dns_message(query) /\ caller' # "run_server"
    BY <1>4 DEF EncodeAndParse, Call
  <2> HIDE DEF query
  <2>3. QED
    BY <1>1, <2>1, <2>2, ParseCallKeepsInvariant DEF HandleInv, FitsBuffer
<1>5. QED
  BY <1>2, <1>3, <1>4 DEF Arrival

\* The parser does not write to the datagram.
LEMMA ParsingKeepsPacket == Parsing => packet' = packet
  BY DEF Parsing, TooShort, HeaderOnly, HasQuestions, BeginName, NoRoomForName, NameStep,
     FollowPointer, BadPointer, BadLength, CopyLabel, BadLabel, EndName, RunsOff, KeepQuestion,
     NoRoomForFields, NoMemoryForName, StoreRaw, NoMemoryForRaw, Abandon

\* The inductive step, one step per kind of action.
LEMMA HandleStep == HandleInv /\ [HandleNext]_handleVars => HandleInv'
<1> SUFFICES ASSUME HandleInv, [HandleNext]_handleVars
             PROVE  HandleInv'
  OBVIOUS
<1>1. IInv
  BY DEF HandleInv
<1>2. CASE Arrival
  BY <1>2, ArrivalKeepsInvariant
<1>3. CASE ParserRuns
  <2>1. Parsing /\ caller' = caller
    BY <1>3 DEF ParserRuns, handled
  <2>2. IInv'
    BY <1>1, <2>1, ParserStep DEF Next
  <2>3. packet' = packet
    BY <2>1, ParsingKeepsPacket
  <2>4. QED
    BY <2>1, <2>2, <2>3 DEF HandleInv, FitsBuffer, len
<1>4. CASE Decision \/ UNCHANGED handleVars
  <2>1. UNCHANGED vars /\ caller' = caller
    BY <1>4 DEF Decision, ParseFailed, NoQuestion, UnsupportedType, BlockedDomain,
       AllowedDomain, ReturnQuestion, ReturnErrorResponse, handleVars, handled
  <2>2. IInv'
    BY <1>1, <2>1, ParserStep
  <2>3. packet' = packet
    BY <2>1 DEF vars
  <2>4. QED
    BY <2>1, <2>2, <2>3 DEF HandleInv, FitsBuffer, len
<1>5. CASE Finish
  <2>1. IInv'
    BY <1>1, <1>5, ParserStep DEF Finish, Next
  <2>2. QED
    BY <1>5, <2>1 DEF HandleInv, FitsBuffer, Finish
<1>6. QED
  BY <1>2, <1>3, <1>4, <1>5 DEF HandleNext

\* The invariant holds in every state of every caller.
LEMMA HandleInvariant == HandleSpec => []HandleInv
<1>1. QED
  BY HandleInitInvariant, HandleStep, PTL DEF HandleSpec

\* Called by run_server and by the wrappers, for every datagram: no byte beyond
\* what was received is read and none beyond the name buffer is written.
THEOREM CallersStayInBounds == HandleSpec => [](ReadsInBounds /\ WritesInBounds)
<1>1. HandleInv => ReadsInBounds /\ WritesInBounds
  BY DEF HandleInv, IInv
<1>2. QED
  BY <1>1, HandleInvariant, PTL

\* The parser under run_server reads inside query_buffer, not only inside what
\* it takes for the datagram.
THEOREM ReadsInsideQueryBuffer ==
  HandleSpec => [](caller = "run_server" => furthest < DNS_UDP_MAX_SIZE)
<1>1. ASSUME HandleInv, caller = "run_server"
      PROVE  furthest < DNS_UDP_MAX_SIZE
  BY <1>1, SizesAndTests, LenType DEF HandleInv, FitsBuffer, IInv, TypeOK, ReadsInBounds
<1>2. HandleInv => (caller = "run_server" => furthest < DNS_UDP_MAX_SIZE)
  BY <1>1
<1>3. QED
  BY <1>2, HandleInvariant, PTL

\* Whatever the caller decides, a message is owned whole or not at all, and
\* nothing of it is left when the next datagram is taken.
THEOREM CallersOwnAllOrNothing == HandleSpec => []OwnershipIsClear
<1>1. HandleInv => OwnershipIsClear
  BY DEF HandleInv, IInv
<1>2. QED
  BY <1>1, HandleInvariant, PTL

-----------------------------------------------------------------------------
(* The replies are bytes. *)

Walks(walk) ==
  \A p \in Nat : walk[p] = IF p >= len THEN 0
                           ELSE IF Byte(p) = 0 THEN p + 5
                           ELSE IF Byte(p) >= 64 THEN 0
                           ELSE walk[p + Byte(p) + 1]

\* build_error_response's walk over the labels of the first question.
LEMMA QuestionWalk ==
  ASSUME TypeOK
  PROVE  \E walk \in [Nat -> Nat] :
           /\ QuestionEnd = IF walk[DNS_HEADER_SIZE] <= len THEN walk[DNS_HEADER_SIZE] ELSE 0
           /\ Walks(walk)
<1> DEFINE Turn(w, p) == IF p >= len THEN 0
                         ELSE IF Byte(p) = 0 THEN p + 5
                         ELSE IF Byte(p) >= 64 THEN 0
                         ELSE w[p + Byte(p) + 1]
           walk == CHOOSE w : w = [p \in Nat |-> Turn(w, p)]
<1>1. len \in Nat /\ \A p \in Nat : Byte(p) \in Nat
  <2>1. len \in Nat
    BY LenType
  <2>2. \A p \in Nat : Byte(p) \in Octet
    BY ByteType
  <2>3. Octet \subseteq Nat
    BY DEF Octet
  <2>4. QED
    BY <2>1, <2>2, <2>3
<1>2. QuestionEnd = IF walk[DNS_HEADER_SIZE] <= len THEN walk[DNS_HEADER_SIZE] ELSE 0
  BY DEF QuestionEnd
<1>3. \E w : w = [p \in Nat |-> Turn(w, p)]
  <2> DEFINE stop == {p \in Nat : p >= len \/ Byte(p) = 0 \/ Byte(p) >= 64}
             c    == [p \in Nat |-> IF p < len /\ Byte(p) = 0 THEN p + 5 ELSE 0]
             next == [p \in Nat |-> p + Byte(p) + 1]
             g    == [p \in Nat |-> [v \in Nat |-> v]]
  <2>1. stop \in SUBSET Nat /\ c \in [Nat -> Nat] /\ g \in [Nat -> [Nat -> Nat]]
    OBVIOUS
  <2>2. next \in [Nat -> Nat]
    BY <1>1
  <2>3. \A p \in Nat : p \notin stop => p < len /\ p < next[p]
    BY <1>1
  <2>4. Upwards(Nat, len, stop, c, next, g)
    BY <1>1, <2>1, <2>2, <2>3 DEF Upwards
  <2> HIDE DEF stop, c, next, g
  <2>5. PICK f \in [Nat -> Nat] : SolvesUpwards(f, stop, c, next, g)
    BY <2>4, UpwardRecursion
  <2>6. ASSUME NEW p \in Nat
        PROVE  f[p] = Turn(f, p)
    <3>1. CASE p \in stop
      BY <1>1, <2>5, <3>1 DEF SolvesUpwards, stop, c
    <3>2. CASE p \notin stop
      <4>1. f[p] = f[next[p]]
        BY <2>2, <2>5, <3>2 DEF SolvesUpwards, g
      <4>2. Turn(f, p) = f[next[p]]
        BY <1>1, <3>2 DEF stop, next
      <4>3. QED
        BY <4>1, <4>2
    <3>3. QED
      BY <3>1, <3>2
  <2> HIDE DEF Turn
  <2>7. f = [p \in Nat |-> Turn(f, p)]
    BY <2>6
  <2>8. QED
    BY <2>7
<1>4. walk = [p \in Nat |-> Turn(walk, p)]
  <2> HIDE DEF Turn
  <2>1. QED
    BY <1>3
<1> HIDE DEF walk
<1>5. \A p \in Nat : walk[p] \in Nat
  <2> DEFINE S == {p \in Nat : walk[p] \in Nat}
  <2>1. \A p \in Nat : p >= len => p \in S
    BY <1>4
  <2>2. ASSUME NEW p \in Nat, \A q \in Nat : p < q => q \in S
        PROVE  p \in S
    <3>1. walk[p] = Turn(walk, p)
      BY <1>4
    <3>2. p + Byte(p) + 1 \in Nat /\ p < p + Byte(p) + 1
      BY <1>1
    <3>3. walk[p + Byte(p) + 1] \in Nat
      BY <2>2, <3>2
    <3>4. QED
      BY <3>1, <3>3
  <2> HIDE DEF S
  <2>3. \A p \in Nat : p \in S
    BY <1>1, <2>1, <2>2, UpwardInduction
  <2>4. QED
    BY <2>3 DEF S
<1>6. walk \in [Nat -> Nat]
  <2> HIDE DEF Turn
  <2>1. QED
    BY <1>4, <1>5
<1>7. Walks(walk)
  BY <1>4 DEF Walks
<1>8. QED
  BY <1>2, <1>6, <1>7

\* What build_error_response builds is a sequence of bytes.
LEMMA ReplyType ==
  ASSUME TypeOK, NEW rcode \in Nat
  PROVE  build_error_response(rcode) \in Seq(Octet)
<1>1. QuestionEnd \in Nat /\ QuestionEnd <= len /\ len \in Nat
  BY QuestionWalk, LenType, ParserLimits
<1>2. CASE rcode > 5 \/ QuestionEnd = 0
  BY <1>2 DEF build_error_response, Refused
<1>3. CASE ~(rcode > 5 \/ QuestionEnd = 0)
  <2>1. \A i \in 0..5 : Byte(i) \in Octet
    BY ByteType
  <2>2. 128 + (Byte(2) % 2) \in Octet /\ rcode \in Octet
    <3>1. Byte(2) \in Nat
      BY <2>1 DEF Octet
    <3>2. Byte(2) % 2 \in 0..1
      BY <3>1
    <3>3. QED
      BY <1>3, <3>2 DEF Octet
  <2>3. build_dns_header(rcode) \in Seq(Octet)
    BY <2>1, <2>2 DEF build_dns_header, Octet
  <2>4. SubSeq(packet, DNS_HEADER_SIZE + 1, QuestionEnd) \in Seq(Octet)
    <3>1. packet \in Seq(Octet) /\ QuestionEnd <= Len(packet)
      BY <1>1 DEF TypeOK, len
    <3>2. \A i \in (DNS_HEADER_SIZE + 1)..QuestionEnd : packet[i] \in Octet
      BY <1>1, <3>1, ParserLimits
    <3>3. QED
      BY <1>1, <3>2, ParserLimits, SubSeqProperties
  <2>5. QED
    BY <1>3, <2>3, <2>4 DEF build_error_response
<1>4. QED
  BY <1>2, <1>3

\* A verdict with a reply of any RCODE leaves bytes in response_buffer.
LEMMA ReplyKeepsTypes ==
  ASSUME HandleTypeOK, NEW rcode \in Nat, Reply(rcode)
  PROVE  /\ response' \in Seq(Octet)
         /\ outcome' \in {"error", "dropped", "nomem"}
<1>1. build_error_response(rcode) \in Seq(Octet)
  BY ReplyType DEF HandleTypeOK
<1>2. QED
  BY <1>1 DEF Reply, HandleTypeOK

\* The types of everything a caller keeps, the reply's bytes included.
THEOREM CallersTypeCorrect == HandleSpec => []HandleTypeOK
<1>0. << >> \in Seq(Octet)
  OBVIOUS
<1>1. HandleInit => HandleTypeOK
  <2>1. HandleInit => TypeOK
    BY HandleInitInvariant DEF HandleInv, IInv
  <2>2. QED
    BY <1>0, <2>1 DEF HandleInit, HandleTypeOK
<1>2. HandleTypeOK /\ TypeOK' /\ [HandleNext]_handleVars => HandleTypeOK'
  <2> SUFFICES ASSUME HandleTypeOK, TypeOK', [HandleNext]_handleVars
               PROVE  HandleTypeOK'
    OBVIOUS
  <2> DEFINE Kept == /\ outcome' = outcome /\ response' = response /\ starved' = starved
  <2>1. ASSUME NEW bytes \in Packet, Receive(bytes)
        PROVE  HandleTypeOK'
    <3>1. bytes \in Seq(Octet)
      BY PacketType
    <3>2. QED
      BY <2>1, <3>1 DEF Receive, Call, HandleTypeOK
  <2>2. ASSUME NEW bytes \in TestPacket, dns_parse_query(bytes) \/ dns_build_error_response(bytes)
        PROVE  HandleTypeOK'
    <3>1. bytes \in Seq(Octet)
      BY SizesAndTests
    <3>2. QED
      BY <2>2, <3>1 DEF dns_parse_query, dns_build_error_response, Call, HandleTypeOK
  <2>3. ASSUME NEW domain \in Domain, NEW buf_len \in Room, EncodeAndParse(domain, buf_len)
        PROVE  HandleTypeOK'
    <3> DEFINE query == QueryFor(encode_dns_name(domain, buf_len))
    <3>1. query \in Seq(Octet)
      BY QueryType
    <3>2. sent' = query /\ caller' = "dns_parse_query" /\ Kept
      BY <2>3 DEF EncodeAndParse, Call
    <3> HIDE DEF query
    <3>3. QED
      BY <3>1, <3>2 DEF HandleTypeOK
  <2>4. CASE ParserRuns \/ UNCHANGED handleVars
    BY <2>4 DEF ParserRuns, handleVars, handled, HandleTypeOK
  <2>5. CASE ParseFailed \/ ReturnQuestion
    BY <2>5 DEF ParseFailed, ReturnQuestion, HandleTypeOK
  <2>6. ASSUME NEW rcode \in Nat, Reply(rcode), caller' = caller, sent' = sent,
               starved' \in BOOLEAN
        PROVE  HandleTypeOK'
    BY <2>6, ReplyKeepsTypes DEF HandleTypeOK
  <2>7. CASE NoQuestion \/ UnsupportedType \/ BlockedDomain
    <3>1. \E rcode \in Nat : Reply(rcode)
      BY <2>7 DEF NoQuestion, UnsupportedType, BlockedDomain, FORMERR, NOTIMPL, NXDOMAIN
    <3>2. caller' = caller /\ sent' = sent /\ starved' \in BOOLEAN
      BY <2>7 DEF NoQuestion, UnsupportedType, BlockedDomain, HandleTypeOK
    <3>3. QED
      BY <2>6, <3>1, <3>2
  <2>8. CASE AllowedDomain
    <3>1. caller' = caller /\ sent' = sent /\ starved' \in BOOLEAN
      BY <2>8 DEF AllowedDomain, is_domain_blocked
    <3>2. CASE outcome' = "relayed" /\ UNCHANGED response
      BY <3>1, <3>2 DEF HandleTypeOK
    <3>3. CASE Reply(SERVFAIL)
      BY <2>6, <3>1, <3>3 DEF SERVFAIL
    <3>4. QED
      BY <2>8, <3>2, <3>3 DEF AllowedDomain
  <2>9. CASE ReturnErrorResponse
    <3>1. caller' = caller /\ sent' = sent /\ starved' \in BOOLEAN
      BY <2>9 DEF ReturnErrorResponse, HandleTypeOK
    <3>2. CASE outcome' = "dropped" /\ UNCHANGED response
      BY <3>1, <3>2 DEF HandleTypeOK
    <3>3. ASSUME NEW rcode \in {NXDOMAIN, 6}, Reply(rcode)
          PROVE  HandleTypeOK'
      BY <2>6, <3>1, <3>3 DEF NXDOMAIN
    <3>4. QED
      BY <2>9, <3>2, <3>3 DEF ReturnErrorResponse
  <2>10. CASE Finish
    <3>1. /\ caller' = "nobody" /\ sent' = << >> /\ outcome' = "pending"
          /\ response' = << >> /\ starved' = FALSE
      BY <2>10 DEF Finish
    <3>2. QED
      BY <1>0, <3>1 DEF HandleTypeOK
  <2>11. QED
    BY <2>1, <2>2, <2>3, <2>4, <2>5, <2>7, <2>8, <2>9, <2>10
       DEF HandleNext, Arrival, Decision
<1>3. HandleInv => TypeOK
  BY DEF HandleInv, IInv
<1>4. QED
  BY <1>1, <1>2, <1>3, HandleInvariant, PTL DEF HandleSpec

-----------------------------------------------------------------------------
(* What the bytes of a datagram say: the definitions of Wire unfolded. *)

Texts == Seq(Octet)
LabelSeq == Seq(Texts)
MaybeLabels == LabelSeq \cup {Bad}

\* A label before labels, or before no name at all.
LEMMA PrependType ==
  ASSUME NEW front \in LabelSeq, NEW rest \in MaybeLabels
  PROVE  /\ Prepend(front, rest) \in MaybeLabels
         /\ rest = Bad => Prepend(front, rest) = Bad
         /\ rest # Bad => rest \in LabelSeq /\ Prepend(front, rest) = front \o rest
                          /\ Prepend(front, rest) \in LabelSeq /\ Prepend(front, rest) # Bad
<1>1. Bad \notin LabelSeq
  BY BadIsNone DEF LabelSeq, Texts
<1>2. ASSUME rest # Bad
      PROVE  rest \in LabelSeq /\ front \o rest \in LabelSeq
  <2>1. rest \in LabelSeq
    BY <1>2 DEF MaybeLabels
  <2> HIDE DEF MaybeLabels
  <2>2. front \o rest \in LabelSeq
    BY <2>1, ConcatProperties DEF LabelSeq
  <2>3. QED
    BY <2>1, <2>2
<1> HIDE DEF LabelSeq
<1>3. QED
  BY <1>1, <1>2 DEF Prepend, MaybeLabels

\* Prepending twice.
LEMMA PrependTwice ==
  ASSUME NEW a \in LabelSeq, NEW b \in LabelSeq, NEW rest \in MaybeLabels
  PROVE  Prepend(a, Prepend(b, rest)) = Prepend(a \o b, rest)
<1>1. CASE rest = Bad
  BY <1>1 DEF Prepend
<1>2. CASE rest # Bad
  <2>1. rest \in LabelSeq /\ Prepend(b, rest) = b \o rest /\ Prepend(b, rest) # Bad
    BY <1>2, PrependType
  <2>2. a \o (b \o rest) = (a \o b) \o rest
    <3>1. a \in Seq(Texts) /\ b \in Seq(Texts) /\ rest \in Seq(Texts)
      BY <2>1 DEF LabelSeq
    <3> HIDE DEF LabelSeq, MaybeLabels, Texts
    <3>2. QED
      BY <3>1, ConcatAssociative
  <2>3. QED
    BY <1>2, <2>1, <2>2 DEF Prepend
<1>3. QED
  BY <1>1, <1>2

\* Nothing before a name.
LEMMA PrependNothing ==
  ASSUME NEW rest \in MaybeLabels
  PROVE  Prepend(<< >>, rest) = rest
BY DEF Prepend, MaybeLabels, LabelSeq

\* The bytes at a place.
LEMMA BytesAt ==
  ASSUME NEW p \in Seq(Octet), NEW i \in Nat, i < Len(p)
  PROVE  /\ Len(p) \in Nat /\ p[i + 1] \in Octet
         /\ i + 1 < Len(p) => p[i + 2] \in Octet
<1>1. Len(p) \in Nat /\ i + 1 \in 1..Len(p)
  OBVIOUS
<1>2. i + 1 < Len(p) => i + 2 \in 1..Len(p)
  BY <1>1
<1>3. QED
  BY <1>1, <1>2

IsBroken(p, i) == ~IsEnd(p, i) /\ ~IsLabel(p, i) /\ ~IsPointer(p, i)

\* The kinds of places exclude each other.
LEMMA KindsOfPlaces ==
  ASSUME NEW p \in Seq(Octet), NEW i \in Nat
  PROVE  /\ IsLabel(p, i) => /\ i < Len(p) /\ ~IsEnd(p, i) /\ ~IsPointer(p, i)
                             /\ i + 1 + p[i + 1] \in Nat /\ i < i + 1 + p[i + 1]
                             /\ LabelOf(p, i) \in Texts
                             /\ Len(LabelOf(p, i)) = p[i + 1]
         /\ IsPointer(p, i) => i < Len(p) /\ ~IsEnd(p, i) /\ PointsTo(p, i) \in Nat
<1>1. CASE i < Len(p)
  <2>1. p[i + 1] \in Octet /\ (i + 1 < Len(p) => p[i + 2] \in Octet) /\ Len(p) \in Nat
    BY <1>1, BytesAt
  <2>2. DNS_MAX_LABEL_LEN \in Int /\ DNS_MAX_LABEL_LEN <= 63
    BY ParserLimits
  <2>3. ASSUME IsLabel(p, i)
        PROVE  /\ ~IsEnd(p, i) /\ ~IsPointer(p, i)
               /\ i + 1 + p[i + 1] \in Nat /\ i < i + 1 + p[i + 1]
               /\ LabelOf(p, i) \in Texts /\ Len(LabelOf(p, i)) = p[i + 1]
    <3> DEFINE b == p[i + 1]
    <3>1. b \in Int /\ 1 <= b /\ b <= 63 /\ i + 1 + b <= Len(p)
      BY <2>1, <2>2, <2>3 DEF IsLabel, Octet
    <3>2. ~IsEnd(p, i) /\ ~IsPointer(p, i)
      BY <3>1 DEF IsEnd, IsPointer
    <3>3. SubSeq(p, i + 2, i + 1 + b) \in Seq(Octet) /\ Len(SubSeq(p, i + 2, i + 1 + b)) = b
      <4> HIDE DEF b
      <4>1. \A k \in (i + 2)..(i + 1 + b) : p[k] \in Octet
        <5>1. \A k \in (i + 2)..(i + 1 + b) : k \in 1..Len(p)
          BY <2>1, <3>1
        <5>2. QED
          BY <5>1
      <4>2. QED
        BY <2>1, <3>1, <4>1, SubSeqProperties
    <3>4. i + 1 + b \in Nat /\ i < i + 1 + b
      <4> HIDE DEF b
      <4>1. QED
        BY <3>1
    <3>5. LabelOf(p, i) = SubSeq(p, i + 2, i + 1 + b)
      BY DEF LabelOf
    <3>6. LabelOf(p, i) \in Texts /\ Len(LabelOf(p, i)) = b
      BY <3>3, <3>5 DEF Texts
    <3>7. QED
      BY <3>2, <3>4, <3>6
  <2>4. ASSUME IsPointer(p, i)
        PROVE  ~IsEnd(p, i) /\ PointsTo(p, i) \in Nat
    <3> DEFINE b == p[i + 1]
               c == p[i + 2]
    <3>1. b \in Int /\ 192 <= b /\ c \in Int /\ 0 <= c
      <4>1. b >= 192 /\ b \in Octet /\ c \in Octet
        BY <2>1, <2>4 DEF IsPointer
      <4> HIDE DEF b, c
      <4>2. QED
        BY <4>1 DEF Octet
    <3> HIDE DEF b, c
    <3>2. b # 0 /\ 256 * (b - 192) + c \in Nat
      BY <3>1
    <3>3. QED
      BY <3>2 DEF IsEnd, PointsTo, b, c
  <2>5. QED
    BY <1>1, <2>3, <2>4
<1>2. CASE ~(i < Len(p))
  <2>1. Len(p) \in Nat
    OBVIOUS
  <2>2. QED
    BY <1>2, <2>1 DEF IsLabel, IsPointer
<1>3. QED
  BY <1>1, <1>2

\* The cases of a turn.
LEMMA TurnCases ==
  ASSUME NEW p \in Seq(Octet), NEW jump, NEW from, NEW i \in Nat
  PROVE  /\ IsEnd(p, i) => LabelTurn(p, jump, from, i) = << >>
         /\ IsLabel(p, i) => LabelTurn(p, jump, from, i) =
                               Prepend(<<LabelOf(p, i)>>, from[i + 1 + p[i + 1]])
         /\ IsPointer(p, i) => LabelTurn(p, jump, from, i) = jump[PointsTo(p, i)]
         /\ IsBroken(p, i) => LabelTurn(p, jump, from, i) = Bad
<1> DEFINE first == << >>
           second == Prepend(<<LabelOf(p, i)>>, from[i + 1 + p[i + 1]])
           third == jump[PointsTo(p, i)]
<1>1. LabelTurn(p, jump, from, i) =
        CASE IsEnd(p, i) -> first
          [] IsLabel(p, i) -> second
          [] IsPointer(p, i) -> third
          [] OTHER -> Bad
  BY DEF LabelTurn
<1>2. /\ IsLabel(p, i) => ~IsEnd(p, i) /\ ~IsPointer(p, i)
      /\ IsPointer(p, i) => ~IsEnd(p, i)
  BY KindsOfPlaces
<1> HIDE DEF first, second, third
<1>3. /\ IsEnd(p, i) => LabelTurn(p, jump, from, i) = first
      /\ IsLabel(p, i) => LabelTurn(p, jump, from, i) = second
      /\ IsPointer(p, i) => LabelTurn(p, jump, from, i) = third
      /\ IsBroken(p, i) => LabelTurn(p, jump, from, i) = Bad
  BY <1>1, <1>2 DEF IsBroken
<1>4. QED
  BY <1>3 DEF first, second, third

\* The labels of the names at all places, from those behind the pointers.
LEMMA LabelsFromIs ==
  ASSUME NEW p \in Seq(Octet), NEW jump \in [Nat -> MaybeLabels]
  PROVE  /\ LabelsFrom(p, jump) \in [Nat -> MaybeLabels]
         /\ \A i \in Nat : LabelsFrom(p, jump)[i] = LabelTurn(p, jump, LabelsFrom(p, jump), i)
<1> DEFINE from == CHOOSE w : w = [i \in Nat |-> LabelTurn(p, jump, w, i)]
<1>1. LabelsFrom(p, jump) = from
  BY DEF LabelsFrom
<1>2. Len(p) \in Nat
  OBVIOUS
<1>3. Bad \in MaybeLabels /\ << >> \in MaybeLabels
  BY DEF MaybeLabels, LabelSeq
<1>4. \A i \in Nat : IsLabel(p, i) => <<LabelOf(p, i)>> \in LabelSeq
  <2> SUFFICES ASSUME NEW i \in Nat, IsLabel(p, i)
               PROVE  <<LabelOf(p, i)>> \in LabelSeq
    OBVIOUS
  <2>1. LabelOf(p, i) \in Texts
    BY KindsOfPlaces
  <2>2. QED
    BY <2>1 DEF LabelSeq
<1>5. \E w : w = [i \in Nat |-> LabelTurn(p, jump, w, i)]
  <2> DEFINE stop == {i \in Nat : ~IsLabel(p, i)}
             c    == [i \in Nat |-> IF IsLabel(p, i) THEN Bad ELSE LabelTurn(p, jump, jump, i)]
             next == [i \in Nat |-> IF IsLabel(p, i) THEN i + 1 + p[i + 1] ELSE i]
             g    == [i \in Nat |-> [v \in MaybeLabels |->
                        IF IsLabel(p, i) THEN Prepend(<<LabelOf(p, i)>>, v) ELSE v]]
  <2>1. stop \in SUBSET Nat
    OBVIOUS
  <2>2. c \in [Nat -> MaybeLabels]
    <3>1. ASSUME NEW i \in Nat, ~IsLabel(p, i)
          PROVE  LabelTurn(p, jump, jump, i) \in MaybeLabels
      <4>1. CASE IsEnd(p, i)
        BY <1>3, <4>1, TurnCases
      <4>2. CASE IsPointer(p, i)
        <5>1. LabelTurn(p, jump, jump, i) = jump[PointsTo(p, i)]
          BY <4>2, TurnCases
        <5>2. PointsTo(p, i) \in Nat
          BY <4>2, KindsOfPlaces
        <5>3. QED
          BY <5>1, <5>2
      <4>3. CASE IsBroken(p, i)
        BY <1>3, <4>3, TurnCases
      <4>4. QED
        BY <3>1, <4>1, <4>2, <4>3 DEF IsBroken
    <3> HIDE DEF MaybeLabels
    <3>2. QED
      BY <1>3, <3>1
  <2>3. next \in [Nat -> Nat]
    BY KindsOfPlaces
  <2>4. g \in [Nat -> [MaybeLabels -> MaybeLabels]]
    <3>1. ASSUME NEW i \in Nat, NEW v \in MaybeLabels, IsLabel(p, i)
          PROVE  Prepend(<<LabelOf(p, i)>>, v) \in MaybeLabels
      BY <1>4, <3>1, PrependType
    <3> HIDE DEF MaybeLabels
    <3>2. QED
      BY <3>1
  <2>5. \A i \in Nat : i \notin stop => i < Len(p) /\ i < next[i]
    BY KindsOfPlaces
  <2>6. Upwards(MaybeLabels, Len(p), stop, c, next, g)
    BY <1>2, <2>1, <2>2, <2>3, <2>4, <2>5 DEF Upwards
  <2> HIDE DEF stop, c, next, g
  <2>7. PICK f \in [Nat -> MaybeLabels] : SolvesUpwards(f, stop, c, next, g)
    BY <2>6, UpwardRecursion
  <2>8. ASSUME NEW i \in Nat
        PROVE  f[i] = LabelTurn(p, jump, f, i)
    <3>1. CASE IsLabel(p, i)
      <4>1. f[i] = g[i][f[next[i]]] /\ next[i] = i + 1 + p[i + 1] /\ next[i] \in Nat
        BY <2>3, <2>7, <3>1 DEF SolvesUpwards, stop, next
      <4>2. f[next[i]] \in MaybeLabels
        BY <4>1
      <4>3. g[i][f[next[i]]] = Prepend(<<LabelOf(p, i)>>, f[next[i]])
        BY <3>1, <4>2 DEF g
      <4>4. QED
        BY <3>1, <4>1, <4>3, TurnCases
    <3>2. CASE ~IsLabel(p, i)
      <4>1. f[i] = LabelTurn(p, jump, jump, i)
        BY <2>7, <3>2 DEF SolvesUpwards, stop, c
      <4>2. LabelTurn(p, jump, jump, i) = LabelTurn(p, jump, f, i)
        <5>1. IsEnd(p, i) \/ IsPointer(p, i) \/ IsBroken(p, i)
          BY <3>2 DEF IsBroken
        <5>2. QED
          BY <5>1, TurnCases
      <4>3. QED
        BY <4>1, <4>2
    <3>3. QED
      BY <3>1, <3>2
  <2>9. f = [i \in Nat |-> LabelTurn(p, jump, f, i)]
    BY <2>8
  <2>10. QED
    BY <2>9
<1>6. from = [i \in Nat |-> LabelTurn(p, jump, from, i)]
  BY <1>5
<1> HIDE DEF from
<1>7. \A i \in Nat : from[i] = LabelTurn(p, jump, from, i)
  BY <1>6
<1>8. \A i \in Nat : from[i] \in MaybeLabels
  <2> DEFINE S == {i \in Nat : from[i] \in MaybeLabels}
  <2>1. ASSUME NEW i \in Nat, \A j \in Nat : i < j => j \in S
        PROVE  i \in S
    <3>1. from[i] = LabelTurn(p, jump, from, i)
      BY <1>7
    <3>2. CASE IsLabel(p, i)
      <4>1. from[i] = Prepend(<<LabelOf(p, i)>>, from[i + 1 + p[i + 1]])
        BY <3>1, <3>2, TurnCases
      <4>2. i + 1 + p[i + 1] \in S
        BY <2>1, <3>2, KindsOfPlaces
      <4>3. QED
        BY <1>4, <3>2, <4>1, <4>2, PrependType
    <3>3. CASE IsEnd(p, i)
      BY <1>3, <3>1, <3>3, TurnCases
    <3>4. CASE IsPointer(p, i)
      <4>1. from[i] = jump[PointsTo(p, i)]
        BY <3>1, <3>4, TurnCases
      <4>2. PointsTo(p, i) \in Nat
        BY <3>4, KindsOfPlaces
      <4>3. QED
        BY <4>1, <4>2
    <3>5. CASE IsBroken(p, i)
      BY <1>3, <3>1, <3>5, TurnCases
    <3>6. QED
      BY <3>2, <3>3, <3>4, <3>5 DEF IsBroken
  <2>2. \A i \in Nat : i >= Len(p) => i \in S
    <3> SUFFICES ASSUME NEW i \in Nat, i >= Len(p)
                 PROVE  from[i] \in MaybeLabels
      OBVIOUS
    <3>1. IsBroken(p, i)
      BY <1>2 DEF IsBroken, IsEnd, IsLabel, IsPointer
    <3>2. QED
      BY <1>3, <1>7, <3>1, TurnCases
  <2> HIDE DEF S
  <2>3. \A i \in Nat : i \in S
    BY <1>2, <2>1, <2>2, UpwardInduction
  <2>4. QED
    BY <2>3 DEF S
<1>9. from \in [Nat -> MaybeLabels]
  BY <1>6, <1>8
<1>10. QED
  BY <1>1, <1>7, <1>9

\* What LabelsAt says of a place, with as many pointers as are left.
LabelsRead(p, i, n) ==
  /\ LabelsAt(p, i, n) \in MaybeLabels
  /\ IsEnd(p, i) => LabelsAt(p, i, n) = << >>
  /\ IsLabel(p, i) => LabelsAt(p, i, n) =
                        Prepend(<<LabelOf(p, i)>>, LabelsAt(p, i + 1 + p[i + 1], n))
  /\ IsPointer(p, i) /\ n > 0 => LabelsAt(p, i, n) = LabelsAt(p, PointsTo(p, i), n - 1)
  /\ IsPointer(p, i) /\ n = 0 => LabelsAt(p, i, n) = Bad
  /\ IsBroken(p, i) => LabelsAt(p, i, n) = Bad

\* The labels at a place are those of the rest of the name.
LEMMA LabelsAtIs ==
  ASSUME NEW p \in Seq(Octet), NEW n \in 0..MAX_COMPRESSION_JUMPS, NEW i \in Nat
  PROVE  LabelsRead(p, i, n)
<1> DEFINE V == [Nat -> MaybeLabels]
           J == MAX_COMPRESSION_JUMPS
           none == [to \in Nat |-> Bad]
           jumpOf(w, k) == IF k = 0 THEN none ELSE w[k - 1]
           with == CHOOSE w : w = [k \in 0..J |-> LabelsFrom(p, jumpOf(w, k))]
<1>1. \A m, j : LabelsAt(p, j, m) = with[m][j]
  BY DEF LabelsAt
<1>2. J \in Nat /\ none \in V
  BY ParserLimits DEF MaybeLabels
<1>3. \A v \in V : LabelsFrom(p, v) \in V
  BY LabelsFromIs
<1>4. \E w : w = [k \in 0..J |-> LabelsFrom(p, jumpOf(w, k))]
  <2> DEFINE c == LabelsFrom(p, none)
             g == [k \in 1..J |-> [v \in V |-> LabelsFrom(p, v)]]
  <2>1. c \in V /\ g \in [1..J -> [V -> V]]
    BY <1>2, <1>3
  <2> HIDE DEF V, J, c, g
  <2>2. PICK f \in [0..J -> V] : SolvesSteps(f, J, c, g)
    BY <1>2, <2>1, StepRecursion
  <2>3. ASSUME NEW k \in 0..J
        PROVE  f[k] = LabelsFrom(p, jumpOf(f, k))
    <3>1. CASE k = 0
      BY <2>2, <3>1 DEF c, SolvesSteps
    <3>2. CASE k # 0
      <4>1. k \in 1..J /\ k - 1 \in 0..J
        BY <1>2, <3>2
      <4>2. f[k - 1] \in V /\ f[k] = g[k][f[k - 1]]
        BY <2>2, <4>1 DEF SolvesSteps
      <4>3. f[k] = LabelsFrom(p, f[k - 1])
        BY <4>1, <4>2 DEF g
      <4>4. QED
        BY <3>2, <4>3
    <3>3. QED
      BY <3>1, <3>2
  <2> HIDE DEF jumpOf
  <2>4. f = [k \in 0..J |-> LabelsFrom(p, jumpOf(f, k))]
    BY <2>3
  <2>5. QED
    BY <2>4
<1>5. with = [k \in 0..J |-> LabelsFrom(p, jumpOf(with, k))]
  <2> HIDE DEF jumpOf, J
  <2>1. QED
    BY <1>4
<1> HIDE DEF with, J, V, none
<1>6. \A k \in 0..J : with[k] = LabelsFrom(p, jumpOf(with, k))
  BY <1>5
<1>7. \A k \in 0..J : with[k] \in V
  <2> DEFINE S == {k \in Nat : k <= J => with[k] \in V}
  <2>1. 0 \in S
    <3>1. 0 \in 0..J
      BY <1>2
    <3>2. with[0] = LabelsFrom(p, none)
      BY <1>6, <3>1
    <3>3. QED
      BY <1>2, <1>3, <3>2
  <2>2. \A k \in Nat : k \in S => k + 1 \in S
    <3> SUFFICES ASSUME NEW k \in Nat, k \in S, k + 1 <= J
                 PROVE  with[k + 1] \in V
      OBVIOUS
    <3>1. k + 1 \in 0..J /\ k <= J /\ k + 1 # 0 /\ (k + 1) - 1 = k
      BY <1>2
    <3>2. with[k + 1] = LabelsFrom(p, with[k])
      BY <1>6, <3>1
    <3>3. QED
      BY <1>3, <3>1, <3>2
  <2> HIDE DEF S
  <2>3. \A k \in Nat : k \in S
    BY <2>1, <2>2, SetInduction
  <2>4. QED
    BY <1>2, <2>3 DEF S
<1> DEFINE jump == jumpOf(with, n)
<1>8. n \in 0..J /\ n \in Nat
  BY DEF J
<1>9. jump \in V
  <2>1. CASE n = 0
    BY <1>2, <2>1
  <2>2. CASE n # 0
    <3>1. n - 1 \in 0..J
      BY <1>2, <1>8, <2>2
    <3>2. QED
      BY <1>7, <2>2, <3>1
  <2>3. QED
    BY <2>1, <2>2
<1>10. with[n] = LabelsFrom(p, jump)
  BY <1>6, <1>8
<1>11. (n = 0 => jump = none) /\ (n # 0 => jump = with[n - 1])
  OBVIOUS
<1> HIDE DEF jump, jumpOf
<1>12. with[n] \in [Nat -> MaybeLabels]
       /\ \A j \in Nat : with[n][j] = LabelTurn(p, jump, with[n], j)
  BY <1>9, <1>10, LabelsFromIs DEF V
<1>13. with[n][i] = LabelTurn(p, jump, with[n], i)
  BY <1>12
<1> DEFINE turn == LabelTurn(p, jump, with[n], i)
<1>14. /\ IsEnd(p, i) => turn = << >>
       /\ IsLabel(p, i) => turn = Prepend(<<LabelOf(p, i)>>, with[n][i + 1 + p[i + 1]])
       /\ IsPointer(p, i) => turn = jump[PointsTo(p, i)]
       /\ IsBroken(p, i) => turn = Bad
  BY TurnCases
<1>15. with[n][i] = turn
  BY <1>13
<1> HIDE DEF turn
<1>16. IsLabel(p, i) => i + 1 + p[i + 1] \in Nat
  BY KindsOfPlaces
<1>17. IsPointer(p, i) => PointsTo(p, i) \in Nat
  BY KindsOfPlaces
<1>18. LabelsAt(p, i, n) \in MaybeLabels
  BY <1>1, <1>12
<1>19. IsEnd(p, i) => LabelsAt(p, i, n) = << >>
  BY <1>1, <1>14, <1>15
<1>20. IsLabel(p, i) => LabelsAt(p, i, n) =
                          Prepend(<<LabelOf(p, i)>>, LabelsAt(p, i + 1 + p[i + 1], n))
  BY <1>1, <1>14, <1>15
<1>21. IsPointer(p, i) /\ n > 0 => LabelsAt(p, i, n) = LabelsAt(p, PointsTo(p, i), n - 1)
  <2> SUFFICES ASSUME IsPointer(p, i), n > 0
               PROVE  LabelsAt(p, i, n) = LabelsAt(p, PointsTo(p, i), n - 1)
    OBVIOUS
  <2>1. jump = with[n - 1]
    BY <1>8, <1>11
  <2>2. with[n][i] = jump[PointsTo(p, i)]
    BY <1>14, <1>15
  <2>3. QED
    BY <1>1, <2>1, <2>2
<1>22. IsPointer(p, i) /\ n = 0 => LabelsAt(p, i, n) = Bad
  <2> SUFFICES ASSUME IsPointer(p, i), n = 0
               PROVE  LabelsAt(p, i, n) = Bad
    OBVIOUS
  <2>1. with[n][i] = jump[PointsTo(p, i)]
    BY <1>14, <1>15
  <2>2. jump = none /\ none[PointsTo(p, i)] = Bad
    BY <1>11, <1>17 DEF none
  <2>3. QED
    BY <1>1, <2>1, <2>2
<1>23. IsBroken(p, i) => LabelsAt(p, i, n) = Bad
  BY <1>1, <1>14, <1>15
<1>24. QED
  BY <1>18, <1>19, <1>20, <1>21, <1>22, <1>23 DEF LabelsRead

\* Where a name ends is where its rest ends.
EndRead(p, i) ==
  /\ EndOfName(p, i) \in Nat
  /\ IsEnd(p, i) => EndOfName(p, i) = i + 1
  /\ i < Len(p) /\ p[i + 1] >= 192 => EndOfName(p, i) = i + 2
  /\ IsLabel(p, i) => EndOfName(p, i) = EndOfName(p, i + 1 + p[i + 1])

\* The walk of EndOfName over a datagram.
LEMMA EndOfNameIs ==
  ASSUME NEW p \in Seq(Octet), NEW i \in Nat
  PROVE  EndRead(p, i)
<1> DEFINE L == Len(p)
           at(j) == p[j + 1]
           Turn(w, j) == IF j >= L THEN j
                         ELSE IF at(j) = 0 THEN j + 1
                         ELSE IF at(j) >= 192 THEN j + 2
                         ELSE w[j + 1 + at(j)]
           walk == CHOOSE w : w = [j \in Nat |-> Turn(w, j)]
           Goes(j) == j < L /\ at(j) # 0 /\ ~(at(j) >= 192)
<1>1. \A j : EndOfName(p, j) = walk[j]
  BY DEF EndOfName
<1>2. L \in Nat /\ \A j \in Nat : j < L => at(j) \in Nat
  <2>1. \A j \in Nat : j < L => at(j) \in Octet
    BY BytesAt
  <2>2. \A b \in Octet : b \in Nat
    BY DEF Octet
  <2> HIDE DEF at
  <2>3. QED
    BY <2>1, <2>2
<1>3. \A j : p[j + 1] = at(j)
  OBVIOUS
<1>4. L = Len(p)
  OBVIOUS
<1> HIDE DEF L, at
<1>5. \A j \in Nat : Goes(j) => j + 1 + at(j) \in Nat /\ j < j + 1 + at(j)
  BY <1>2
<1>6. \E w : w = [j \in Nat |-> Turn(w, j)]
  <2> DEFINE stop == {j \in Nat : ~Goes(j)}
             c    == [j \in Nat |-> IF j >= L THEN j
                                    ELSE IF at(j) = 0 THEN j + 1 ELSE j + 2]
             next == [j \in Nat |-> IF Goes(j) THEN j + 1 + at(j) ELSE j]
             g    == [j \in Nat |-> [v \in Nat |-> v]]
  <2>1. stop \in SUBSET Nat /\ c \in [Nat -> Nat] /\ g \in [Nat -> [Nat -> Nat]]
    OBVIOUS
  <2>2. next \in [Nat -> Nat]
    <3> HIDE DEF Goes
    <3>1. QED
      BY <1>5
  <2>3. \A j \in Nat : j \notin stop => j < L /\ j < next[j]
    BY <1>5
  <2>4. Upwards(Nat, L, stop, c, next, g)
    BY <1>2, <2>1, <2>2, <2>3 DEF Upwards
  <2> HIDE DEF stop, c, next, g
  <2>5. PICK f \in [Nat -> Nat] : SolvesUpwards(f, stop, c, next, g)
    BY <2>4, UpwardRecursion
  <2>6. ASSUME NEW j \in Nat
        PROVE  f[j] = Turn(f, j)
    <3>1. CASE Goes(j)
      <4>1. f[j] = f[next[j]]
        BY <2>2, <2>5, <3>1 DEF SolvesUpwards, stop, g
      <4>2. Turn(f, j) = f[next[j]]
        BY <1>2, <3>1 DEF next
      <4>3. QED
        BY <4>1, <4>2
    <3>2. CASE ~Goes(j)
      <4>1. f[j] = c[j]
        BY <2>5, <3>2 DEF SolvesUpwards, stop
      <4>2. c[j] = Turn(f, j)
        BY <1>2, <3>2 DEF c
      <4>3. QED
        BY <4>1, <4>2
    <3>3. QED
      BY <3>1, <3>2
  <2> HIDE DEF Turn
  <2>7. f = [j \in Nat |-> Turn(f, j)]
    BY <2>6
  <2>8. QED
    BY <2>7
<1>7. walk = [j \in Nat |-> Turn(walk, j)]
  <2> HIDE DEF Turn
  <2>1. QED
    BY <1>6
<1> HIDE DEF walk
<1>8. \A j \in Nat : walk[j] = Turn(walk, j)
  BY <1>7
<1>9. \A j \in Nat : walk[j] \in Nat
  <2> DEFINE S == {j \in Nat : walk[j] \in Nat}
  <2>1. \A j \in Nat : j >= L => j \in S
    BY <1>8
  <2>2. ASSUME NEW j \in Nat, \A k \in Nat : j < k => k \in S
        PROVE  j \in S
    <3>1. CASE Goes(j)
      <4>1. j + 1 + at(j) \in S
        BY <1>5, <2>2, <3>1
      <4>2. walk[j] = walk[j + 1 + at(j)]
        BY <1>2, <1>8, <3>1
      <4>3. QED
        BY <4>1, <4>2
    <3>2. CASE ~Goes(j)
      BY <1>2, <1>8, <3>2
    <3>3. QED
      BY <3>1, <3>2
  <2> HIDE DEF S
  <2>3. \A j \in Nat : j \in S
    BY <1>2, <2>1, <2>2, UpwardInduction
  <2>4. QED
    BY <2>3 DEF S
<1>10. walk[i] \in Nat /\ walk[i] = Turn(walk, i)
  BY <1>8, <1>9
<1>11. IsEnd(p, i) => walk[i] = i + 1
  BY <1>2, <1>10, <1>3, <1>4 DEF IsEnd
<1>12. i < Len(p) /\ p[i + 1] >= 192 => walk[i] = i + 2
  <2> SUFFICES ASSUME i < L, at(i) >= 192
               PROVE  walk[i] = i + 2
    BY <1>3, <1>4
  <2>1. at(i) # 0 /\ ~(i >= L)
    BY <1>2
  <2>2. QED
    BY <1>10, <2>1
<1>13. IsLabel(p, i) => walk[i] = walk[i + 1 + p[i + 1]]
  <2> SUFFICES ASSUME IsLabel(p, i)
               PROVE  walk[i] = walk[i + 1 + at(i)]
    BY <1>3
  <2>1. i < L /\ at(i) \in 1..DNS_MAX_LABEL_LEN
    BY <1>3, <1>4 DEF IsLabel
  <2>2. at(i) # 0 /\ ~(at(i) >= 192) /\ ~(i >= L)
    BY <1>2, <2>1, ParserLimits
  <2>3. QED
    BY <1>10, <2>2
<1>14. QED
  BY <1>1, <1>10, <1>11, <1>12, <1>13 DEF EndRead

-----------------------------------------------------------------------------
(* The text of a name. *)

\* f[k] is the text of the first k labels.
DottedUpTo(labels, f) ==
  /\ f \in [0..Len(labels) -> Texts]
  /\ f[0] = << >>
  /\ \A k \in 1..Len(labels) : f[k] = f[k - 1] \o labels[k] \o <<Dot>>

\* Text, label and dot are a text.
LEMMA OneMoreLabel ==
  ASSUME NEW text \in Texts, NEW label \in Texts
  PROVE  /\ text \o label \o <<Dot>> \in Texts
         /\ Len(text \o label \o <<Dot>>) = Len(text) + Len(label) + 1
         /\ (text \o label \o <<Dot>>)[Len(text) + Len(label) + 1] = Dot
<1>1. <<Dot>> \in Seq(Octet) /\ Len(<<Dot>>) = 1 /\ <<Dot>>[1] = Dot
  BY DEF Dot, Octet
<1>2. text \o label \in Seq(Octet) /\ Len(text \o label) = Len(text) + Len(label)
      /\ Len(text) \in Nat /\ Len(label) \in Nat
  BY DEF Texts
<1> DEFINE t == text \o label
           d == <<Dot>>
<1>3. t \in Seq(Octet) /\ d \in Seq(Octet) /\ Len(d) = 1 /\ d[1] = Dot /\ Len(t) \in Nat
  BY <1>1, <1>2
<1> HIDE DEF t, d
<1>4. t \o d \in Seq(Octet) /\ Len(t \o d) = Len(t) + 1 /\ (t \o d)[Len(t) + 1] = Dot
  <2>1. /\ t \o d \in Seq(Octet) /\ Len(t \o d) = Len(t) + Len(d)
        /\ \A i \in 1..Len(t) + Len(d) :
             (t \o d)[i] = IF i <= Len(t) THEN t[i] ELSE d[i - Len(t)]
    BY <1>3, ConcatProperties
  <2>2. Len(t) + 1 \in 1..Len(t) + Len(d) /\ ~(Len(t) + 1 <= Len(t)) /\ (Len(t) + 1) - Len(t) = 1
    BY <1>3
  <2>3. QED
    BY <1>3, <2>1, <2>2
<1>5. QED
  BY <1>2, <1>4 DEF t, d, Texts

\* Dotted puts a text together label by label.
LEMMA DottedIs ==
  ASSUME NEW labels \in LabelSeq
  PROVE  \E f : DottedUpTo(labels, f) /\ Dotted(labels) = f[Len(labels)]
<1> DEFINE n == Len(labels)
           Turn(w, k) == IF k = 0 THEN << >> ELSE w[k - 1] \o labels[k] \o <<Dot>>
           walk == CHOOSE w : w = [k \in 0..n |-> Turn(w, k)]
<1>1. Dotted(labels) = walk[n]
  BY DEF Dotted
<1>2. n \in Nat /\ \A k \in 1..n : labels[k] \in Texts
  BY DEF LabelSeq
<1>3. << >> \in Texts
  BY DEF Texts
<1>4. PICK f \in [0..n -> Texts] : f = [k \in 0..n |-> Turn(f, k)]
  <2> DEFINE g == [k \in 1..n |-> [v \in Texts |-> v \o labels[k] \o <<Dot>>]]
             c == << >>
  <2>1. g \in [1..n -> [Texts -> Texts]]
    BY <1>2, OneMoreLabel
  <2>2. c \in Texts
    BY <1>3
  <2> HIDE DEF n, g, c
  <2>3. PICK f \in [0..n -> Texts] : SolvesSteps(f, n, c, g)
    BY <1>2, <2>1, <2>2, StepRecursion
  <2>4. ASSUME NEW k \in 0..n
        PROVE  f[k] = Turn(f, k)
    <3>1. CASE k = 0
      BY <2>3, <3>1 DEF c, SolvesSteps
    <3>2. CASE k # 0
      <4>1. k \in 1..n /\ k - 1 \in 0..n
        BY <1>2, <3>2
      <4>2. f[k - 1] \in Texts /\ f[k] = g[k][f[k - 1]]
        BY <2>3, <4>1 DEF SolvesSteps
      <4>3. f[k] = f[k - 1] \o labels[k] \o <<Dot>>
        BY <4>1, <4>2 DEF g
      <4>4. QED
        BY <3>2, <4>3
    <3>3. QED
      BY <3>1, <3>2
  <2> HIDE DEF Turn
  <2>5. QED
    BY <2>4
<1>5. walk = [k \in 0..n |-> Turn(walk, k)]
  <2> HIDE DEF Turn, n
  <2>1. QED
    BY <1>4
<1> HIDE DEF walk, n
<1>6. \A k \in 0..n : walk[k] = Turn(walk, k)
  BY <1>5
<1>7. walk[0] = << >> /\ \A k \in 1..n : walk[k] = walk[k - 1] \o labels[k] \o <<Dot>>
  <2>1. 0 \in 0..n /\ \A k \in 1..n : k \in 0..n /\ k # 0
    BY <1>2
  <2>2. QED
    BY <1>6, <2>1
<1>8. \A k \in 0..n : walk[k] \in Texts
  <2> DEFINE S == {k \in Nat : k <= n => walk[k] \in Texts}
  <2>1. 0 \in S
    BY <1>3, <1>7
  <2>2. \A k \in Nat : k \in S => k + 1 \in S
    <3> SUFFICES ASSUME NEW k \in Nat, k \in S, k + 1 <= n
                 PROVE  walk[k + 1] \in Texts
      OBVIOUS
    <3>1. k + 1 \in 1..n /\ k <= n /\ (k + 1) - 1 = k
      BY <1>2
    <3>2. walk[k + 1] = walk[k] \o labels[k + 1] \o <<Dot>>
      BY <1>7, <3>1
    <3>3. QED
      BY <1>2, <3>1, <3>2, OneMoreLabel
  <2> HIDE DEF S
  <2>3. \A k \in Nat : k \in S
    BY <2>1, <2>2, SetInduction
  <2>4. QED
    BY <1>2, <2>3 DEF S
<1>9. walk \in [0..n -> Texts]
  BY <1>5, <1>8
<1>10. DottedUpTo(labels, walk)
  BY <1>7, <1>9 DEF DottedUpTo, n
<1>11. QED
  BY <1>1, <1>10 DEF n

\* The text of the first labels does not depend on those that follow.
LEMMA DottedSameFront ==
  ASSUME NEW a \in LabelSeq, NEW b \in LabelSeq, NEW f, NEW h,
         DottedUpTo(a, f), DottedUpTo(a \o b, h)
  PROVE  h[Len(a)] = f[Len(a)] /\ Len(a) \in 0..Len(a \o b)
<1>1. /\ Len(a) \in Nat /\ Len(b) \in Nat /\ Len(a \o b) = Len(a) + Len(b)
      /\ \A k \in 1..Len(a) : (a \o b)[k] = a[k]
  BY DEF LabelSeq
<1> DEFINE n == Len(a)
           S == {k \in Nat : k <= n => h[k] = f[k]}
<1>2. 0 \in S
  BY DEF DottedUpTo
<1>3. \A k \in Nat : k \in S => k + 1 \in S
  <2> SUFFICES ASSUME NEW k \in Nat, k \in S, k + 1 <= n
               PROVE  h[k + 1] = f[k + 1]
    OBVIOUS
  <2>1. k + 1 \in 1..n /\ k + 1 \in 1..Len(a \o b) /\ k <= n /\ (k + 1) - 1 = k
    BY <1>1
  <2>2. f[k + 1] = f[k] \o a[k + 1] \o <<Dot>>
    BY <2>1 DEF DottedUpTo
  <2>3. h[k + 1] = h[k] \o (a \o b)[k + 1] \o <<Dot>>
    BY <2>1 DEF DottedUpTo
  <2>4. (a \o b)[k + 1] = a[k + 1] /\ h[k] = f[k]
    BY <1>1, <2>1
  <2>5. QED
    BY <2>2, <2>3, <2>4
<1> HIDE DEF S
<1>4. n \in S
  BY <1>1, <1>2, <1>3, SetInduction
<1>5. QED
  BY <1>1, <1>4 DEF S

\* More labels make no shorter text.
LEMMA DottedGrowing ==
  ASSUME NEW labels \in LabelSeq, NEW f, DottedUpTo(labels, f), NEW m \in 0..Len(labels)
  PROVE  Len(f[m]) <= Len(f[Len(labels)])
<1> DEFINE n == Len(labels)
           S == {k \in Nat : m <= k /\ k <= n => Len(f[m]) <= Len(f[k])}
<1>1. n \in Nat /\ m \in Nat /\ m <= n
  BY DEF LabelSeq
<1>2. \A k \in 0..n : f[k] \in Texts /\ Len(f[k]) \in Nat
  <2>1. \A k \in 0..n : f[k] \in Texts
    BY DEF DottedUpTo
  <2>2. QED
    BY <2>1 DEF Texts
<1>3. 0 \in S
  BY <1>1, <1>2
<1>4. \A k \in Nat : k \in S => k + 1 \in S
  <2> SUFFICES ASSUME NEW k \in Nat, k \in S, m <= k + 1, k + 1 <= n
               PROVE  Len(f[m]) <= Len(f[k + 1])
    OBVIOUS
  <2>1. CASE m = k + 1
    BY <1>1, <1>2, <2>1
  <2>2. CASE m <= k
    <3>1. k + 1 \in 1..n /\ k \in 0..n /\ (k + 1) - 1 = k
      BY <1>1
    <3>2. f[k + 1] = f[k] \o labels[k + 1] \o <<Dot>>
      BY <3>1 DEF DottedUpTo
    <3>3. labels[k + 1] \in Texts /\ Len(labels[k + 1]) \in Nat
      <4>1. labels[k + 1] \in Texts
        BY <3>1 DEF LabelSeq
      <4>2. QED
        BY <4>1 DEF Texts
    <3>4. Len(f[k + 1]) = Len(f[k]) + Len(labels[k + 1]) + 1
      BY <1>2, <3>1, <3>2, <3>3, OneMoreLabel
    <3>5. Len(f[m]) <= Len(f[k])
      BY <2>2, <3>1
    <3>6. Len(f[m]) \in Nat /\ Len(f[k]) \in Nat
      BY <1>2, <3>1
    <3>7. \A x, y, z \in Nat : x <= y => x <= y + z + 1
      OBVIOUS
    <3>8. Len(f[m]) <= Len(f[k]) + Len(labels[k + 1]) + 1
      BY <3>3, <3>5, <3>6, <3>7
    <3>9. QED
      BY <3>4, <3>8
  <2>3. m = k + 1 \/ m <= k
    BY <1>1
  <2>4. QED
    BY <2>1, <2>2, <2>3
<1> HIDE DEF S
<1>5. n \in S
  BY <1>1, <1>3, <1>4, SetInduction
<1>6. QED
  BY <1>1, <1>5 DEF S

\* The text of a name, and its length when labels follow.
LEMMA DottedText ==
  ASSUME NEW labels \in LabelSeq, NEW more \in LabelSeq
  PROVE  /\ Dotted(labels) \in Texts
         /\ Len(Dotted(labels)) <= Len(Dotted(labels \o more))
<1>1. labels \o more \in LabelSeq
  BY ConcatProperties DEF LabelSeq
<1>2. PICK f : DottedUpTo(labels, f) /\ Dotted(labels) = f[Len(labels)]
  BY DottedIs
<1>3. PICK h : DottedUpTo(labels \o more, h) /\ Dotted(labels \o more) = h[Len(labels \o more)]
  BY <1>1, DottedIs
<1>4. Len(labels) \in 0..Len(labels)
  BY DEF LabelSeq
<1>5. Dotted(labels) \in Texts
  BY <1>2, <1>4 DEF DottedUpTo
<1>6. h[Len(labels)] = f[Len(labels)] /\ Len(labels) \in 0..Len(labels \o more)
  BY <1>2, <1>3, DottedSameFront
<1>7. Len(h[Len(labels)]) <= Len(h[Len(labels \o more)])
  BY <1>1, <1>3, <1>6, DottedGrowing
<1>8. QED
  BY <1>2, <1>3, <1>5, <1>6, <1>7

\* A label more is a text and a dot more.
LEMMA DottedAppend ==
  ASSUME NEW labels \in LabelSeq, NEW label \in Texts
  PROVE  /\ labels \o <<label>> \in LabelSeq
         /\ Dotted(labels \o <<label>>) = Dotted(labels) \o label \o <<Dot>>
<1> DEFINE one == <<label>>
           longer == labels \o one
<1>1. /\ one \in LabelSeq /\ longer \in LabelSeq /\ Len(longer) = Len(labels) + 1
      /\ longer[Len(labels) + 1] = label /\ Len(labels) \in Nat
  <2>1. one \in Seq(Texts) /\ Len(one) = 1 /\ one[1] = label
    OBVIOUS
  <2>2. labels \in Seq(Texts) /\ Len(labels) \in Nat
    BY DEF LabelSeq
  <2> HIDE DEF one, Texts
  <2>3. /\ longer \in Seq(Texts) /\ Len(longer) = Len(labels) + Len(one)
        /\ \A i \in 1..Len(labels) + Len(one) :
             longer[i] = IF i <= Len(labels) THEN labels[i] ELSE one[i - Len(labels)]
    BY <2>1, <2>2, ConcatProperties
  <2>4. Len(labels) + 1 \in 1..Len(labels) + Len(one) /\ ~(Len(labels) + 1 <= Len(labels))
        /\ (Len(labels) + 1) - Len(labels) = 1
    BY <2>1, <2>2
  <2>5. QED
    BY <2>1, <2>2, <2>3, <2>4 DEF LabelSeq
<1>2. PICK f : DottedUpTo(labels, f) /\ Dotted(labels) = f[Len(labels)]
  BY DottedIs
<1>3. PICK h : DottedUpTo(longer, h) /\ Dotted(longer) = h[Len(longer)]
  BY <1>1, DottedIs
<1>4. h[Len(labels)] = f[Len(labels)]
  BY <1>1, <1>2, <1>3, DottedSameFront
<1> HIDE DEF longer, one
<1>5. h[Len(longer)] = h[Len(longer) - 1] \o longer[Len(longer)] \o <<Dot>>
  <2>1. Len(longer) \in 1..Len(longer)
    BY <1>1
  <2>2. QED
    BY <1>3, <2>1 DEF DottedUpTo
<1>6. Len(longer) - 1 = Len(labels)
  BY <1>1
<1>7. Dotted(longer) = Dotted(labels) \o label \o <<Dot>>
  BY <1>1, <1>2, <1>3, <1>4, <1>5, <1>6
<1>8. QED
  BY <1>1, <1>7 DEF longer, one

\* No labels, no text; else the text ends in a dot.
LEMMA DottedEnds ==
  ASSUME NEW labels \in LabelSeq
  PROVE  /\ labels = << >> => Dotted(labels) = << >>
         /\ labels # << >> => /\ Dotted(labels) # << >>
                              /\ Dotted(labels)[Len(Dotted(labels))] = Dot
<1>1. PICK f : DottedUpTo(labels, f) /\ Dotted(labels) = f[Len(labels)]
  BY DottedIs
<1>2. CASE labels = << >>
  <2>1. Len(labels) = 0
    BY <1>2
  <2>2. QED
    BY <1>1, <1>2, <2>1 DEF DottedUpTo
<1>3. CASE labels # << >>
  <2> DEFINE n == Len(labels)
             front == f[n - 1]
             last == labels[n]
  <2>1. n \in Nat /\ n # 0
    BY <1>3 DEF LabelSeq
  <2>2. n \in 1..n /\ n - 1 \in 0..n
    BY <2>1
  <2>3. front \in Texts /\ last \in Texts /\ Dotted(labels) = front \o last \o <<Dot>>
    BY <1>1, <2>2 DEF DottedUpTo, LabelSeq
  <2>4. Len(front) \in Nat /\ Len(last) \in Nat
    BY <2>3 DEF Texts
  <2> HIDE DEF front, last, n
  <2>5. /\ Len(front \o last \o <<Dot>>) = Len(front) + Len(last) + 1
        /\ (front \o last \o <<Dot>>)[Len(front) + Len(last) + 1] = Dot
    BY <2>3, OneMoreLabel
  <2>6. Len(Dotted(labels)) # 0 /\ Dotted(labels)[Len(Dotted(labels))] = Dot
    BY <2>3, <2>4, <2>5
  <2>7. Dotted(labels) # << >>
    BY <2>6
  <2>8. QED
    BY <1>3, <2>6, <2>7
<1>4. QED
  BY <1>2, <1>3

\* A name that fits has a text.
LEMMA GoodNameType ==
  ASSUME NEW p \in Seq(Octet), NEW i \in Nat, GoodName(p, i)
  PROVE  NameAt(p, i) \in LabelSeq /\ CName(p, i) \in Texts
<1>1. MAX_COMPRESSION_JUMPS \in 0..MAX_COMPRESSION_JUMPS
  BY ParserLimits
<1>2. NameAt(p, i) \in MaybeLabels
  BY <1>1, LabelsAtIs DEF NameAt, LabelsRead
<1>3. NameAt(p, i) \in LabelSeq
  BY <1>2 DEF GoodName, MaybeLabels
<1>4. << >> \in LabelSeq
  BY DEF LabelSeq
<1>5. Dotted(NameAt(p, i)) \in Texts
  BY <1>3, <1>4, DottedText
<1> DEFINE text == Dotted(NameAt(p, i))
<1>6. text \in Seq(Octet)
  BY <1>5 DEF Texts
<1> HIDE DEF text
<1>7. Front1(text) \in Seq(Octet)
  <2>1. CASE text = << >>
    BY <1>6, <2>1 DEF Front1
  <2>2. CASE text # << >>
    <3>1. Len(text) \in Nat /\ Len(text) # 0
      BY <1>6, <2>2
    <3>2. SubSeq(text, 1, Len(text) - 1) \in Seq(Octet)
      BY <1>6, <3>1
    <3>3. QED
      BY <2>2, <3>2 DEF Front1
  <2>3. QED
    BY <2>1, <2>2
<1>8. strdup(Front1(text)) \in Seq(Octet)
  BY <1>7, StrdupType
<1>9. QED
  BY <1>3, <1>8 DEF CName, text, Texts

\* A complete question starts at i.
GoodQuestion(p, i) == GoodName(p, i) /\ EndOfName(p, i) + 4 <= Len(p)

\* What Names says of a place and a number of questions.
NamesRead(p, i, n) ==
  /\ Names(p, i, n) \in MaybeLabels
  /\ n = 0 => Names(p, i, n) = << >>
  /\ n # 0 /\ ~GoodQuestion(p, i) => Names(p, i, n) = Bad
  /\ n # 0 /\ GoodQuestion(p, i) =>
       Names(p, i, n) = Prepend(<<CName(p, i)>>, Names(p, EndOfName(p, i) + 4, n - 1))

\* The names of the questions are the first one's and those of the rest.
LEMMA NamesAre ==
  ASSUME NEW p \in Seq(Octet), NEW n \in Count, NEW i \in Nat
  PROVE  NamesRead(p, i, n)
<1> DEFINE M == MaxCount
           V == [Nat -> MaybeLabels]
           turn(v, j) == IF ~GoodName(p, j) \/ EndOfName(p, j) + 4 > Len(p) THEN Bad
                         ELSE Prepend(<<CName(p, j)>>, v[EndOfName(p, j) + 4])
           row(w, k) == [j \in Nat |->
                           IF k = 0 THEN << >>
                           ELSE IF ~GoodName(p, j) \/ EndOfName(p, j) + 4 > Len(p) THEN Bad
                           ELSE Prepend(<<CName(p, j)>>, w[k - 1][EndOfName(p, j) + 4])]
           names == CHOOSE w : w = [k \in Count |-> row(w, k)]
           c == [j \in Nat |-> << >>]
           made(v) == [j \in Nat |-> turn(v, j)]
<1>1. M \in Nat /\ Count = 0..M
  BY DEF MaxCount, Count
<1> HIDE DEF M
<1>2. \A m, j : Names(p, j, m) = names[m][j]
  BY DEF Names
<1>3. \A w : row(w, 0) = c
  OBVIOUS
<1>4. \A w, k : k # 0 => row(w, k) = made(w[k - 1])
  OBVIOUS
<1>5. c \in V
  BY DEF MaybeLabels, LabelSeq
<1>6. \A j \in Nat : EndOfName(p, j) \in Nat
  BY EndOfNameIs DEF EndRead
<1>7. ASSUME NEW v \in V
      PROVE  made(v) \in V
  <2>1. ASSUME NEW j \in Nat
        PROVE  turn(v, j) \in MaybeLabels
    <3>1. CASE ~GoodName(p, j) \/ EndOfName(p, j) + 4 > Len(p)
      BY <3>1 DEF MaybeLabels
    <3>2. CASE ~(~GoodName(p, j) \/ EndOfName(p, j) + 4 > Len(p))
      <4>1. <<CName(p, j)>> \in LabelSeq
        <5>1. CName(p, j) \in Texts
          BY <3>2, GoodNameType
        <5>2. QED
          BY <5>1 DEF LabelSeq
      <4>2. v[EndOfName(p, j) + 4] \in MaybeLabels
        <5>1. EndOfName(p, j) + 4 \in Nat
          BY <1>6
        <5>2. QED
          BY <5>1
      <4>3. QED
        BY <3>2, <4>1, <4>2, PrependType
    <3>3. QED
      BY <3>1, <3>2
  <2> HIDE DEF turn
  <2>2. QED
    BY <2>1
<1> HIDE DEF V, c, made, row
<1>8. \E w : w = [k \in Count |-> row(w, k)]
  <2> DEFINE g == [k \in 1..M |-> [v \in V |-> made(v)]]
  <2>1. g \in [1..M -> [V -> V]]
    BY <1>7
  <2> HIDE DEF g
  <2>2. PICK f \in [0..M -> V] : SolvesSteps(f, M, c, g)
    BY <1>5, <1>1, <2>1, StepRecursion
  <2>3. ASSUME NEW k \in Count
        PROVE  f[k] = row(f, k)
    <3>1. CASE k = 0
      BY <1>3, <2>2, <3>1 DEF SolvesSteps
    <3>2. CASE k # 0
      <4>1. k \in 1..M /\ k - 1 \in 0..M
        BY <1>1, <3>2
      <4>2. f[k - 1] \in V /\ f[k] = g[k][f[k - 1]]
        BY <2>2, <4>1 DEF SolvesSteps
      <4>3. f[k] = made(f[k - 1])
        BY <4>1, <4>2 DEF g
      <4>4. QED
        BY <1>4, <3>2, <4>3
    <3>3. QED
      BY <3>1, <3>2
  <2>4. f = [k \in Count |-> row(f, k)]
    BY <1>1, <2>3
  <2>5. QED
    BY <2>4
<1>9. names = [k \in Count |-> row(names, k)]
  BY <1>8
<1> HIDE DEF names
<1>10. \A k \in Count : names[k] = row(names, k)
  BY <1>9
<1>11. \A k \in Count : names[k] \in V
  <2> DEFINE S == {k \in Nat : k <= M => names[k] \in V}
  <2>1. 0 \in S
    <3>1. 0 \in Count
      BY <1>1
    <3>2. QED
      BY <1>3, <1>5, <1>10, <3>1
  <2>2. \A k \in Nat : k \in S => k + 1 \in S
    <3> SUFFICES ASSUME NEW k \in Nat, k \in S, k + 1 <= M
                 PROVE  names[k + 1] \in V
      OBVIOUS
    <3>1. k + 1 \in Count /\ k <= M /\ k + 1 # 0 /\ (k + 1) - 1 = k
      BY <1>1
    <3>2. names[k + 1] = made(names[k])
      BY <1>4, <1>10, <3>1
    <3>3. QED
      BY <1>7, <3>1, <3>2
  <2> HIDE DEF S
  <2>3. \A k \in Nat : k \in S
    BY <2>1, <2>2, SetInduction
  <2>4. QED
    BY <1>1, <2>3 DEF S
<1>12. n \in Nat
  BY <1>1
<1>13. names[n] \in V
  BY <1>11
<1>14. Names(p, i, n) \in MaybeLabels
  BY <1>2, <1>13 DEF V
<1>15. n = 0 => Names(p, i, n) = << >>
  <2> SUFFICES ASSUME n = 0
               PROVE  names[n][i] = << >>
    BY <1>2
  <2>1. names[n] = c
    BY <1>3, <1>10
  <2>2. QED
    BY <2>1 DEF c
<1>16. n # 0 => names[n][i] = turn(names[n - 1], i)
  <2> SUFFICES ASSUME n # 0
               PROVE  names[n][i] = turn(names[n - 1], i)
    OBVIOUS
  <2>1. names[n] = made(names[n - 1])
    BY <1>4, <1>10
  <2> HIDE DEF turn
  <2>2. QED
    BY <2>1 DEF made
<1>17. EndOfName(p, i) + 4 > Len(p) <=> ~(EndOfName(p, i) + 4 <= Len(p))
  <2>1. EndOfName(p, i) \in Nat /\ Len(p) \in Nat
    BY <1>6
  <2>2. QED
    BY <2>1
<1>18. n # 0 /\ ~GoodQuestion(p, i) => Names(p, i, n) = Bad
  BY <1>2, <1>16, <1>17 DEF GoodQuestion
<1>19. n # 0 /\ GoodQuestion(p, i) =>
         Names(p, i, n) = Prepend(<<CName(p, i)>>, Names(p, EndOfName(p, i) + 4, n - 1))
  BY <1>2, <1>16, <1>17 DEF GoodQuestion
<1>20. QED
  BY <1>14, <1>15, <1>18, <1>19 DEF NamesRead

-----------------------------------------------------------------------------
(* parse_dns_message accepts what is well-formed. *)

QNames == [k \in DOMAIN questions |-> questions[k].qname]

Announced == Names(packet, DNS_HEADER_SIZE, qdcount)

\* The announced names are those kept and those of the questions from i on.
RestAt(i) == Announced = Prepend(QNames, Names(packet, i, qdcount - Len(questions)))

\* What is left of the limit on pointers.
JumpsLeft == MAX_COMPRESSION_JUMPS - jump_count

\* In the name at start the labels read are followed by those at pos.
NameRead(start, read) ==
  /\ RestAt(start)
  /\ name = Dotted(read)
  /\ NameAt(packet, start) = Prepend(read, LabelsAt(packet, pos, JumpsLeft))
  /\ jumped => EndOfName(packet, start) = offset
  /\ ~jumped => EndOfName(packet, start) = EndOfName(packet, pos)

\* The name at start is read, its type and class come next.
NameDone(start) ==
  /\ RestAt(start)
  /\ GoodName(packet, start)
  /\ EndOfName(packet, start) = offset
  /\ name = Front1(Dotted(NameAt(packet, start)))

\* What the parser has read, by the rules of the wire format.
WireInv ==
  /\ ppc = "question" => RestAt(offset)
  /\ ppc = "name" => \E start \in Nat, read \in LabelSeq : NameRead(start, read)
  /\ ppc = "fields" => \E start \in Nat : NameDone(start)
  /\ ppc \in {"store", "ok"} => Announced = QNames
  /\ ppc = "fail" => len < DNS_HEADER_SIZE \/ Announced = Bad

\* The announced number of questions has two bytes; the names kept are texts.
LEMMA WireTypes ==
  ASSUME TypeOK
  PROVE  /\ packet \in Seq(Octet) /\ len = Len(packet) /\ len \in Nat
         /\ qdcount \in Count /\ qdcount \in Nat
         /\ Len(questions) \in Nat /\ QNames \in LabelSeq
         /\ Len(questions) <= qdcount => qdcount - Len(questions) \in Count
         /\ JumpsLeft \in 0..MAX_COMPRESSION_JUMPS
<1>1. packet \in Seq(Octet) /\ len = Len(packet) /\ len \in Nat
  BY LenType DEF TypeOK, len
<1>2. qdcount \in Nat /\ qdcount <= MaxCount
  <2> DEFINE a == Byte(4)
             b == Byte(5)
  <2>1. a \in Octet /\ b \in Octet
    BY ByteType
  <2>2. qdcount = 256 * a + b
    BY DEF qdcount, UInt16
  <2> HIDE DEF a, b
  <2>3. a \in Nat /\ b \in Nat /\ a <= 255 /\ b <= 255
    BY <2>1 DEF Octet
  <2>4. 256 * a + b \in Nat /\ 256 * a + b <= 256 * 255 + 255
    BY <2>3
  <2>5. QED
    BY <2>2, <2>4 DEF MaxCount
<1>3. MaxCount \in Nat
  BY DEF MaxCount
<1>4. Len(questions) \in Nat /\ QNames \in LabelSeq
  <2>1. questions \in Seq(Question)
    BY DEF TypeOK
  <2>2. Len(questions) \in Nat /\ DOMAIN questions = 1..Len(questions)
    BY <2>1
  <2>3. \A k \in 1..Len(questions) : questions[k].qname \in Texts
    <3>1. \A k \in 1..Len(questions) : questions[k] \in Question
      BY <2>1
    <3>2. \A q \in Question : q.qname \in Texts
      BY DEF Question, Texts
    <3>3. QED
      BY <3>1, <3>2
  <2> DEFINE n == Len(questions)
             at(k) == questions[k].qname
  <2>4. QNames = [k \in 1..n |-> at(k)] /\ n \in Nat /\ \A k \in 1..n : at(k) \in Texts
    BY <2>2, <2>3 DEF QNames
  <2> HIDE DEF n, at
  <2>5. QNames \in Seq(Texts)
    BY <2>4
  <2>6. QED
    BY <2>2, <2>5 DEF LabelSeq
<1>5. Len(questions) <= qdcount => qdcount - Len(questions) \in Count
  BY <1>2, <1>3, <1>4 DEF Count
<1>6. JumpsLeft \in 0..MAX_COMPRESSION_JUMPS
  BY ParserLimits DEF TypeOK, JumpsLeft
<1>7. QED
  BY <1>1, <1>2, <1>3, <1>4, <1>5, <1>6 DEF Count

\* Bytes of the datagram are those the parser reads.
LEMMA BytesOfPacket ==
  ASSUME TypeOK, NEW i \in Nat, i < len
  PROVE  Byte(i) = packet[i + 1] /\ Byte(i) \in Octet
BY ByteType DEF Byte

\* What parse_dns_name finds at pos is what the wire format has there.
LEMMA PlaceIs ==
  ASSUME TypeOK
  PROVE  /\ AtByte({0}) => IsEnd(packet, pos)
         /\ AtByte(LabelLength) /\ pos + 1 + Byte(pos) <= len => IsLabel(packet, pos)
         /\ AtByte(LabelLength) /\ ~(pos + 1 + Byte(pos) <= len) => IsBroken(packet, pos)
         /\ AtByte(Pointer) /\ Backwards => IsPointer(packet, pos)
                                            /\ PointsTo(packet, pos) = Target
         /\ AtByte(Pointer) /\ ~Backwards => IsBroken(packet, pos)
         /\ AtByte((DNS_MAX_LABEL_LEN + 1)..191) => IsBroken(packet, pos)
         /\ pos >= len => IsBroken(packet, pos)
<1>1. pos \in Nat /\ len = Len(packet) /\ len \in Nat
  BY WireTypes DEF TypeOK
<1>2. DNS_MAX_LABEL_LEN \in Nat /\ 1 <= DNS_MAX_LABEL_LEN /\ DNS_MAX_LABEL_LEN <= 63
  BY ParserLimits
<1>3. pos >= len => IsBroken(packet, pos)
  BY <1>1 DEF IsBroken, IsEnd, IsLabel, IsPointer
<1>4. ASSUME pos < len
      PROVE  /\ AtByte({0}) => IsEnd(packet, pos)
             /\ AtByte(LabelLength) /\ pos + 1 + Byte(pos) <= len => IsLabel(packet, pos)
             /\ AtByte(LabelLength) /\ ~(pos + 1 + Byte(pos) <= len) => IsBroken(packet, pos)
             /\ AtByte(Pointer) /\ Backwards => IsPointer(packet, pos)
                                                /\ PointsTo(packet, pos) = Target
             /\ AtByte(Pointer) /\ ~Backwards => IsBroken(packet, pos)
             /\ AtByte((DNS_MAX_LABEL_LEN + 1)..191) => IsBroken(packet, pos)
  <2> DEFINE b == packet[pos + 1]
  <2>1. Byte(pos) = b /\ b \in Octet
    BY <1>1, <1>4, BytesOfPacket
  <2>2. /\ IsEnd(packet, pos) <=> b = 0
        /\ IsLabel(packet, pos) <=> b \in 1..DNS_MAX_LABEL_LEN /\ pos + 1 + b <= len
        /\ IsPointer(packet, pos) <=> pos + 1 < len /\ b >= 192 /\ PointsTo(packet, pos) < pos
    BY <1>1, <1>4 DEF IsEnd, IsLabel, IsPointer
  <2>3. ASSUME pos + 1 < len, b >= 192
        PROVE  PointsTo(packet, pos) = Target
    <3> DEFINE c == packet[pos + 2]
    <3>1. Byte(pos + 1) = packet[(pos + 1) + 1] /\ Byte(pos + 1) \in Octet
      BY <1>1, <2>3, BytesOfPacket
    <3>2. (pos + 1) + 1 = pos + 2
      BY <1>1
    <3>3. Byte(pos + 1) = c /\ c \in Octet
      BY <3>1, <3>2
    <3>4. Target = (256 * b + c) % 16384 /\ PointsTo(packet, pos) = 256 * (b - 192) + c
      BY <2>1, <3>3 DEF Target, UInt16, PointsTo
    <3> HIDE DEF b, c
    <3>5. b \in Int /\ c \in Int /\ 192 <= b /\ b <= 255 /\ 0 <= c /\ c <= 255
      BY <2>1, <2>3, <3>3 DEF Octet
    <3>6. (256 * b + c) % 16384 = 256 * (b - 192) + c
      BY <3>5
    <3>7. QED
      BY <3>4, <3>6
  <2> HIDE DEF b
  <2>4. b \in Int /\ 0 <= b /\ b <= 255
    BY <2>1 DEF Octet
  <2>5. AtByte({0}) => b = 0
    BY <2>1 DEF AtByte
  <2>6. AtByte(LabelLength) => b \in 1..DNS_MAX_LABEL_LEN
    BY <2>1 DEF AtByte, LabelLength
  <2>7. AtByte(Pointer) => b >= 192
    BY <2>1, <2>4 DEF AtByte, Pointer
  <2>8. AtByte((DNS_MAX_LABEL_LEN + 1)..191) => DNS_MAX_LABEL_LEN < b /\ b <= 191
    BY <1>2, <2>1, <2>4 DEF AtByte
  <2>9. b >= 192 => (Backwards <=> pos + 1 < len /\ PointsTo(packet, pos) < pos)
    BY <2>3 DEF Backwards
  <2>10. Byte(pos) = b
    BY <2>1
  <2>11. AtByte(Pointer) /\ Backwards => PointsTo(packet, pos) = Target
    BY <2>3, <2>7 DEF Backwards
  <2> DEFINE back == Backwards
             to == PointsTo(packet, pos) < pos
             zero == AtByte({0})
             label == AtByte(LabelLength)
             pointer == AtByte(Pointer)
             other == AtByte((DNS_MAX_LABEL_LEN + 1)..191)
  <2>12. /\ zero => b = 0
         /\ label => b \in 1..DNS_MAX_LABEL_LEN
         /\ pointer => b >= 192
         /\ other => DNS_MAX_LABEL_LEN < b /\ b <= 191
         /\ b >= 192 => (back <=> pos + 1 < len /\ to)
         /\ IsPointer(packet, pos) <=> pos + 1 < len /\ b >= 192 /\ to
    BY <2>2, <2>5, <2>6, <2>7, <2>8, <2>9
  <2> HIDE DEF back, to, zero, label, pointer, other
  <2>13. /\ zero => IsEnd(packet, pos)
         /\ label /\ pos + 1 + b <= len => IsLabel(packet, pos)
         /\ label /\ ~(pos + 1 + b <= len) => IsBroken(packet, pos)
         /\ pointer /\ back => IsPointer(packet, pos)
         /\ pointer /\ ~back => IsBroken(packet, pos)
         /\ other => IsBroken(packet, pos)
    BY <1>1, <1>2, <2>2, <2>4, <2>12 DEF IsBroken
  <2>14. QED
    BY <2>10, <2>11, <2>13 DEF back, zero, label, pointer, other
<1>5. pos < len \/ pos >= len
  BY <1>1
<1>6. \A kind : AtByte(kind) => pos < len
  BY DEF AtByte
<1>7. QED
  BY <1>3, <1>4, <1>5, <1>6

\* Once the question at start cannot be completed, neither can the section.
LEMMA NoQuestionThere ==
  ASSUME TypeOK, NEW start \in Nat, RestAt(start), Len(questions) < qdcount,
         ~GoodQuestion(packet, start)
  PROVE  Announced = Bad
<1> DEFINE n == qdcount - Len(questions)
<1>1. packet \in Seq(Octet) /\ n \in Count /\ n # 0 /\ QNames \in LabelSeq
  BY WireTypes
<1>2. Names(packet, start, n) = Bad
  <2> HIDE DEF n
  <2>1. QED
    BY <1>1, NamesAre DEF NamesRead
<1>3. QED
  BY <1>2 DEF RestAt, Prepend

\* A name that is broken where the parser reads is none.
LEMMA BrokenName ==
  ASSUME TypeOK, Len(questions) < qdcount,
         NEW start \in Nat, NEW read \in LabelSeq, NameRead(start, read),
         LabelsAt(packet, pos, JumpsLeft) = Bad
  PROVE  Announced = Bad
<1>1. NameAt(packet, start) = Bad
  BY DEF NameRead, Prepend
<1>2. ~GoodQuestion(packet, start)
  BY <1>1 DEF GoodQuestion, GoodName
<1>3. RestAt(start)
  BY DEF NameRead
<1>4. QED
  BY <1>2, <1>3, NoQuestionThere

\* The same when the parser stops at a label that does not fit name.
LEMMA LongName ==
  ASSUME TypeOK, Len(questions) < qdcount,
         NEW start \in Nat, NEW read \in LabelSeq, NameRead(start, read),
         IsLabel(packet, pos), ~(Len(name) + Byte(pos) + 1 < name_len)
  PROVE  Announced = Bad
<1>1. pos \in Nat /\ packet \in Seq(Octet) /\ JumpsLeft \in 0..MAX_COMPRESSION_JUMPS
  BY WireTypes DEF TypeOK
<1> DEFINE label == LabelOf(packet, pos)
           rest == LabelsAt(packet, pos + 1 + packet[pos + 1], JumpsLeft)
           longer == read \o <<label>>
<1>2. pos + 1 + packet[pos + 1] \in Nat /\ label \in Texts /\ Len(label) = packet[pos + 1]
  BY <1>1, KindsOfPlaces
<1>3. rest \in MaybeLabels /\ LabelsAt(packet, pos, JumpsLeft) = Prepend(<<label>>, rest)
  BY <1>1, <1>2, LabelsAtIs DEF LabelsRead
<1>4. longer \in LabelSeq /\ Dotted(longer) = name \o label \o <<Dot>>
  BY <1>2, DottedAppend DEF NameRead
<1>5. Byte(pos) = packet[pos + 1]
  BY <1>1, WireTypes, BytesOfPacket DEF IsLabel
<1> HIDE DEF label, rest
<1>6. <<label>> \in LabelSeq
  BY <1>2 DEF LabelSeq
<1>7. NameAt(packet, start) = Prepend(longer, rest)
  BY <1>3, <1>6, PrependTwice DEF NameRead
<1>8. CASE rest = Bad
  <2>1. NameAt(packet, start) = Bad
    BY <1>7, <1>8 DEF Prepend
  <2>2. ~GoodQuestion(packet, start)
    BY <2>1 DEF GoodQuestion, GoodName
  <2>3. QED
    BY <2>2, NoQuestionThere DEF NameRead
<1>9. CASE rest # Bad
  <2> HIDE DEF longer
  <2>1. rest \in LabelSeq /\ NameAt(packet, start) = longer \o rest
    BY <1>3, <1>4, <1>7, <1>9, PrependType
  <2>2. Len(Dotted(longer)) <= Len(Dotted(longer \o rest)) /\ Dotted(longer \o rest) \in Texts
    <3>1. longer \o rest \in LabelSeq
      BY <1>4, <2>1, ConcatProperties DEF LabelSeq
    <3>2. QED
      BY <1>4, <2>1, <3>1, DottedText
  <2>3. name \in Texts /\ Len(name) \in Nat
    BY DEF TypeOK, Texts
  <2>4. Len(Dotted(longer)) = Len(name) + Len(label) + 1
    BY <1>2, <1>4, <2>3, OneMoreLabel
  <2>5. Len(name) + Len(label) + 1 > DNS_MAX_NAME_LEN
    <3>1. Byte(pos) = Len(label) /\ Len(label) \in Nat
      BY <1>2, <1>5 DEF Texts
    <3>2. QED
      BY <2>3, <3>1, ParserLimits DEF name_len
  <2>6. Len(label) \in Nat /\ Len(Dotted(longer \o rest)) \in Nat /\ DNS_MAX_NAME_LEN \in Nat
    BY <1>2, <2>2, ParserLimits DEF Texts
  <2>7. \A a, b, c, d, e \in Nat : a + b + 1 > c /\ a + b + 1 <= d => ~(d <= c)
    OBVIOUS
  <2>8. Len(name) + Len(label) + 1 <= Len(Dotted(longer \o rest))
    BY <2>2, <2>4
  <2>9. ~(Len(Dotted(longer \o rest)) <= DNS_MAX_NAME_LEN)
    BY <2>3, <2>5, <2>6, <2>7, <2>8
  <2>10. ~GoodQuestion(packet, start)
    BY <2>1, <2>9 DEF GoodQuestion, GoodName
  <2>11. QED
    BY <2>10, NoQuestionThere DEF NameRead
<1>10. QED
  BY <1>8, <1>9

\* A refusal is right when the announced questions are not there.
LEMMA RefusalIsRight ==
  ASSUME packet' = packet, ppc' = "fail", Announced = Bad
  PROVE  WireInv'
<1>1. Announced' = Announced
  BY DEF Announced, qdcount, UInt16, Byte, len
<1>2. QED
  BY <1>1 DEF WireInv

\* As long as the datagram and the kept questions stay, so does what is left.
LEMMA RestStays ==
  ASSUME packet' = packet, questions' = questions
  PROVE  /\ Announced' = Announced /\ QNames' = QNames
         /\ \A i : RestAt(i)' <=> RestAt(i)
<1>1. qdcount' = qdcount
  BY DEF qdcount, UInt16, Byte, len
<1>2. Announced' = Announced /\ QNames' = QNames
  BY <1>1 DEF Announced, QNames
<1>3. QED
  BY <1>1, <1>2 DEF RestAt

\* One turn of the loop of parse_dns_name reads on in the same name.
LEMMA NameStepReadsOn == IInv /\ WireInv /\ NameStep => WireInv'
<1> SUFFICES ASSUME IInv, WireInv, NameStep
             PROVE  WireInv'
  OBVIOUS
<1>1. /\ TypeOK /\ ppc = "name" /\ pos \in Nat /\ Len(questions) < qdcount
      /\ Len(name) <= DNS_MAX_NAME_LEN
  BY DEF IInv, TypeOK, Walking, NameStep, FollowPointer, BadPointer,
     BadLength, CopyLabel, BadLabel, EndName, RunsOff, AtByte
<1>2. PICK start \in Nat, read \in LabelSeq : NameRead(start, read)
  BY <1>1 DEF WireInv
<1>3. packet \in Seq(Octet) /\ JumpsLeft \in 0..MAX_COMPRESSION_JUMPS /\ JumpsLeft \in Int
  BY <1>1, WireTypes
<1>4. LabelsRead(packet, pos, JumpsLeft) /\ EndRead(packet, pos)
  BY <1>1, <1>3, LabelsAtIs, EndOfNameIs
<1>5. CASE BadPointer \/ BadLength \/ BadLabel \/ RunsOff
  <2>1. packet' = packet /\ ppc' = "fail"
    BY <1>5 DEF BadPointer, BadLength, BadLabel, RunsOff, Abandon
  <2>2. CASE IsBroken(packet, pos)
    <3>1. LabelsAt(packet, pos, JumpsLeft) = Bad
      BY <1>4, <2>2 DEF LabelsRead
    <3>2. QED
      BY <1>1, <1>2, <2>1, <3>1, BrokenName, RefusalIsRight
  <2>3. CASE BadPointer /\ Backwards
    <3>1. jump_count = MAX_COMPRESSION_JUMPS /\ IsPointer(packet, pos)
      BY <1>1, <2>3, PlaceIs DEF BadPointer
    <3>2. JumpsLeft = 0
      BY <3>1, ParserLimits DEF JumpsLeft
    <3>3. LabelsAt(packet, pos, JumpsLeft) = Bad
      BY <1>4, <3>1, <3>2 DEF LabelsRead
    <3>4. QED
      BY <1>1, <1>2, <2>1, <3>3, BrokenName, RefusalIsRight
  <2>4. CASE BadLabel /\ pos + 1 + Byte(pos) <= len
    <3>1. IsLabel(packet, pos) /\ ~(Len(name) + Byte(pos) + 1 < name_len)
      BY <1>1, <2>4, PlaceIs DEF BadLabel, Fits
    <3>2. QED
      BY <1>1, <1>2, <2>1, <3>1, LongName, RefusalIsRight
  <2>5. BadPointer /\ ~Backwards => IsBroken(packet, pos)
    BY <1>1, PlaceIs DEF BadPointer
  <2>6. BadLength \/ RunsOff => IsBroken(packet, pos)
    BY <1>1, PlaceIs DEF BadLength, RunsOff
  <2>7. BadLabel /\ ~(pos + 1 + Byte(pos) <= len) => IsBroken(packet, pos)
    BY <1>1, PlaceIs DEF BadLabel
  <2>8. QED
    BY <1>5, <2>2, <2>3, <2>4, <2>5, <2>6, <2>7
<1>6. CASE FollowPointer
  <2>1. /\ ppc' = ppc /\ packet' = packet /\ questions' = questions /\ name' = name
        /\ jump_count' = jump_count + 1 /\ pos' = Target /\ jumped' = TRUE
        /\ offset' = (IF jumped THEN offset ELSE pos + 2)
    BY <1>6 DEF FollowPointer, message
  <2>2. IsPointer(packet, pos) /\ PointsTo(packet, pos) = Target /\ pos < len
    BY <1>1, <1>6, PlaceIs DEF FollowPointer, AtByte
  <2>3. JumpsLeft > 0 /\ JumpsLeft' = JumpsLeft - 1
    BY <1>1, <1>6, <2>1, ParserLimits DEF JumpsLeft, FollowPointer, TypeOK
  <2>4. LabelsAt(packet, pos, JumpsLeft) = LabelsAt(packet, Target, JumpsLeft - 1)
    BY <1>4, <2>2, <2>3 DEF LabelsRead
  <2>5. EndOfName(packet, pos) = pos + 2
    BY <1>1, <1>4, <2>2, WireTypes DEF EndRead, IsPointer
  <2>6. NameRead(start, read)'
    <3>1. RestAt(start)'
      BY <1>2, <2>1, RestStays DEF NameRead
    <3>2. EndOfName(packet, start) = offset'
      BY <1>2, <2>1, <2>5 DEF NameRead
    <3>3. NameAt(packet, start) = Prepend(read, LabelsAt(packet, pos', JumpsLeft'))
      BY <1>2, <2>1, <2>3, <2>4 DEF NameRead
    <3>4. name' = Dotted(read)
      BY <1>2, <2>1 DEF NameRead
    <3>5. QED
      BY <2>1, <3>1, <3>2, <3>3, <3>4 DEF NameRead
  <2>7. QED
    BY <1>1, <2>1, <2>6 DEF WireInv
<1>7. CASE CopyLabel
  <2> DEFINE b == Byte(pos)
             label == LabelOf(packet, pos)
             next == pos + 1 + packet[pos + 1]
             rest == LabelsAt(packet, next, JumpsLeft)
  <2>1. /\ ppc' = ppc /\ packet' = packet /\ questions' = questions
        /\ jump_count' = jump_count /\ jumped' = jumped /\ offset' = offset
        /\ name' = name \o [k \in 1..b |-> Byte(pos + k)] \o <<Dot>>
        /\ pos' = pos + 1 + b /\ pos + 1 + b <= len /\ pos < len
    BY <1>7 DEF CopyLabel, message, Fits, AtByte
  <2>2. IsLabel(packet, pos) /\ b = packet[pos + 1] /\ b \in Nat
    <3>1. b = packet[pos + 1] /\ b \in Octet
      BY <1>1, <2>1, BytesOfPacket
    <3>2. IsLabel(packet, pos)
      BY <1>1, <1>7, <2>1, PlaceIs DEF CopyLabel
    <3>3. QED
      BY <3>1, <3>2 DEF Octet
  <2>3. next \in Nat /\ label \in Texts /\ Len(label) = b /\ pos' = next
    BY <1>1, <1>3, <2>1, <2>2, KindsOfPlaces
  <2>4. label = [k \in 1..b |-> Byte(pos + k)]
    <3> HIDE DEF b
    <3>1. label = SubSeq(packet, pos + 2, pos + 1 + b)
      BY <2>2 DEF LabelOf
    <3>2. \A k \in 1..b : label[k] = packet[pos + 2 + k - 1]
      <4>1. pos + 1 + b <= Len(packet) /\ Len(packet) \in Nat
        BY <1>1, <2>1, WireTypes DEF b
      <4>2. \A i \in (pos + 2)..(pos + 1 + b) : i \in 1..Len(packet)
        BY <1>1, <2>2, <4>1
      <4>3. \A i \in (pos + 2)..(pos + 1 + b) : packet[i] \in Octet
        BY <1>3, <4>2
      <4>4. pos + 2 \in Int /\ pos + 1 + b \in Int /\ (pos + 1 + b) - (pos + 2) + 1 = b
        BY <1>1, <2>2
      <4>5. \A k \in 1..((pos + 1 + b) - (pos + 2) + 1) :
              label[k] = packet[pos + 2 + k - 1]
        BY <3>1, <4>3, <4>4, SubSeqProperties
      <4>6. QED
        BY <4>4, <4>5
    <3>3. \A k \in 1..b : Byte(pos + k) = packet[pos + 2 + k - 1]
      <4> SUFFICES ASSUME NEW k \in 1..b
                   PROVE  Byte(pos + k) = packet[pos + 2 + k - 1]
        OBVIOUS
      <4>1. len \in Nat
        BY <1>1, WireTypes
      <4>2. pos + k \in Nat /\ pos + k < len /\ (pos + k) + 1 = pos + 2 + k - 1
        BY <1>1, <2>1, <2>2, <4>1 DEF b
      <4>3. QED
        BY <1>1, <4>2, BytesOfPacket
    <3>4. label \in Seq(Octet)
      BY <2>3 DEF Texts
    <3> HIDE DEF label
    <3>5. label = [k \in 1..b |-> label[k]]
      BY <2>2, <2>3, <3>4
    <3>6. QED
      BY <3>2, <3>3, <3>5
  <2> HIDE DEF b, label
  <2>5. name' = name \o label \o <<Dot>>
    BY <2>1, <2>4
  <2>6. rest \in MaybeLabels /\ LabelsAt(packet, pos, JumpsLeft) = Prepend(<<label>>, rest)
    BY <1>3, <1>4, <2>2, <2>3, LabelsAtIs DEF LabelsRead, label
  <2>7. PICK longer \in LabelSeq : /\ longer = read \o <<label>>
                                   /\ Dotted(longer) = Dotted(read) \o label \o <<Dot>>
    BY <2>3, DottedAppend
  <2>8. <<label>> \in LabelSeq
    BY <2>3 DEF LabelSeq
  <2> HIDE DEF rest
  <2>9. Prepend(read, LabelsAt(packet, pos, JumpsLeft)) = Prepend(longer, rest)
    BY <2>6, <2>7, <2>8, PrependTwice
  <2>10. EndOfName(packet, pos) = EndOfName(packet, next)
    BY <1>4, <2>2 DEF EndRead
  <2> HIDE DEF next
  <2>11. JumpsLeft' = JumpsLeft
    BY <2>1 DEF JumpsLeft
  <2>12. rest = LabelsAt(packet, pos', JumpsLeft')
    BY <2>3, <2>11 DEF rest
  <2>13. NameRead(start, longer)'
    <3>1. RestAt(start)'
      BY <1>2, <2>1, RestStays DEF NameRead
    <3>2. name' = Dotted(longer)
      BY <1>2, <2>5, <2>7 DEF NameRead
    <3>3. NameAt(packet, start) = Prepend(longer, LabelsAt(packet, pos', JumpsLeft'))
      BY <1>2, <2>9, <2>12 DEF NameRead
    <3>4. /\ jumped => EndOfName(packet, start) = offset
          /\ ~jumped => EndOfName(packet, start) = EndOfName(packet, pos')
      BY <1>2, <2>3, <2>10 DEF NameRead
    <3>5. QED
      BY <2>1, <3>1, <3>2, <3>3, <3>4 DEF NameRead
  <2>14. QED
    BY <1>1, <2>1, <2>7, <2>13 DEF WireInv
<1>8. CASE EndName
  <2>1. /\ ppc' = "fields" /\ packet' = packet /\ questions' = questions
        /\ offset' = (IF jumped THEN offset ELSE pos + 1)
        /\ name' = IF name # << >> /\ name[Len(name)] = Dot
                   THEN SubSeq(name, 1, Len(name) - 1) ELSE name
    BY <1>8 DEF EndName, message
  <2>2. IsEnd(packet, pos)
    BY <1>1, <1>8, PlaceIs DEF EndName
  <2>3. LabelsAt(packet, pos, JumpsLeft) = << >> /\ EndOfName(packet, pos) = pos + 1
    BY <1>4, <2>2 DEF LabelsRead, EndRead
  <2>4. NameAt(packet, start) = read /\ read # Bad
    <3>1. << >> \in LabelSeq /\ << >> # Bad /\ read # Bad
      <4>1. Bad \notin LabelSeq
        BY BadIsNone DEF LabelSeq, Texts
      <4>2. << >> \in LabelSeq
        BY DEF LabelSeq
      <4> HIDE DEF LabelSeq
      <4>3. QED
        BY <4>1, <4>2
    <3>2. Prepend(read, << >>) = read
      BY <3>1 DEF Prepend, LabelSeq
    <3>3. QED
      BY <1>2, <2>3, <3>1, <3>2 DEF NameRead
  <2>5. name = Dotted(read)
    BY <1>2 DEF NameRead
  <2>6. name' = Front1(Dotted(read))
    <3>1. CASE read = << >>
      BY <2>1, <2>5, <3>1, DottedEnds DEF Front1
    <3>2. CASE read # << >>
      BY <2>1, <2>5, <3>2, DottedEnds DEF Front1
    <3>3. QED
      BY <3>1, <3>2
  <2>7. NameDone(start)'
    <3>1. RestAt(start)'
      BY <1>2, <2>1, RestStays DEF NameRead
    <3>2. GoodName(packet, start)
      BY <1>1, <2>4, <2>5 DEF GoodName
    <3>3. EndOfName(packet, start) = offset'
      BY <1>2, <2>1, <2>3 DEF NameRead
    <3>4. name' = Front1(Dotted(NameAt(packet, start)))
      BY <2>4, <2>6
    <3>5. QED
      BY <2>1, <3>1, <3>2, <3>3, <3>4 DEF NameDone
  <2>8. QED
    BY <2>1, <2>7 DEF WireInv
<1>9. QED
  BY <1>5, <1>6, <1>7, <1>8 DEF NameStep

\* A kept question is the next one announced.
LEMMA KeepQuestionReadsOn == IInv /\ WireInv /\ KeepQuestion => WireInv'
<1> SUFFICES ASSUME IInv, WireInv, KeepQuestion
             PROVE  WireInv'
  OBVIOUS
<1> DEFINE q == [qname |-> strdup(name), qtype |-> UInt16(offset), qclass |-> UInt16(offset + 2)]
           n == qdcount - Len(questions)
           rest == Names(packet, offset + 4, n - 1)
<1>1. /\ TypeOK /\ ppc = "fields" /\ Len(questions) < qdcount /\ offset + 4 <= len
      /\ packet' = packet /\ questions' = Append(questions, q) /\ offset' = offset + 4
      /\ ppc' = IF Len(questions') = qdcount THEN "store" ELSE "question"
  BY DEF KeepQuestion, IInv, Walking
<1>2. /\ packet \in Seq(Octet) /\ len = Len(packet) /\ qdcount \in Nat /\ Len(questions) \in Nat
      /\ QNames \in LabelSeq /\ n \in Count /\ offset \in Nat /\ questions \in Seq(Question)
  BY <1>1, WireTypes DEF TypeOK
<1>3. PICK start \in Nat : NameDone(start)
  BY <1>1 DEF WireInv
<1>4. GoodQuestion(packet, start)
  BY <1>1, <1>2, <1>3 DEF NameDone, GoodQuestion
<1>5. CName(packet, start) = q.qname /\ q.qname = strdup(name) /\ q.qname \in Texts
  BY <1>2, <1>3, GoodNameType DEF NameDone, CName
<1>6. n \in Nat /\ n # 0 /\ n - 1 \in Count /\ n - 1 = qdcount - (Len(questions) + 1)
  <2>1. MaxCount \in Nat /\ Count = 0..MaxCount
    BY DEF MaxCount, Count
  <2>2. QED
    BY <1>1, <1>2, <2>1
<1> HIDE DEF q
<1>7. Names(packet, start, n) = Prepend(<<q.qname>>, rest)
  <2> HIDE DEF n
  <2>1. NamesRead(packet, start, n)
    BY <1>2, NamesAre
  <2>2. EndOfName(packet, start) = offset
    BY <1>3 DEF NameDone
  <2>3. QED
    BY <1>4, <1>5, <1>6, <2>1, <2>2 DEF NamesRead
<1>8. offset + 4 \in Nat
  BY <1>2
<1>9. NamesRead(packet, offset + 4, n - 1)
  BY <1>2, <1>6, <1>8, NamesAre
<1>10. rest \in MaybeLabels
  BY <1>9 DEF NamesRead
<1>11. QNames' = QNames \o <<q.qname>> /\ Len(questions') = Len(questions) + 1
  <2>1. Len(questions') = Len(questions) + 1 /\ DOMAIN questions' = 1..Len(questions) + 1
        /\ DOMAIN questions = 1..Len(questions)
    BY <1>1, <1>2
  <2>2. /\ \A k \in 1..Len(questions) : questions'[k] = questions[k]
        /\ questions'[Len(questions) + 1] = q
    BY <1>1, <1>2
  <2>3. Len(QNames) = Len(questions) /\ \A k \in 1..Len(questions) : QNames[k] = questions[k].qname
    BY <1>2, <2>1 DEF QNames
  <2> DEFINE one == <<q.qname>>
             m == Len(questions)
  <2>4. one \in LabelSeq /\ Len(one) = 1 /\ one[1] = q.qname
    BY <1>5 DEF LabelSeq
  <2> HIDE DEF one, m
  <2>5. /\ QNames \o one \in LabelSeq /\ Len(QNames \o one) = Len(QNames) + 1
        /\ \A k \in 1..Len(QNames) + 1 :
             (QNames \o one)[k] = IF k <= Len(QNames) THEN QNames[k] ELSE one[k - Len(QNames)]
    <3>1. QNames \in Seq(Texts) /\ one \in Seq(Texts)
      BY <1>2, <2>4 DEF LabelSeq
    <3> HIDE DEF LabelSeq, Texts
    <3>2. /\ QNames \o one \in Seq(Texts) /\ Len(QNames \o one) = Len(QNames) + Len(one)
          /\ \A k \in 1..Len(QNames) + Len(one) :
               (QNames \o one)[k] = IF k <= Len(QNames) THEN QNames[k] ELSE one[k - Len(QNames)]
      BY <3>1, ConcatProperties
    <3>3. QED
      BY <2>4, <3>2 DEF LabelSeq
  <2>6. QNames \o one = [k \in 1..m + 1 |-> (QNames \o one)[k]]
    <3> DEFINE all == QNames \o one
    <3>1. all \in Seq(Texts) /\ Len(all) = m + 1
      BY <2>3, <2>5 DEF LabelSeq, m
    <3> HIDE DEF all
    <3>2. all = [k \in 1..m + 1 |-> all[k]]
      BY <3>1
    <3>3. QED
      BY <3>2 DEF all
  <2>7. QNames' = [k \in 1..m + 1 |-> questions'[k].qname]
    BY <2>1 DEF QNames, m
  <2>8. ASSUME NEW k \in 1..m + 1
        PROVE  questions'[k].qname = (QNames \o one)[k]
    <3>1. m \in Nat /\ Len(QNames) = m
      BY <1>2, <2>3 DEF m
    <3>2. CASE k <= m
      <4>1. k \in 1..m
        BY <3>1, <3>2
      <4>2. questions'[k].qname = QNames[k]
        BY <2>2, <2>3, <4>1 DEF m
      <4>3. QED
        BY <2>5, <3>1, <3>2, <4>2
    <3>3. CASE ~(k <= m)
      <4>1. k = m + 1 /\ k - m = 1
        BY <3>1, <3>3
      <4>2. questions'[k].qname = q.qname
        BY <2>2, <4>1 DEF m
      <4>3. QED
        BY <2>4, <2>5, <3>1, <3>3, <4>1, <4>2
    <3>4. QED
      BY <3>2, <3>3
  <2>9. QNames' = QNames \o one
    BY <2>6, <2>7, <2>8
  <2>10. QED
    BY <2>1, <2>9 DEF one
<1>12. Announced = Prepend(QNames', rest)
  <2>1. <<q.qname>> \in LabelSeq
    BY <1>5 DEF LabelSeq
  <2> HIDE DEF rest
  <2>2. Prepend(QNames, Prepend(<<q.qname>>, rest)) = Prepend(QNames \o <<q.qname>>, rest)
    BY <1>2, <1>10, <2>1, PrependTwice
  <2>3. QED
    BY <1>3, <1>7, <1>11, <2>2 DEF NameDone, RestAt
<1>13. qdcount' = qdcount /\ Announced' = Announced
  BY <1>1 DEF qdcount, UInt16, Byte, len, Announced
<1>14. CASE Len(questions') = qdcount
  <2>1. n - 1 = 0
    BY <1>2, <1>6, <1>11, <1>14
  <2>2. rest = << >> /\ << >> \in LabelSeq /\ << >> # Bad
    <3>1. << >> \in LabelSeq /\ Bad \notin LabelSeq
      BY BadIsNone DEF LabelSeq, Texts
    <3>2. rest = << >>
      BY <1>9, <2>1 DEF NamesRead
    <3> HIDE DEF LabelSeq, rest
    <3>3. QED
      BY <3>1, <3>2
  <2>3. QNames' \in LabelSeq
    <3>1. <<q.qname>> \in LabelSeq
      BY <1>5 DEF LabelSeq
    <3>2. QED
      BY <1>2, <1>11, <3>1, ConcatProperties DEF LabelSeq
  <2> HIDE DEF rest
  <2>4. Announced' = QNames'
    BY <1>12, <1>13, <2>2, <2>3 DEF Prepend, LabelSeq
  <2>5. QED
    BY <1>1, <1>14, <2>4 DEF WireInv
<1>15. CASE Len(questions') # qdcount
  <2>1. RestAt(offset)'
    BY <1>1, <1>6, <1>11, <1>12, <1>13 DEF RestAt
  <2>2. QED
    BY <1>1, <1>15, <2>1 DEF WireInv
<1>16. QED
  BY <1>14, <1>15

\* What the parser has read is kept by each of its steps.
LEMMA ParsingReadsOn == IInv /\ WireInv /\ Parsing => WireInv'
<1> SUFFICES ASSUME IInv, WireInv, Parsing
             PROVE  WireInv'
  OBVIOUS
<1>1. TypeOK
  BY DEF IInv
<1>2. /\ packet \in Seq(Octet) /\ len = Len(packet) /\ len \in Nat
      /\ qdcount \in Nat /\ qdcount \in Count /\ Len(questions) \in Nat /\ QNames \in LabelSeq
      /\ DNS_HEADER_SIZE \in Nat
  BY <1>1, WireTypes, ParserLimits
<1>3. CASE TooShort
  <2>1. ppc' = "fail" /\ packet' = packet /\ len < DNS_HEADER_SIZE
    BY <1>3 DEF TooShort
  <2>2. QED
    BY <2>1 DEF WireInv, len
<1>4. ASSUME ppc = "header"
      PROVE  /\ questions = << >> /\ QNames = << >> /\ Len(questions) = 0
             /\ \A i \in Nat :
                  Prepend(QNames, Names(packet, i, qdcount)) = Names(packet, i, qdcount)
  <2>1. questions = << >> /\ Len(questions) = 0
    BY <1>4 DEF IInv, OwnershipIsClear
  <2>2. QNames = << >>
    BY <2>1 DEF QNames
  <2>3. \A i \in Nat : Names(packet, i, qdcount) \in MaybeLabels
    BY <1>2, NamesAre DEF NamesRead
  <2>4. QED
    BY <2>1, <2>2, <2>3, PrependNothing
<1>5. CASE HeaderOnly
  <2>1. ppc = "header" /\ ppc' = "store" /\ packet' = packet /\ questions' = questions
        /\ qdcount = 0
    BY <1>5 DEF HeaderOnly, message
  <2>2. Announced = QNames
    BY <1>2, <1>4, <2>1, NamesAre DEF NamesRead, Announced
  <2>3. QED
    BY <2>1, <2>2, RestStays DEF WireInv
<1>6. CASE HasQuestions
  <2>1. ppc = "header" /\ packet' = packet /\ questions' = questions
        /\ (ppc' = "nomem" \/ (ppc' = "question" /\ offset' = DNS_HEADER_SIZE))
    BY <1>6 DEF HasQuestions
  <2>2. RestAt(DNS_HEADER_SIZE)
    <3>1. qdcount - Len(questions) = qdcount
      BY <1>2, <1>4, <2>1
    <3>2. QED
      BY <1>2, <1>4, <2>1, <3>1 DEF RestAt, Announced
  <2>3. RestAt(DNS_HEADER_SIZE)'
    BY <2>1, <2>2, RestStays
  <2>4. ppc' = "question" => RestAt(offset)'
    BY <2>1, <2>3 DEF RestAt
  <2>5. QED
    BY <2>1, <2>4 DEF WireInv
<1>7. CASE BeginName
  <2>1. /\ ppc = "question" /\ ppc' = "name" /\ packet' = packet /\ questions' = questions
        /\ offset \in Nat /\ offset' = offset /\ pos' = offset /\ name' = << >>
        /\ jump_count' = 0 /\ jumped' = FALSE
    BY <1>1, <1>7 DEF BeginName, message, TypeOK
  <2>2. PICK start \in Nat : start = offset
    BY <2>1
  <2>3. PICK read \in LabelSeq : read = << >>
    <3>1. << >> \in LabelSeq
      BY DEF LabelSeq
    <3>2. QED
      BY <3>1
  <2>4. JumpsLeft' = MAX_COMPRESSION_JUMPS
        /\ MAX_COMPRESSION_JUMPS \in 0..MAX_COMPRESSION_JUMPS
    BY <2>1, ParserLimits DEF JumpsLeft
  <2>5. NameAt(packet, start) = Prepend(read, LabelsAt(packet, pos', JumpsLeft'))
    <3>1. NameAt(packet, start) = LabelsAt(packet, pos', JumpsLeft')
      BY <2>1, <2>2, <2>4 DEF NameAt
    <3>2. NameAt(packet, start) \in MaybeLabels
      BY <1>2, <2>4, LabelsAtIs DEF NameAt, LabelsRead
    <3>3. QED
      BY <2>3, <3>1, <3>2, PrependNothing
  <2>6. name' = Dotted(read)
    BY <2>1, <2>3, DottedEnds
  <2>7. RestAt(start)'
    <3>1. RestAt(start)
      BY <2>1, <2>2 DEF WireInv
    <3>2. QED
      BY <2>1, <3>1, RestStays
  <2>8. NameRead(start, read)'
    BY <2>1, <2>2, <2>5, <2>6, <2>7 DEF NameRead
  <2>9. QED
    BY <2>1, <2>8 DEF WireInv
<1>8. CASE NoRoomForName
  <2>1. /\ ppc = "question" /\ ppc' = "fail" /\ packet' = packet /\ offset \in Nat
        /\ Len(questions) < qdcount /\ offset >= len
    BY <1>1, <1>8 DEF NoRoomForName, Abandon, TypeOK
  <2>2. IsBroken(packet, offset)
    BY <1>2, <2>1 DEF IsBroken, IsEnd, IsLabel, IsPointer
  <2>3. NameAt(packet, offset) = Bad
    <3>1. MAX_COMPRESSION_JUMPS \in 0..MAX_COMPRESSION_JUMPS
      BY ParserLimits
    <3>2. QED
      BY <1>2, <2>1, <2>2, <3>1, LabelsAtIs DEF LabelsRead, NameAt
  <2>4. ~GoodQuestion(packet, offset)
    BY <2>3 DEF GoodQuestion, GoodName
  <2>5. RestAt(offset)
    BY <2>1 DEF WireInv
  <2>6. QED
    BY <1>1, <2>1, <2>4, <2>5, NoQuestionThere, RefusalIsRight
<1>9. CASE NameStep
  BY <1>9, NameStepReadsOn
<1>10. CASE KeepQuestion
  BY <1>10, KeepQuestionReadsOn
<1>11. CASE NoRoomForFields
  <2>1. /\ ppc = "fields" /\ ppc' = "fail" /\ packet' = packet /\ offset \in Nat
        /\ Len(questions) < qdcount /\ offset + 4 > len
    BY <1>1, <1>11 DEF NoRoomForFields, Abandon, TypeOK, IInv, Walking
  <2>2. PICK start \in Nat : NameDone(start)
    BY <2>1 DEF WireInv
  <2>3. ~GoodQuestion(packet, start)
    BY <1>2, <2>1, <2>2 DEF NameDone, GoodQuestion
  <2>4. RestAt(start)
    BY <2>2 DEF NameDone
  <2>5. QED
    BY <1>1, <2>1, <2>3, <2>4, NoQuestionThere, RefusalIsRight
<1>12. CASE NoMemoryForName \/ NoMemoryForRaw
  <2>1. ppc' = "nomem"
    BY <1>12 DEF NoMemoryForName, NoMemoryForRaw, Abandon
  <2>2. QED
    BY <2>1 DEF WireInv
<1>13. CASE StoreRaw
  <2>1. ppc = "store" /\ ppc' = "ok" /\ packet' = packet /\ questions' = questions
    BY <1>13 DEF StoreRaw
  <2>2. QED
    BY <2>1, RestStays DEF WireInv
<1>14. QED
  BY <1>3, <1>5, <1>6, <1>7, <1>8, <1>9, <1>10, <1>11, <1>12, <1>13 DEF Parsing

\* What the parser has read is so under each of its callers.
LEMMA WireInvariant == HandleSpec => []WireInv
<1>1. HandleInit => WireInv
  BY DEF HandleInit, Init, WireInv
<1>2. HandleInv /\ WireInv /\ [HandleNext]_handleVars => WireInv'
  <2> SUFFICES ASSUME HandleInv, WireInv, [HandleNext]_handleVars
               PROVE  WireInv'
    OBVIOUS
  <2>1. CASE Arrival
    <3>1. ppc' = "header"
      BY <2>1 DEF Arrival, Receive, dns_parse_query, dns_build_error_response, EncodeAndParse,
         Call, parse_dns_message
    <3>2. QED
      BY <3>1 DEF WireInv
  <2>2. CASE ParserRuns
    BY <2>2, ParsingReadsOn DEF ParserRuns, HandleInv
  <2>3. CASE Decision \/ UNCHANGED handleVars
    <3>1. UNCHANGED vars
      BY <2>3 DEF Decision, ParseFailed, NoQuestion, UnsupportedType, BlockedDomain,
         AllowedDomain, ReturnQuestion, ReturnErrorResponse, handleVars
    <3>2. /\ ppc' = ppc /\ packet' = packet /\ questions' = questions /\ offset' = offset
          /\ pos' = pos /\ name' = name /\ jump_count' = jump_count /\ jumped' = jumped
      BY <3>1 DEF vars, cursor, message
    <3>3. JumpsLeft' = JumpsLeft
      BY <3>2 DEF JumpsLeft
    <3>4. \A start, read : NameRead(start, read)' <=> NameRead(start, read)
      BY <3>2, <3>3, RestStays DEF NameRead
    <3>5. \A start : NameDone(start)' <=> NameDone(start)
      BY <3>2, RestStays DEF NameDone
    <3>6. RestAt(offset)' <=> RestAt(offset)
      BY <3>2, RestStays DEF RestAt, Announced, QNames, qdcount, UInt16, Byte, len
    <3>7. Announced' = Announced /\ QNames' = QNames /\ len' = len
      BY <3>2, RestStays DEF len
    <3>8. QED
      BY <3>2, <3>4, <3>5, <3>6, <3>7 DEF WireInv
  <2>4. CASE Finish
    <3>1. ppc' = "idle"
      BY <2>4 DEF Finish, free_dns_message
    <3>2. QED
      BY <3>1 DEF WireInv
  <2>5. QED
    BY <2>1, <2>2, <2>3, <2>4 DEF HandleNext
<1>3. QED
  BY <1>1, <1>2, HandleInvariant, PTL DEF HandleSpec

\* parse_dns_message accepts a datagram exactly when its header is complete and
\* the announced questions are all there, names and pointers followed by the
\* rules of the wire format, and hands out their names as C strings: for every
\* datagram, every limit on labels, names and pointers.
THEOREM ParserAcceptsExactly == HandleSpec => []AcceptsExactlyWellFormed
<1>1. WireInv => AcceptsExactlyWellFormed
  BY DEF WireInv, AcceptsExactlyWellFormed, Announced, QNames
<1>2. QED
  BY <1>1, WireInvariant, PTL

-----------------------------------------------------------------------------
(* The reply carries the question. *)

\* How the walk goes on from the places of the wire format.
LEMMA WalkIs ==
  ASSUME TypeOK, NEW walk, Walks(walk), NEW i \in Nat
  PROVE  /\ IsEnd(packet, i) => walk[i] = i + 5
         /\ IsLabel(packet, i) => walk[i] = walk[i + 1 + packet[i + 1]]
         /\ IsPointer(packet, i) => walk[i] = 0
<1>1. /\ packet \in Seq(Octet) /\ len = Len(packet) /\ len \in Nat
      /\ DNS_MAX_LABEL_LEN \in Nat /\ DNS_MAX_LABEL_LEN <= 63
  BY WireTypes, ParserLimits
<1>2. CASE i < len
  <2> DEFINE b == packet[i + 1]
  <2>1. Byte(i) = b /\ b \in Octet
    BY <1>2, BytesOfPacket
  <2>2. /\ IsEnd(packet, i) <=> b = 0
        /\ IsLabel(packet, i) => b \in 1..DNS_MAX_LABEL_LEN
        /\ IsPointer(packet, i) => b >= 192
    BY <1>1, <1>2 DEF IsEnd, IsLabel, IsPointer
  <2> HIDE DEF b
  <2>3. b \in Nat
    BY <2>1 DEF Octet
  <2>4. walk[i] = IF b = 0 THEN i + 5 ELSE IF b >= 64 THEN 0 ELSE walk[i + b + 1]
    <3>1. walk[i] = IF i >= len THEN 0
                    ELSE IF Byte(i) = 0 THEN i + 5
                    ELSE IF Byte(i) >= 64 THEN 0
                    ELSE walk[i + Byte(i) + 1]
      BY DEF Walks
    <3>2. ~(i >= len)
      BY <1>1, <1>2
    <3>3. QED
      BY <2>1, <3>1, <3>2
  <2>5. i + b + 1 = i + 1 + b
    BY <2>3
  <2>6. b \in 1..DNS_MAX_LABEL_LEN => b # 0 /\ ~(b >= 64)
    BY <1>1, <2>3
  <2>7. b >= 192 => b # 0 /\ b >= 64
    BY <2>3
  <2>8. /\ IsEnd(packet, i) => walk[i] = i + 5
        /\ IsLabel(packet, i) => walk[i] = walk[i + 1 + b]
        /\ IsPointer(packet, i) => walk[i] = 0
    BY <2>2, <2>4, <2>5, <2>6, <2>7
  <2>9. QED
    BY <2>8 DEF b
<1>3. CASE ~(i < len)
  BY <1>1, <1>3 DEF IsEnd, IsLabel, IsPointer
<1>4. QED
  BY <1>2, <1>3

\* r has the bytes of the datagram from a up to b.
SameBytes(r, a, b) ==
  /\ r \in Seq(Octet) /\ b <= Len(r)
  /\ \A k \in Nat : a <= k /\ k < b => r[k + 1] = packet[k + 1]

\* The name at i is in place, the walk ends behind it and its question, and it
\* reads the same wherever its bytes are the same.
InPlace(walk, i) ==
  /\ walk[i] = EndOfName(packet, i) + 4
  /\ i < EndOfName(packet, i) /\ EndOfName(packet, i) <= len
  /\ \A r : SameBytes(r, i, EndOfName(packet, i)) =>
       NameAt(r, i) = NameAt(packet, i) /\ EndOfName(r, i) = EndOfName(packet, i)

\* The end of a name.
LEMMA InPlaceEnd ==
  ASSUME TypeOK, NEW walk, Walks(walk), NEW i \in Nat, IsEnd(packet, i)
  PROVE  InPlace(walk, i)
<1>1. packet \in Seq(Octet) /\ len = Len(packet) /\ len \in Nat
  BY WireTypes
<1>2. walk[i] = i + 5
  BY WalkIs
<1>3. EndOfName(packet, i) = i + 1
  BY <1>1, EndOfNameIs DEF EndRead
<1>4. MAX_COMPRESSION_JUMPS \in 0..MAX_COMPRESSION_JUMPS
  BY ParserLimits
<1>5. ASSUME NEW r, SameBytes(r, i, i + 1)
      PROVE  NameAt(r, i) = NameAt(packet, i) /\ EndOfName(r, i) = EndOfName(packet, i)
  <2>1. r \in Seq(Octet) /\ i < Len(r) /\ r[i + 1] = packet[i + 1]
    BY <1>5 DEF SameBytes
  <2>2. IsEnd(r, i)
    BY <2>1 DEF IsEnd
  <2>3. NameAt(r, i) = << >> /\ EndOfName(r, i) = i + 1
    BY <1>4, <2>1, <2>2, LabelsAtIs, EndOfNameIs DEF NameAt, LabelsRead, EndRead
  <2>4. NameAt(packet, i) = << >>
    BY <1>1, <1>4, LabelsAtIs DEF NameAt, LabelsRead
  <2>5. QED
    BY <1>3, <2>3, <2>4
<1>6. i < len
  BY <1>1 DEF IsEnd
<1>7. QED
  BY <1>1, <1>2, <1>3, <1>5, <1>6 DEF InPlace

\* A label before a name in place.
LEMMA InPlaceLabel ==
  ASSUME TypeOK, NEW walk, Walks(walk), NEW i \in Nat, IsLabel(packet, i),
         InPlace(walk, i + 1 + packet[i + 1])
  PROVE  InPlace(walk, i)
<1> DEFINE b == packet[i + 1]
           next == i + 1 + b
           end == EndOfName(packet, i)
<1>1. packet \in Seq(Octet) /\ len = Len(packet) /\ len \in Nat
  BY WireTypes
<1>2. i < len /\ next \in Nat /\ b \in Nat /\ 1 <= b /\ b <= DNS_MAX_LABEL_LEN
  <2>1. next \in Nat /\ i < len /\ b \in 1..DNS_MAX_LABEL_LEN
    BY <1>1, KindsOfPlaces DEF IsLabel
  <2>2. DNS_MAX_LABEL_LEN \in Nat
    BY ParserLimits
  <2> HIDE DEF b, next
  <2>3. QED
    BY <2>1, <2>2
<1>3. walk[i] = walk[next]
  BY WalkIs
<1>4. end = EndOfName(packet, next) /\ end \in Nat
  BY <1>1, EndOfNameIs DEF EndRead
<1>5. MAX_COMPRESSION_JUMPS \in 0..MAX_COMPRESSION_JUMPS
  BY ParserLimits
<1>6. /\ walk[next] = end + 4 /\ next < end /\ end <= len
      /\ \A r : SameBytes(r, next, end) =>
           NameAt(r, next) = NameAt(packet, next) /\ EndOfName(r, next) = EndOfName(packet, next)
  BY <1>4 DEF InPlace
<1>7. NameAt(packet, i) = Prepend(<<LabelOf(packet, i)>>, NameAt(packet, next))
  BY <1>1, <1>5, LabelsAtIs DEF NameAt, LabelsRead
<1>8. ASSUME NEW r, SameBytes(r, i, end)
      PROVE  NameAt(r, i) = NameAt(packet, i) /\ EndOfName(r, i) = EndOfName(packet, i)
  <2>1. /\ r \in Seq(Octet) /\ end <= Len(r) /\ Len(r) \in Nat
        /\ \A k \in Nat : i <= k /\ k < end => r[k + 1] = packet[k + 1]
    BY <1>8 DEF SameBytes
  <2> HIDE DEF end
  <2>2. i < end /\ next <= Len(r) /\ i < Len(r) /\ i <= next
    <3> HIDE DEF b
    <3>1. i < next
      BY <1>2
    <3> HIDE DEF next
    <3>2. QED
      BY <1>2, <1>4, <1>6, <2>1, <3>1
  <2>3. r[i + 1] = b
    BY <1>2, <2>1, <2>2
  <2>4. IsLabel(r, i)
    <3>1. b \in 1..DNS_MAX_LABEL_LEN
      BY DEF IsLabel
    <3>2. QED
      BY <2>2, <2>3, <3>1 DEF IsLabel
  <2>5. LabelOf(r, i) = LabelOf(packet, i)
    <3>1. LabelOf(r, i) = SubSeq(r, i + 2, i + 1 + b)
      BY <2>3 DEF LabelOf
    <3>2. LabelOf(packet, i) = SubSeq(packet, i + 2, i + 1 + b)
      BY DEF LabelOf
    <3>3. i + 1 + b < end
      BY <1>6
    <3> HIDE DEF b, next
    <3>4. \A j \in (i + 2)..(i + 1 + b) : r[j] = packet[j] /\ r[j] \in Octet
      <4> SUFFICES ASSUME NEW j \in (i + 2)..(i + 1 + b)
                   PROVE  r[j] = packet[j] /\ r[j] \in Octet
        OBVIOUS
      <4>1. j - 1 \in Nat /\ i <= j - 1 /\ j - 1 < end /\ (j - 1) + 1 = j /\ j \in 1..Len(r)
        BY <1>2, <1>4, <2>1, <3>3
      <4>2. r[(j - 1) + 1] = packet[(j - 1) + 1]
        BY <2>1, <4>1
      <4>3. QED
        BY <2>1, <4>1, <4>2
    <3> DEFINE one == SubSeq(r, i + 2, i + 1 + b)
               two == SubSeq(packet, i + 2, i + 1 + b)
               m == (i + 1 + b) - (i + 2) + 1
    <3>5. i + 2 \in Int /\ i + 1 + b \in Int
      BY <1>2
    <3>6. /\ one \in Seq(Octet)
          /\ Len(one) = IF i + 2 <= i + 1 + b THEN m ELSE 0
          /\ \A k \in 1..m : one[k] = r[i + 2 + k - 1]
      BY <3>4, <3>5, SubSeqProperties
    <3>7. \A j \in (i + 2)..(i + 1 + b) : packet[j] \in Octet
      BY <3>4
    <3>8. /\ two \in Seq(Octet)
          /\ Len(two) = IF i + 2 <= i + 1 + b THEN m ELSE 0
          /\ \A k \in 1..m : two[k] = packet[i + 2 + k - 1]
      BY <3>5, <3>7, SubSeqProperties
    <3> HIDE DEF one, two
    <3>9. m = b /\ i + 2 <= i + 1 + b
      BY <1>2
    <3>10. Len(one) = b /\ Len(two) = b
      BY <3>6, <3>8, <3>9
    <3>11. \A k \in 1..b : one[k] = two[k]
      <4> SUFFICES ASSUME NEW k \in 1..b
                   PROVE  one[k] = two[k]
        OBVIOUS
      <4>1. i + 2 + k - 1 \in (i + 2)..(i + 1 + b)
        BY <1>2
      <4>2. QED
        BY <3>4, <3>6, <3>8, <3>9, <4>1
    <3>12. one = two
      BY <3>6, <3>8, <3>10, <3>11, SeqEqual
    <3>13. QED
      BY <3>1, <3>2, <3>12 DEF one, two
  <2>6. SameBytes(r, next, end)
    BY <1>2, <2>1, <2>2 DEF SameBytes
  <2>7. NameAt(r, next) = NameAt(packet, next) /\ EndOfName(r, next) = EndOfName(packet, next)
    BY <1>6, <2>6
  <2>8. NameAt(r, i) = Prepend(<<LabelOf(r, i)>>, NameAt(r, next))
    BY <1>5, <2>1, <2>3, <2>4, LabelsAtIs DEF NameAt, LabelsRead
  <2>9. EndOfName(r, i) = EndOfName(r, next)
    BY <2>1, <2>3, <2>4, EndOfNameIs DEF EndRead
  <2>10. QED
    BY <1>4, <1>7, <2>5, <2>7, <2>8, <2>9 DEF end
<1>9. i < end
  <2> HIDE DEF b, end
  <2>1. i < next
    BY <1>2
  <2> HIDE DEF next
  <2>2. QED
    BY <1>2, <1>4, <1>6, <2>1
<1> HIDE DEF b, next
<1>10. QED
  BY <1>3, <1>6, <1>8, <1>9 DEF InPlace

\* Wherever the walk ends, it has passed a whole name.
LEMMA WalkEnds ==
  ASSUME TypeOK, NEW walk, Walks(walk)
  PROVE  \A i \in Nat : NameAt(packet, i) # Bad /\ walk[i] # 0 => InPlace(walk, i)
<1> DEFINE S == {i \in Nat : NameAt(packet, i) # Bad /\ walk[i] # 0 => InPlace(walk, i)}
<1>1. packet \in Seq(Octet) /\ len = Len(packet) /\ len \in Nat
  BY WireTypes
<1>2. MAX_COMPRESSION_JUMPS \in 0..MAX_COMPRESSION_JUMPS
  BY ParserLimits
<1>3. ASSUME NEW i \in Nat, i >= len
      PROVE  i \in S
  <2>1. walk[i] = 0
    BY <1>3 DEF Walks
  <2>2. QED
    BY <2>1
<1>4. ASSUME NEW i \in Nat, \A j \in Nat : i < j => j \in S
      PROVE  i \in S
  <2> SUFFICES ASSUME NameAt(packet, i) # Bad, walk[i] # 0
               PROVE  InPlace(walk, i)
    OBVIOUS
  <2>1. LabelsRead(packet, i, MAX_COMPRESSION_JUMPS)
    BY <1>1, <1>2, LabelsAtIs
  <2>2. CASE IsEnd(packet, i)
    BY <2>2, InPlaceEnd
  <2>3. CASE IsLabel(packet, i)
    <3> DEFINE next == i + 1 + packet[i + 1]
    <3>1. next \in Nat /\ i < next
      BY <1>1, <2>3, KindsOfPlaces
    <3>2. walk[i] = walk[next]
      BY <2>3, WalkIs
    <3>3. NameAt(packet, i) = Prepend(<<LabelOf(packet, i)>>, NameAt(packet, next))
      BY <2>1, <2>3 DEF LabelsRead, NameAt
    <3> HIDE DEF next
    <3>4. NameAt(packet, next) # Bad
      BY <3>3 DEF Prepend
    <3>5. next \in S
      BY <1>4, <3>1
    <3>6. InPlace(walk, next)
      BY <3>2, <3>4, <3>5
    <3>7. QED
      BY <2>3, <3>6, InPlaceLabel DEF next
  <2>4. CASE IsPointer(packet, i)
    BY <2>4, WalkIs
  <2>5. CASE IsBroken(packet, i)
    BY <2>1, <2>5 DEF LabelsRead, NameAt
  <2>6. QED
    BY <2>2, <2>3, <2>4, <2>5 DEF IsBroken
<1> HIDE DEF S
<1>5. \A i \in Nat : i \in S
  BY <1>1, <1>3, <1>4, UpwardInduction
<1>6. QED
  BY <1>5 DEF S

\* The walk ends behind every name that has no pointer, and its question.
LEMMA WalkPasses ==
  ASSUME TypeOK, NEW walk, Walks(walk)
  PROVE  \A i \in Nat : LabelsAt(packet, i, 0) # Bad => walk[i] = EndOfName(packet, i) + 4
<1> DEFINE S == {i \in Nat : LabelsAt(packet, i, 0) # Bad => walk[i] = EndOfName(packet, i) + 4}
<1>1. packet \in Seq(Octet) /\ len = Len(packet) /\ len \in Nat
  BY WireTypes
<1>2. 0 \in 0..MAX_COMPRESSION_JUMPS
  BY ParserLimits
<1>3. \A i \in Nat : LabelsRead(packet, i, 0) /\ EndRead(packet, i)
  BY <1>1, <1>2, LabelsAtIs, EndOfNameIs
<1>4. ASSUME NEW i \in Nat, i >= len
      PROVE  i \in S
  <2>1. IsBroken(packet, i)
    BY <1>1, <1>4 DEF IsBroken, IsEnd, IsLabel, IsPointer
  <2>2. LabelsAt(packet, i, 0) = Bad
    BY <1>3, <2>1 DEF LabelsRead
  <2>3. QED
    BY <2>2
<1>5. ASSUME NEW i \in Nat, \A j \in Nat : i < j => j \in S
      PROVE  i \in S
  <2> SUFFICES ASSUME LabelsAt(packet, i, 0) # Bad
               PROVE  walk[i] = EndOfName(packet, i) + 4
    OBVIOUS
  <2>1. LabelsRead(packet, i, 0) /\ EndRead(packet, i)
    BY <1>3
  <2>2. CASE IsEnd(packet, i)
    <3>1. walk[i] = i + 5 /\ EndOfName(packet, i) = i + 1
      BY <2>1, <2>2, WalkIs DEF EndRead
    <3>2. QED
      BY <3>1
  <2>3. CASE IsLabel(packet, i)
    <3> DEFINE next == i + 1 + packet[i + 1]
    <3>1. next \in Nat /\ i < next
      BY <1>1, <2>3, KindsOfPlaces
    <3>2. walk[i] = walk[next] /\ EndOfName(packet, i) = EndOfName(packet, next)
      BY <2>1, <2>3, WalkIs DEF EndRead
    <3>3. LabelsAt(packet, i, 0) = Prepend(<<LabelOf(packet, i)>>, LabelsAt(packet, next, 0))
      BY <2>1, <2>3 DEF LabelsRead
    <3> HIDE DEF next
    <3>4. LabelsAt(packet, next, 0) # Bad
      BY <3>3 DEF Prepend
    <3>5. next \in S
      BY <1>5, <3>1
    <3>6. QED
      BY <3>2, <3>4, <3>5
  <2>4. ~IsPointer(packet, i) /\ ~IsBroken(packet, i)
    BY <2>1 DEF LabelsRead
  <2>5. QED
    BY <2>2, <2>3, <2>4 DEF IsBroken
<1> HIDE DEF S
<1>6. \A i \in Nat : i \in S
  BY <1>1, <1>4, <1>5, UpwardInduction
<1>7. QED
  BY <1>6 DEF S

\* Where build_error_response's walk ends, by the wire format.
LEMMA QuestionEndIs ==
  ASSUME TypeOK, GoodQuestion(packet, DNS_HEADER_SIZE)
  PROVE  LET at == EndOfName(packet, DNS_HEADER_SIZE)
         IN  /\ at \in Nat /\ at + 4 <= len
             /\ QuestionEnd = 0 => LabelsAt(packet, DNS_HEADER_SIZE, 0) = Bad
             /\ QuestionEnd # 0 =>
                  /\ QuestionEnd = at + 4 /\ DNS_HEADER_SIZE < at
                  /\ \A r : SameBytes(r, DNS_HEADER_SIZE, at) =>
                       /\ NameAt(r, DNS_HEADER_SIZE) = NameAt(packet, DNS_HEADER_SIZE)
                       /\ EndOfName(r, DNS_HEADER_SIZE) = at
<1> DEFINE H == DNS_HEADER_SIZE
           at == EndOfName(packet, H)
<1>1. packet \in Seq(Octet) /\ len = Len(packet) /\ len \in Nat /\ H \in Nat
  BY WireTypes, ParserLimits
<1>2. NameAt(packet, H) # Bad /\ at + 4 <= len /\ at \in Nat
  <2>1. EndRead(packet, H)
    BY <1>1, EndOfNameIs
  <2>2. QED
    BY <1>1, <2>1 DEF GoodQuestion, GoodName, EndRead
<1>3. PICK walk \in [Nat -> Nat] : /\ QuestionEnd = IF walk[H] <= len THEN walk[H] ELSE 0
                                   /\ Walks(walk)
  BY QuestionWalk
<1>4. CASE QuestionEnd = 0
  <2>1. ASSUME LabelsAt(packet, H, 0) # Bad
        PROVE  FALSE
    <3>1. walk[H] = at + 4
      BY <1>1, <1>3, <2>1, WalkPasses
    <3> HIDE DEF at
    <3>2. QED
      BY <1>2, <1>3, <1>4, <3>1
  <2>2. QED
    BY <1>2, <1>4, <2>1
<1>5. CASE QuestionEnd # 0
  <2>1. walk[H] # 0 /\ QuestionEnd = walk[H]
    BY <1>3, <1>5
  <2>2. InPlace(walk, H)
    BY <1>1, <1>2, <1>3, <2>1, WalkEnds
  <2>3. QED
    BY <1>2, <1>5, <2>1, <2>2 DEF InPlace
<1>6. QED
  BY <1>4, <1>5

\* What the parser knows of the first question while it reads it.
FirstRead ==
  LET end == EndOfName(packet, DNS_HEADER_SIZE)
  IN  /\ ppc = "question" => offset = DNS_HEADER_SIZE
      /\ ppc = "name" /\ jumped => end = offset
      /\ ppc = "name" /\ ~jumped => end = EndOfName(packet, pos)
      /\ ppc = "fields" => end = offset

\* What is kept of it.
FirstKept ==
  LET end == EndOfName(packet, DNS_HEADER_SIZE)
  IN  /\ questions[1].qtype = Field(packet, end)
      /\ questions[1].qclass = Field(packet, end + 2)

FirstInv ==
  /\ ppc \in {"question", "name", "fields", "store", "ok"} => DNS_HEADER_SIZE <= len
  /\ questions = << >> => FirstRead
  /\ questions # << >> => FirstKept

\* The type and class of the first question are read where its name ends.
LEMMA ParsingReadsFirst == IInv /\ FirstInv /\ Parsing => FirstInv'
<1> SUFFICES ASSUME IInv, FirstInv, Parsing
             PROVE  FirstInv'
  OBVIOUS
<1> DEFINE end == EndOfName(packet, DNS_HEADER_SIZE)
<1>1. /\ TypeOK /\ packet \in Seq(Octet) /\ len = Len(packet) /\ len \in Nat
      /\ pos \in Nat /\ offset \in Nat /\ Len(questions) \in Nat
      /\ DNS_HEADER_SIZE \in Nat
  BY WireTypes, ParserLimits DEF IInv, TypeOK
<1>2. EndRead(packet, pos)
  BY <1>1, EndOfNameIs
<1>3. ASSUME ppc' \in {"fail", "nomem"}
      PROVE  questions' = << >>
  <2>1. CASE TooShort \/ HasQuestions
    BY <2>1 DEF TooShort, HasQuestions, IInv, OwnershipIsClear, message
  <2>2. CASE ~(TooShort \/ HasQuestions)
    <3>1. ppc \in {"question", "name", "fields", "store"}
      BY <1>3, <2>2 DEF Parsing, HeaderOnly, BeginName, NoRoomForName,
         NameStep, FollowPointer, BadPointer, BadLength, CopyLabel, BadLabel, EndName, RunsOff,
         KeepQuestion, NoRoomForFields, NoMemoryForName, StoreRaw, NoMemoryForRaw, AtByte
    <3>2. \/ NoRoomForName \/ BadPointer \/ BadLength \/ BadLabel \/ RunsOff
          \/ NoRoomForFields \/ NoMemoryForName \/ NoMemoryForRaw
      BY <1>3, <2>2, <3>1 DEF Parsing, HeaderOnly, BeginName,
         NameStep, FollowPointer, CopyLabel, EndName, KeepQuestion, StoreRaw
    <3>3. QED
      BY <3>2 DEF NoRoomForName, BadPointer, BadLength, BadLabel, RunsOff,
         NoRoomForFields, NoMemoryForName, NoMemoryForRaw, Abandon
  <2>3. QED
    BY <2>1, <2>2
<1>4. CASE HeaderOnly
  <2>1. /\ ppc' = "store" /\ packet' = packet /\ questions' = << >> /\ DNS_HEADER_SIZE <= len
    BY <1>1, <1>4 DEF HeaderOnly, IInv, OwnershipIsClear, message
  <2>2. QED
    BY <2>1 DEF FirstInv, FirstRead, len
<1>5. CASE HasQuestions /\ ppc' = "question"
  <2>1. /\ packet' = packet /\ questions' = << >> /\ DNS_HEADER_SIZE <= len
        /\ offset' = DNS_HEADER_SIZE
    BY <1>1, <1>5 DEF HasQuestions, IInv, OwnershipIsClear
  <2>2. QED
    BY <1>5, <2>1 DEF FirstInv, FirstRead, len
<1>6. CASE BeginName
  <2>1. /\ packet' = packet /\ questions' = questions /\ ppc = "question" /\ ppc' = "name"
        /\ pos' = offset /\ ~jumped'
    BY <1>6 DEF BeginName, message
  <2>2. questions = << >> => FirstRead'
    BY <2>1 DEF FirstRead, FirstInv
  <2>3. QED
    BY <2>1, <2>2 DEF FirstInv, FirstKept, len
<1>7. CASE FollowPointer
  <2>1. /\ packet' = packet /\ questions' = questions /\ ppc = "name" /\ ppc' = "name"
        /\ jumped' /\ offset' = (IF jumped THEN offset ELSE pos + 2)
        /\ pos < len /\ Byte(pos) >= 192
    BY <1>7 DEF FollowPointer, message, AtByte, Pointer
  <2>2. EndOfName(packet, pos) = pos + 2
    BY <1>1, <1>2, <2>1, BytesOfPacket DEF EndRead
  <2>3. questions = << >> => FirstRead'
    BY <2>1, <2>2 DEF FirstRead, FirstInv
  <2>4. QED
    BY <2>1, <2>3 DEF FirstInv, FirstKept, len
<1>8. CASE CopyLabel
  <2>1. /\ packet' = packet /\ questions' = questions /\ ppc = "name" /\ ppc' = "name"
        /\ jumped' = jumped /\ offset' = offset
        /\ pos' = pos + 1 + Byte(pos) /\ pos + 1 + Byte(pos) <= len /\ pos < len
    BY <1>8 DEF CopyLabel, message, AtByte, Fits
  <2>2. IsLabel(packet, pos) /\ Byte(pos) = packet[pos + 1]
    BY <1>1, <1>8, <2>1, PlaceIs, BytesOfPacket DEF CopyLabel
  <2>3. EndOfName(packet, pos) = EndOfName(packet, pos')
    BY <1>2, <2>1, <2>2 DEF EndRead
  <2>4. questions = << >> => FirstRead'
    BY <2>1, <2>3 DEF FirstRead, FirstInv
  <2>5. QED
    BY <2>1, <2>4 DEF FirstInv, FirstKept, len
<1>9. CASE EndName
  <2>1. /\ packet' = packet /\ questions' = questions /\ ppc = "name" /\ ppc' = "fields"
        /\ offset' = (IF jumped THEN offset ELSE pos + 1)
    BY <1>9 DEF EndName, message, AtByte
  <2>2. EndOfName(packet, pos) = pos + 1
    BY <1>1, <1>2, <1>9, PlaceIs DEF EndRead, EndName
  <2>3. questions = << >> => FirstRead'
    BY <2>1, <2>2 DEF FirstRead, FirstInv
  <2>4. QED
    BY <2>1, <2>3 DEF FirstInv, FirstKept, len
<1>10. CASE KeepQuestion
  <2> DEFINE q == [qname |-> strdup(name), qtype |-> UInt16(offset),
                   qclass |-> UInt16(offset + 2)]
  <2>1. /\ packet' = packet /\ questions' = Append(questions, q) /\ ppc = "fields"
        /\ offset + 4 <= len /\ ppc' \in {"store", "question"}
    BY <1>10 DEF KeepQuestion
  <2>2. questions \in Seq(Question) /\ questions' # << >>
    BY <1>1, <2>1 DEF TypeOK
  <2>3. UInt16(offset) = Field(packet, offset) /\ UInt16(offset + 2) = Field(packet, offset + 2)
    <3>1. \A i \in Nat : i + 1 < len => UInt16(i) = Field(packet, i)
      <4> SUFFICES ASSUME NEW i \in Nat, i + 1 < len
                   PROVE  UInt16(i) = Field(packet, i)
        OBVIOUS
      <4>1. i < len /\ i + 1 \in Nat /\ (i + 1) + 1 = i + 2
        BY <1>1
      <4>2. Byte(i) = packet[i + 1] /\ Byte(i + 1) = packet[(i + 1) + 1]
        BY <1>1, <4>1, BytesOfPacket
      <4>3. QED
        BY <4>1, <4>2 DEF UInt16, Field
    <3>2. offset + 2 \in Nat /\ offset + 1 < len /\ (offset + 2) + 1 < len
      BY <1>1, <2>1
    <3>3. QED
      BY <1>1, <3>1, <3>2
  <2>4. CASE questions = << >>
    <3>1. questions'[1] = q
      BY <2>1, <2>4
    <3>2. end = offset
      BY <2>1, <2>4 DEF FirstInv, FirstRead
    <3>3. q.qtype = Field(packet, end) /\ q.qclass = Field(packet, end + 2)
      BY <2>3, <3>2
    <3>4. FirstKept'
      BY <2>1, <3>1, <3>3 DEF FirstKept
    <3>5. QED
      BY <2>1, <2>2, <3>4 DEF FirstInv, len
  <2>5. CASE questions # << >>
    <3>1. questions'[1] = questions[1]
      BY <2>1, <2>2, <2>5
    <3>2. QED
      BY <2>1, <2>2, <2>5, <3>1 DEF FirstInv, FirstKept, len
  <2>6. QED
    BY <2>4, <2>5
<1>11. CASE StoreRaw
  <2>1. packet' = packet /\ questions' = questions /\ ppc = "store" /\ ppc' = "ok"
    BY <1>11 DEF StoreRaw
  <2>2. QED
    BY <2>1 DEF FirstInv, FirstKept, FirstRead, len
<1>12. \/ ppc' \in {"fail", "nomem"} \/ HeaderOnly \/ (HasQuestions /\ ppc' = "question")
       \/ BeginName \/ FollowPointer \/ CopyLabel \/ EndName \/ KeepQuestion \/ StoreRaw
  BY DEF Parsing, TooShort, HasQuestions, NoRoomForName, Abandon,
     NameStep, BadPointer, BadLength, BadLabel, RunsOff,
     NoRoomForFields, NoMemoryForName, NoMemoryForRaw
<1>13. ppc' \in {"fail", "nomem"} => FirstInv'
  BY <1>3 DEF FirstInv, FirstRead
<1>14. QED
  BY <1>13, <1>4, <1>5, <1>6, <1>7, <1>8, <1>9, <1>10, <1>11, <1>12

\* So it is under each of its callers.
LEMMA FirstInvariant == HandleSpec => []FirstInv
<1>1. HandleInit => FirstInv
  BY DEF HandleInit, Init, FirstInv, FirstRead
<1>2. HandleInv /\ FirstInv /\ [HandleNext]_handleVars => FirstInv'
  <2> SUFFICES ASSUME HandleInv, FirstInv, [HandleNext]_handleVars
               PROVE  FirstInv'
    OBVIOUS
  <2>1. CASE Arrival
    <3>1. ppc' = "header" /\ questions' = << >>
      BY <2>1 DEF Arrival, Receive, dns_parse_query, dns_build_error_response, EncodeAndParse,
         Call, parse_dns_message, message, HandleInv, IInv, OwnershipIsClear
    <3>2. QED
      BY <3>1 DEF FirstInv, FirstRead
  <2>2. CASE ParserRuns
    BY <2>2, ParsingReadsFirst DEF ParserRuns, HandleInv
  <2>3. CASE Decision \/ UNCHANGED handleVars
    <3>1. UNCHANGED vars
      BY <2>3 DEF Decision, ParseFailed, NoQuestion, UnsupportedType, BlockedDomain,
         AllowedDomain, ReturnQuestion, ReturnErrorResponse, handleVars
    <3>2. QED
      BY <3>1 DEF vars, cursor, message, FirstInv, FirstRead, FirstKept, len
  <2>4. CASE Finish
    <3>1. ppc' = "idle" /\ questions' = << >>
      BY <2>4 DEF Finish, free_dns_message
    <3>2. QED
      BY <3>1 DEF FirstInv, FirstRead
  <2>5. QED
    BY <2>1, <2>2, <2>3, <2>4 DEF HandleNext
<1>3. QED
  BY <1>1, <1>2, HandleInvariant, PTL DEF HandleSpec

\* A reply is built once the datagram is parsed, by build_error_response; a
\* query accepted and dropped is one whose first question it cannot copy.
ReplyInv ==
  /\ outcome # "pending" => ppc \in Returned
  /\ outcome = "error" =>
       /\ ppc = "ok" /\ QuestionEnd # 0
       /\ \E rcode \in 0..5 : response = build_error_response(rcode)
  /\ outcome = "dropped" /\ ppc = "ok" /\ caller = "run_server" => QuestionEnd = 0

\* The bytes of a reply: its header, and from there on those of the query.
LEMMA ReplyBytes ==
  ASSUME TypeOK, NEW rcode \in 0..5, QuestionEnd # 0
  PROVE  LET r      == build_error_response(rcode)
             header == build_dns_header(rcode)
             rest   == SubSeq(packet, DNS_HEADER_SIZE + 1, QuestionEnd)
         IN  /\ r = header \o rest /\ r \in Seq(Octet)
             /\ Len(header) = 12 /\ header \in Seq(Octet)
             /\ rest \in Seq(Octet)
             /\ \A k \in 1..12 : r[k] = header[k]
             /\ DNS_HEADER_SIZE <= QuestionEnd =>
                  /\ Len(r) = QuestionEnd
                  /\ SameBytes(r, DNS_HEADER_SIZE, QuestionEnd)
<1> DEFINE r      == build_error_response(rcode)
           header == build_dns_header(rcode)
           rest   == SubSeq(packet, DNS_HEADER_SIZE + 1, QuestionEnd)
<1>1. packet \in Seq(Octet) /\ len = Len(packet) /\ len \in Nat
      /\ QuestionEnd \in Nat /\ QuestionEnd <= len /\ DNS_HEADER_SIZE = 12
  BY WireTypes, QuestionWalk, ParserLimits, HeaderOfTwelve
<1>2. r = header \o rest
  <2>1. ~(rcode > 5) /\ ~(rcode > 5 \/ QuestionEnd = 0)
    OBVIOUS
  <2>2. QED
    BY <2>1 DEF build_error_response
<1>3. header \in Seq(Octet) /\ Len(header) = 12
  <2>1. \A i \in 0..5 : Byte(i) \in Octet
    BY ByteType
  <2>2. 128 + (Byte(2) % 2) \in Octet /\ rcode \in Octet
    <3>1. Byte(2) \in Nat
      BY <2>1 DEF Octet
    <3>2. Byte(2) % 2 \in 0..1
      BY <3>1
    <3>3. QED
      BY <3>2 DEF Octet
  <2>3. header \in Seq(Octet)
    BY <2>1, <2>2 DEF build_dns_header, Octet
  <2>4. Len(header) = 12
    BY DEF build_dns_header
  <2>5. QED
    BY <2>3, <2>4
<1>4. /\ rest \in Seq(Octet)
      /\ DNS_HEADER_SIZE <= QuestionEnd =>
           /\ Len(rest) = QuestionEnd - 12
           /\ \A j \in 1..(QuestionEnd - 12) : rest[j] = packet[12 + j]
  <2> DEFINE a == DNS_HEADER_SIZE + 1
  <2>1. a = 13 /\ a \in Int /\ QuestionEnd \in Int
    BY <1>1
  <2>2. \A i \in a..QuestionEnd : packet[i] \in Octet
    BY <1>1, <2>1
  <2>3. /\ rest \in Seq(Octet)
        /\ Len(rest) = IF a <= QuestionEnd THEN QuestionEnd - a + 1 ELSE 0
        /\ \A j \in 1..(QuestionEnd - a + 1) : rest[j] = packet[a + j - 1]
    <3> HIDE DEF a
    <3> DEFINE sub == SubSeq(packet, a, QuestionEnd)
    <3>1. rest = sub
      BY DEF a
    <3>2. /\ sub \in Seq(Octet)
          /\ Len(sub) = IF a <= QuestionEnd THEN QuestionEnd - a + 1 ELSE 0
          /\ \A j \in 1..(QuestionEnd - a + 1) : sub[j] = packet[a + j - 1]
      BY <2>1, <2>2, SubSeqProperties
    <3> HIDE DEF sub, rest
    <3>3. QED
      BY <3>1, <3>2
  <2>4. QuestionEnd - a + 1 = QuestionEnd - 12
    BY <1>1, <2>1
  <2>5. \A j \in 1..(QuestionEnd - 12) : a + j - 1 = 12 + j
    BY <2>1
  <2> HIDE DEF a, rest
  <2>6. DNS_HEADER_SIZE <= QuestionEnd => Len(rest) = QuestionEnd - 12
    BY <1>1, <2>1, <2>3
  <2>7. QED
    BY <2>3, <2>4, <2>5, <2>6
<1> HIDE DEF header, rest, r
<1>5. /\ r \in Seq(Octet) /\ Len(r) = 12 + Len(rest)
      /\ \A k \in 1..(12 + Len(rest)) : r[k] = IF k <= 12 THEN header[k] ELSE rest[k - 12]
  <2>1. /\ header \o rest \in Seq(Octet) /\ Len(header \o rest) = Len(header) + Len(rest)
        /\ \A k \in 1..(Len(header) + Len(rest)) :
             (header \o rest)[k] = IF k <= Len(header) THEN header[k] ELSE rest[k - Len(header)]
    BY <1>3, <1>4, ConcatProperties
  <2>2. QED
    BY <1>2, <1>3, <2>1
<1>6. Len(rest) \in Nat
  BY <1>4
<1>7. \A k \in 1..12 : r[k] = header[k]
  BY <1>5, <1>6
<1>8. ASSUME DNS_HEADER_SIZE <= QuestionEnd
      PROVE  Len(r) = QuestionEnd /\ SameBytes(r, DNS_HEADER_SIZE, QuestionEnd)
  <2>1. Len(rest) = QuestionEnd - 12 /\ Len(r) = QuestionEnd
    BY <1>1, <1>4, <1>5, <1>8
  <2>2. ASSUME NEW k \in Nat, DNS_HEADER_SIZE <= k, k < QuestionEnd
        PROVE  r[k + 1] = packet[k + 1]
    <3>1. /\ k + 1 \in 1..(12 + Len(rest)) /\ ~(k + 1 <= 12)
          /\ (k + 1) - 12 \in 1..(QuestionEnd - 12) /\ 12 + ((k + 1) - 12) = k + 1
      BY <1>1, <2>1, <2>2
    <3>2. r[k + 1] = rest[(k + 1) - 12]
      BY <1>5, <3>1
    <3>3. rest[(k + 1) - 12] = packet[12 + ((k + 1) - 12)]
      BY <1>4, <1>8, <3>1
    <3>4. QED
      BY <3>1, <3>2, <3>3
  <2>3. QED
    BY <1>1, <1>5, <2>1, <2>2 DEF SameBytes
<1>9. QED
  BY <1>2, <1>3, <1>4, <1>5, <1>7, <1>8 DEF r, header, rest

\* What Reply leaves, for the RCODEs its callers give it.
LEMMA ReplyIs ==
  ASSUME TypeOK, NEW rcode \in Nat, Reply(rcode)
  PROVE  /\ outcome' \in {"error", "dropped", "nomem"}
         /\ outcome' = "error" => /\ QuestionEnd # 0 /\ rcode \in 0..5
                                  /\ response' = build_error_response(rcode)
         /\ outcome' = "dropped" /\ rcode <= 5 => QuestionEnd = 0
<1>1. ASSUME build_error_response(rcode) # Refused
      PROVE  QuestionEnd # 0 /\ rcode \in 0..5
  BY <1>1 DEF build_error_response
<1>2. ASSUME build_error_response(rcode) = Refused, rcode <= 5, QuestionEnd # 0
      PROVE  FALSE
  <2> DEFINE rest == SubSeq(packet, DNS_HEADER_SIZE + 1, QuestionEnd)
             header == build_dns_header(rcode)
  <2>1. /\ build_error_response(rcode) = header \o rest
        /\ header \in Seq(Octet) /\ Len(header) = 12 /\ rest \in Seq(Octet)
    <3>1. rcode \in 0..5
      BY <1>2
    <3>2. QED
      BY <1>2, <3>1, ReplyBytes
  <2> HIDE DEF header, rest
  <2>2. Len(header \o rest) = Len(header) + Len(rest) /\ Len(rest) \in Nat
    <3>1. header \in Seq(Octet) /\ rest \in Seq(Octet)
      BY <2>1
    <3>2. QED
      BY <3>1, ConcatProperties
  <2>3. header \o rest = << >>
    BY <1>2, <2>1 DEF Refused
  <2>4. Len(header \o rest) = 0
    BY <2>3
  <2>5. QED
    BY <2>1, <2>2, <2>4
<1>3. QED
  BY <1>1, <1>2 DEF Reply

\* How replies come about, under each caller.
LEMMA ReplyInvariant == HandleSpec => []ReplyInv
<1>1. HandleInit => ReplyInv
  BY DEF HandleInit, Init, ReplyInv
<1>2. HandleInv /\ ReplyInv /\ [HandleNext]_handleVars => ReplyInv'
  <2> SUFFICES ASSUME HandleInv, ReplyInv, [HandleNext]_handleVars
               PROVE  ReplyInv'
    OBVIOUS
  <2>1. TypeOK
    BY DEF HandleInv, IInv
  <2>2. ASSUME ppc' = ppc, packet' = packet
        PROVE  /\ QuestionEnd' = QuestionEnd
               /\ \A r : build_error_response(r)' = build_error_response(r)
    BY <2>2 DEF QuestionEnd, build_error_response, build_dns_header, Byte, len
  <2>3. CASE Arrival
    <3>1. ppc = "idle" /\ outcome' = outcome
      BY <2>3 DEF Arrival, Receive, dns_parse_query, dns_build_error_response, EncodeAndParse,
         Call, parse_dns_message
    <3>2. outcome' = "pending"
      BY <3>1 DEF ReplyInv, Returned
    <3>3. QED
      BY <3>2 DEF ReplyInv
  <2>4. CASE ParserRuns
    <3>1. ppc \notin Returned /\ outcome' = outcome
      BY <2>4 DEF ParserRuns, handled, Returned, Parsing, TooShort, HeaderOnly, HasQuestions,
         BeginName, NoRoomForName, NameStep, FollowPointer, BadPointer, BadLength, CopyLabel,
         BadLabel, EndName, RunsOff, KeepQuestion, NoRoomForFields, NoMemoryForName, StoreRaw,
         NoMemoryForRaw, AtByte
    <3>2. outcome' = "pending"
      BY <3>1 DEF ReplyInv
    <3>3. QED
      BY <3>2 DEF ReplyInv
  <2>5. CASE ParseFailed
    BY <2>5 DEF ParseFailed, vars, ReplyInv, Returned
  <2>6. ASSUME NEW rcode \in Nat, Reply(rcode), UNCHANGED vars, ppc = "ok",
               caller' = "run_server" => rcode <= 5
        PROVE  ReplyInv'
    <3>1. ppc' = ppc /\ packet' = packet
      BY <2>6 DEF vars
    <3>2. outcome' = "error" => QuestionEnd' # 0 /\ rcode \in 0..5
                                 /\ response' = build_error_response(rcode)'
      BY <2>1, <2>2, <2>6, <3>1, ReplyIs
    <3>3. outcome' = "dropped" /\ caller' = "run_server" => QuestionEnd' = 0
      BY <2>1, <2>2, <2>6, <3>1, ReplyIs
    <3>4. QED
      BY <2>6, <3>1, <3>2, <3>3 DEF ReplyInv, Returned
  <2>7. CASE NoQuestion \/ UnsupportedType \/ BlockedDomain
    <3>1. UNCHANGED vars /\ ppc = "ok" /\ (Reply(FORMERR) \/ Reply(NOTIMPL) \/ Reply(NXDOMAIN))
      BY <2>7 DEF NoQuestion, UnsupportedType, BlockedDomain, Deciding
    <3>2. FORMERR \in 0..5 /\ NOTIMPL \in 0..5 /\ NXDOMAIN \in 0..5
      BY DEF FORMERR, NOTIMPL, NXDOMAIN
    <3>3. QED
      BY <2>6, <3>1, <3>2
  <2>8. CASE AllowedDomain
    <3>1. UNCHANGED vars /\ ppc = "ok" /\ (outcome' = "relayed" \/ Reply(SERVFAIL))
      BY <2>8 DEF AllowedDomain, Deciding
    <3>2. SERVFAIL \in 0..5
      BY DEF SERVFAIL
    <3>3. CASE outcome' = "relayed"
      BY <3>1, <3>3 DEF ReplyInv, Returned, vars
    <3>4. QED
      BY <2>6, <3>1, <3>2, <3>3
  <2>9. CASE ReturnQuestion
    BY <2>9 DEF ReturnQuestion, vars, ReplyInv, Returned
  <2>10. CASE ReturnErrorResponse
    <3>1. /\ caller' # "run_server" /\ UNCHANGED vars /\ ppc = "ok"
          /\ \/ \E rcode \in {NXDOMAIN, 6} : Reply(rcode)
             \/ outcome' = "dropped"
      BY <2>10 DEF ReturnErrorResponse
    <3>2. NXDOMAIN \in Nat /\ 6 \in Nat
      BY DEF NXDOMAIN
    <3>3. CASE outcome' = "dropped"
      BY <3>1, <3>3 DEF ReplyInv, Returned, vars
    <3>4. QED
      BY <2>6, <3>1, <3>2, <3>3
  <2>11. CASE Finish
    BY <2>11 DEF Finish, ReplyInv
  <2>12. CASE UNCHANGED handleVars
    <3>1. ppc' = ppc /\ packet' = packet /\ outcome' = outcome /\ response' = response
          /\ caller' = caller
      BY <2>12 DEF handleVars, handled, vars
    <3>2. QED
      BY <2>2, <3>1 DEF ReplyInv
  <2>13. QED
    BY <2>3, <2>4, <2>5, <2>7, <2>8, <2>9, <2>10, <2>11, <2>12 DEF HandleNext, Decision
<1>3. QED
  BY <1>1, <1>2, HandleInvariant, PTL DEF HandleSpec

\* The first, the fifth and sixth, and the last eight bytes of a header.
LEMMA HeaderParts ==
  ASSUME NEW r \in Seq(Octet), Len(r) >= 12
  PROVE  /\ SubSeq(r, 1, 3) = <<r[1], r[2], r[3]>>
         /\ SubSeq(r, 5, 6) = <<r[5], r[6]>>
         /\ SubSeq(r, 5, 12) = <<r[5], r[6], r[7], r[8], r[9], r[10], r[11], r[12]>>
<1>1. Len(r) \in Nat /\ \A i \in 1..Len(r) : r[i] \in Octet
  OBVIOUS
<1>2. \A i \in 1..12 : r[i] \in Octet
  BY <1>1
<1>3. SubSeq(r, 1, 3) = <<r[1], r[2], r[3]>>
  <2> DEFINE s == SubSeq(r, 1, 3)
  <2>1. s \in Seq(Octet) /\ Len(s) = 3 /\ \A i \in 1..3 : s[i] = r[i]
    BY <1>1
  <2> HIDE DEF s
  <2>2. s = <<s[1], s[2], s[3]>>
    BY <2>1
  <2>3. QED
    BY <2>1, <2>2 DEF s
<1>4. SubSeq(r, 5, 6) = <<r[5], r[6]>>
  <2> DEFINE s == SubSeq(r, 5, 6)
  <2>1. s \in Seq(Octet) /\ Len(s) = 2 /\ \A i \in 1..2 : s[i] = r[4 + i]
    BY <1>1
  <2> HIDE DEF s
  <2>2. s = <<s[1], s[2]>> /\ s[1] = r[5] /\ s[2] = r[6]
    BY <2>1
  <2>3. QED
    BY <2>2 DEF s
<1>5. SubSeq(r, 5, 12) = <<r[5], r[6], r[7], r[8], r[9], r[10], r[11], r[12]>>
  <2> DEFINE s == SubSeq(r, 5, 12)
  <2>1. s \in Seq(Octet) /\ Len(s) = 8 /\ \A i \in 1..8 : s[i] = r[4 + i]
    BY <1>1
  <2> HIDE DEF s
  <2>2. s = <<s[1], s[2], s[3], s[4], s[5], s[6], s[7], s[8]>>
    BY <2>1
  <2>3. /\ s[1] = r[5] /\ s[2] = r[6] /\ s[3] = r[7] /\ s[4] = r[8]
        /\ s[5] = r[9] /\ s[6] = r[10] /\ s[7] = r[11] /\ s[8] = r[12]
    BY <2>1
  <2>4. QED
    BY <2>2, <2>3 DEF s
<1>6. QED
  BY <1>3, <1>4, <1>5

\* The first question of an accepted query is complete, and its name is kept.
LEMMA FirstAnnounced ==
  ASSUME HandleInv, WireInv, ppc = "ok", qdcount > 0
  PROVE  /\ questions # << >> /\ GoodQuestion(packet, DNS_HEADER_SIZE)
         /\ CName(packet, DNS_HEADER_SIZE) = questions[1].qname
<1>1. /\ TypeOK /\ Announced = QNames /\ Len(questions) = qdcount
  BY DEF HandleInv, IInv, WireInv, OwnershipIsClear
<1>2. /\ packet \in Seq(Octet) /\ qdcount \in Count /\ qdcount \in Nat /\ QNames \in LabelSeq
      /\ DNS_HEADER_SIZE \in Nat
  BY <1>1, WireTypes, ParserLimits
<1>3. questions # << >> /\ 1 \in DOMAIN questions
  BY <1>1, <1>2 DEF TypeOK
<1>4. Announced # Bad
  <2>1. Bad \notin LabelSeq
    BY BadIsNone DEF LabelSeq, Texts
  <2>2. QED
    BY <1>1, <1>2, <2>1
<1>5. NamesRead(packet, DNS_HEADER_SIZE, qdcount)
  BY <1>2, NamesAre
<1>6. GoodQuestion(packet, DNS_HEADER_SIZE)
  BY <1>2, <1>4, <1>5 DEF NamesRead, Announced
<1> DEFINE first == CName(packet, DNS_HEADER_SIZE)
           rest  == Names(packet, EndOfName(packet, DNS_HEADER_SIZE) + 4, qdcount - 1)
<1>7. Announced = Prepend(<<first>>, rest)
  BY <1>2, <1>5, <1>6 DEF NamesRead, Announced
<1> HIDE DEF first, rest
<1>8. Announced = <<first>> \o rest
  BY <1>4, <1>7 DEF Prepend
<1>9. QNames[1] = questions[1].qname
  BY <1>3 DEF QNames
<1>10. (<<first>> \o rest)[1] = first
  <2>1. <<first>> \in LabelSeq /\ rest \in LabelSeq
    <3>1. first \in Texts
      BY <1>2, <1>6, GoodNameType DEF GoodQuestion, first
    <3>2. rest \in MaybeLabels
      <4> DEFINE at == EndOfName(packet, DNS_HEADER_SIZE)
      <4>1. at + 4 \in Nat
        <5>1. at \in Nat
          BY <1>2, EndOfNameIs DEF EndRead
        <5> HIDE DEF at
        <5>2. QED
          BY <5>1
      <4>2. qdcount - 1 \in Count
        <5>1. MaxCount \in Nat /\ Count = 0..MaxCount
          BY DEF MaxCount, Count
        <5>2. QED
          BY <1>2, <5>1
      <4>3. QED
        BY <1>2, <4>1, <4>2, NamesAre DEF NamesRead, rest
    <3>3. rest # Bad
      BY <1>4, <1>7 DEF Prepend
    <3>4. QED
      BY <3>1, <3>2, <3>3 DEF LabelSeq, MaybeLabels
  <2>2. /\ <<first>> \in Seq(Texts) /\ rest \in Seq(Texts)
        /\ Len(<<first>>) = 1 /\ <<first>>[1] = first
    BY <2>1 DEF LabelSeq
  <2> DEFINE one == <<first>>
  <2> HIDE DEF one, Texts
  <2>3. (one \o rest)[1] = one[1]
    <3>1. one \in Seq(Texts) /\ rest \in Seq(Texts) /\ Len(one) = 1 /\ Len(rest) \in Nat
      BY <2>2 DEF one
    <3>2. \A i \in 1..(Len(one) + Len(rest)) :
            (one \o rest)[i] = IF i <= Len(one) THEN one[i] ELSE rest[i - Len(one)]
      BY <3>1, ConcatProperties
    <3>3. QED
      BY <3>1, <3>2
  <2>4. QED
    BY <2>2, <2>3 DEF one
<1>11. QED
  BY <1>1, <1>3, <1>6, <1>8, <1>9, <1>10 DEF first

\* Six bytes of zero behind two.
LEMMA SixZeros ==
  ASSUME NEW a \in Octet, NEW b \in Octet
  PROVE  <<a, b>> \o <<0, 0, 0, 0, 0, 0>> = <<a, b, 0, 0, 0, 0, 0, 0>>
<1> DEFINE front == <<a, b>>
           zeros == <<0, 0, 0, 0, 0, 0>>
           all   == front \o zeros
<1>1. front \in Seq(Octet) /\ Len(front) = 2 /\ front[1] = a /\ front[2] = b
  OBVIOUS
<1>2. zeros \in Seq(Octet) /\ Len(zeros) = 6 /\ \A i \in 1..6 : zeros[i] = 0
  BY DEF Octet
<1> HIDE DEF front, zeros
<1>3. /\ all \in Seq(Octet) /\ Len(all) = Len(front) + Len(zeros)
      /\ \A i \in 1..(Len(front) + Len(zeros)) :
           all[i] = IF i <= Len(front) THEN front[i] ELSE zeros[i - Len(front)]
  BY <1>1, <1>2, ConcatProperties
<1> HIDE DEF all
<1>4. Len(all) = 8 /\ \A i \in 1..8 : all[i] = IF i <= 2 THEN front[i] ELSE zeros[i - 2]
  BY <1>1, <1>2, <1>3
<1>5. all[1] = a /\ all[2] = b /\ \A i \in 3..8 : all[i] = 0
  BY <1>1, <1>2, <1>4
<1>6. /\ all[3] = 0 /\ all[4] = 0 /\ all[5] = 0
      /\ all[6] = 0 /\ all[7] = 0 /\ all[8] = 0
  BY <1>5
<1>7. all = <<all[1], all[2], all[3], all[4], all[5], all[6], all[7], all[8]>>
  <2>1. all \in Seq(Octet) /\ Len(all) = 8
    BY <1>3, <1>4
  <2>2. QED
    BY <2>1
<1>8. QED
  BY <1>5, <1>6, <1>7 DEF all, front, zeros

\* How a reply that copies the first question reads.
LEMMA ReplyReads ==
  ASSUME TypeOK, GoodQuestion(packet, DNS_HEADER_SIZE), QuestionEnd # 0, NEW rcode \in 0..5
  PROVE  LET r  == build_error_response(rcode)
             at == EndOfName(packet, DNS_HEADER_SIZE)
         IN  /\ Len(r) = at + 4
             /\ Field(r, at) = Field(packet, at)
             /\ Field(r, at + 2) = Field(packet, at + 2)
             /\ Names(r, DNS_HEADER_SIZE, 1) = <<CName(packet, DNS_HEADER_SIZE)>>
             /\ \A n \in Count : n > 0 => (Names(r, DNS_HEADER_SIZE, n) # Bad <=> n = 1)
<1> DEFINE H  == DNS_HEADER_SIZE
           r  == build_error_response(rcode)
           at == EndOfName(packet, H)
           name1 == CName(packet, H)
<1>1. /\ packet \in Seq(Octet) /\ len = Len(packet) /\ len \in Nat /\ H \in Nat
      /\ MAX_COMPRESSION_JUMPS \in 0..MAX_COMPRESSION_JUMPS
  BY WireTypes, ParserLimits
<1>2. /\ at \in Nat /\ QuestionEnd = at + 4 /\ H < at
      /\ \A s : SameBytes(s, H, at) => NameAt(s, H) = NameAt(packet, H) /\ EndOfName(s, H) = at
  BY QuestionEndIs
<1>3. r \in Seq(Octet) /\ Len(r) = at + 4 /\ SameBytes(r, H, at + 4)
  <2> HIDE DEF at, r
  <2>1. H <= QuestionEnd
    BY <1>1, <1>2
  <2>2. QED
    BY <1>2, <2>1, ReplyBytes DEF r
<1> HIDE DEF r
<1>4. SameBytes(r, H, at)
  <2> HIDE DEF at
  <2>1. QED
    BY <1>2, <1>3 DEF SameBytes
<1>5. NameAt(r, H) = NameAt(packet, H) /\ EndOfName(r, H) = at
  BY <1>2, <1>4
<1>6. Field(r, at) = Field(packet, at) /\ Field(r, at + 2) = Field(packet, at + 2)
  <2> HIDE DEF at
  <2>1. \A k \in Nat : H <= k /\ k < at + 4 => r[k + 1] = packet[k + 1]
    BY <1>3 DEF SameBytes
  <2>2. /\ at + 1 \in Nat /\ at + 2 \in Nat /\ at + 3 \in Nat
        /\ H <= at /\ H <= at + 1 /\ H <= at + 2 /\ H <= at + 3
        /\ at < at + 4 /\ at + 1 < at + 4 /\ at + 2 < at + 4 /\ at + 3 < at + 4
        /\ (at + 1) + 1 = at + 2 /\ (at + 2) + 1 = at + 3 /\ (at + 3) + 1 = at + 4
        /\ (at + 2) + 2 = at + 4
    BY <1>1, <1>2
  <2>3. r[at + 1] = packet[at + 1] /\ r[at + 2] = packet[at + 2]
        /\ r[at + 3] = packet[at + 3] /\ r[at + 4] = packet[at + 4]
    <3>1. r[at + 1] = packet[at + 1]
      BY <1>2, <2>1, <2>2
    <3>2. r[(at + 1) + 1] = packet[(at + 1) + 1]
      BY <2>1, <2>2
    <3>3. r[(at + 2) + 1] = packet[(at + 2) + 1]
      BY <2>1, <2>2
    <3>4. r[(at + 3) + 1] = packet[(at + 3) + 1]
      BY <2>1, <2>2
    <3>5. QED
      BY <2>2, <3>1, <3>2, <3>3, <3>4
  <2>4. QED
    BY <2>2, <2>3 DEF Field
<1>7. GoodQuestion(r, H) /\ CName(r, H) = name1
  BY <1>3, <1>5 DEF GoodQuestion, GoodName, CName
<1>8. at + 4 \in Nat /\ NameAt(r, at + 4) = Bad
  <2>1. at + 4 \in Nat
    BY <1>2
  <2> HIDE DEF at
  <2>2. IsBroken(r, at + 4)
    BY <1>3, <2>1 DEF IsBroken, IsEnd, IsLabel, IsPointer
  <2>3. LabelsRead(r, at + 4, MAX_COMPRESSION_JUMPS)
    BY <1>1, <1>3, <2>1, LabelsAtIs
  <2>4. QED
    BY <2>1, <2>2, <2>3 DEF LabelsRead, NameAt
<1> DEFINE rest(n) == Names(r, at + 4, n - 1)
<1>9. ASSUME NEW n \in Count, n > 0
      PROVE  /\ Names(r, H, n) = Prepend(<<name1>>, rest(n))
             /\ n = 1 => rest(n) = << >>
             /\ n # 1 => rest(n) = Bad
  <2>1. n \in Nat /\ n # 0 /\ n - 1 \in Count /\ (n = 1 => n - 1 = 0) /\ (n # 1 => n - 1 # 0)
    <3>1. MaxCount \in Nat /\ Count = 0..MaxCount
      BY DEF MaxCount, Count
    <3>2. QED
      BY <1>9, <3>1
  <2>2. NamesRead(r, H, n)
    BY <1>1, <1>3, NamesAre
  <2> HIDE DEF at
  <2>3. Names(r, H, n) = Prepend(<<name1>>, rest(n))
    BY <1>5, <1>7, <2>1, <2>2 DEF NamesRead
  <2>4. NamesRead(r, at + 4, n - 1)
    BY <1>3, <1>8, <2>1, NamesAre
  <2>5. ~GoodQuestion(r, at + 4)
    BY <1>8 DEF GoodQuestion, GoodName
  <2>6. QED
    BY <2>1, <2>3, <2>4, <2>5 DEF NamesRead
<1>10. << >> # Bad /\ <<name1>> # Bad /\ name1 \in Texts
  <2>1. name1 \in Texts
    BY <1>1, GoodNameType DEF GoodQuestion
  <2>2. Bad \notin LabelSeq /\ << >> \in LabelSeq
    BY BadIsNone DEF LabelSeq, Texts
  <2> HIDE DEF name1
  <2>3. <<name1>> \in LabelSeq
    BY <2>1 DEF LabelSeq
  <2> HIDE DEF LabelSeq
  <2>4. QED
    BY <2>1, <2>2, <2>3
<1> HIDE DEF rest, name1
<1>11. ASSUME NEW n \in Count, n > 0
       PROVE  /\ n = 1 => Names(r, H, n) = <<name1>>
              /\ n # 1 => Names(r, H, n) = Bad
  <2>1. CASE n = 1
    <3>1. Names(r, H, n) = Prepend(<<name1>>, << >>)
      BY <1>9, <1>11, <2>1
    <3>2. Prepend(<<name1>>, << >>) = <<name1>>
      BY <1>10 DEF Prepend
    <3>3. QED
      BY <2>1, <3>1, <3>2
  <2>2. CASE n # 1
    <3>1. Names(r, H, n) = Prepend(<<name1>>, Bad)
      BY <1>9, <1>11, <2>2
    <3>2. QED
      BY <2>2, <3>1 DEF Prepend
  <2>3. QED
    BY <2>1, <2>2
<1>12. 1 \in Count
  BY DEF Count, MaxCount
<1>13. Names(r, H, 1) = <<name1>>
  BY <1>11, <1>12
<1>14. \A n \in Count : n > 0 => (Names(r, H, n) # Bad <=> n = 1)
  BY <1>10, <1>11
<1>15. QED
  BY <1>3, <1>6, <1>13, <1>14 DEF r, name1

\* An error response carries the query's ID and RD, as many announced questions
\* and the first of them whole, type and class included; by the rules of the
\* wire format it is read back as that question, and is well-formed exactly when
\* the query had one question.  A query is accepted and gets no reply, but for
\* want of memory, only when its first name has a pointer or it has no question.
THEOREM RepliesCarryQuestion == HandleSpec => []ReplyCarriesQuestion
<1>1. ASSUME HandleInv, WireInv, FirstInv, ReplyInv
      PROVE  ReplyCarriesQuestion
  <2> DEFINE H  == DNS_HEADER_SIZE
             at == EndOfName(packet, H)
  <2>1. TypeOK /\ packet \in Seq(Octet) /\ len = Len(packet) /\ len \in Nat /\ H = 12
        /\ qdcount \in Count /\ qdcount \in Nat
    BY <1>1, WireTypes, HeaderOfTwelve DEF HandleInv, IInv
  <2>2. ASSUME ppc = "ok"
        PROVE  H <= len
    BY <1>1, <2>2 DEF FirstInv
  <2>3. ASSUME ppc = "ok", qdcount > 0
        PROVE  /\ GoodQuestion(packet, H) /\ CName(packet, H) = questions[1].qname
               /\ questions[1].qtype = Field(packet, at)
               /\ questions[1].qclass = Field(packet, at + 2)
    <3>1. questions # << >> /\ GoodQuestion(packet, H) /\ CName(packet, H) = questions[1].qname
      BY <1>1, <2>3, FirstAnnounced
    <3>2. FirstKept
      BY <1>1, <3>1 DEF FirstInv
    <3>3. QED
      BY <3>1, <3>2 DEF FirstKept
  <2>4. ASSUME outcome = "error"
        PROVE  /\ SubSeq(response, 1, 3) = <<packet[1], packet[2], 128 + (packet[3] % 2)>>
               /\ SubSeq(response, 5, 12) = SubSeq(packet, 5, 6) \o <<0, 0, 0, 0, 0, 0>>
               /\ qdcount > 0 =>
                    /\ Names(response, H, 1) = <<questions[1].qname>>
                    /\ Len(response) = at + 4
                    /\ Field(response, at) = questions[1].qtype
                    /\ Field(response, at + 2) = questions[1].qclass
                    /\ Names(response, H, qdcount) # Bad <=> qdcount = 1
    <3>1. ppc = "ok" /\ QuestionEnd # 0
      BY <1>1, <2>4 DEF ReplyInv
    <3>2. PICK rcode \in 0..5 : response = build_error_response(rcode)
      BY <1>1, <2>4 DEF ReplyInv
    <3>3. /\ response \in Seq(Octet) /\ Len(response) >= 12
          /\ \A k \in 1..12 : response[k] = build_dns_header(rcode)[k]
      <4> DEFINE header == build_dns_header(rcode)
                 rest   == SubSeq(packet, DNS_HEADER_SIZE + 1, QuestionEnd)
      <4>1. /\ response = header \o rest /\ response \in Seq(Octet)
            /\ Len(header) = 12 /\ header \in Seq(Octet) /\ rest \in Seq(Octet)
            /\ \A k \in 1..12 : response[k] = header[k]
        BY <2>1, <3>1, <3>2, ReplyBytes
      <4> HIDE DEF header, rest
      <4>2. header \in Seq(Octet) /\ rest \in Seq(Octet)
        BY <4>1
      <4>3. Len(header \o rest) = Len(header) + Len(rest) /\ Len(rest) \in Nat
        BY <4>2, ConcatProperties
      <4>4. Len(response) = 12 + Len(rest)
        BY <4>1, <4>3
      <4>5. Len(response) >= 12
        BY <4>3, <4>4
      <4>6. QED
        BY <4>1, <4>5 DEF header
    <3>4. /\ response[1] = packet[1] /\ response[2] = packet[2]
          /\ response[3] = 128 + (packet[3] % 2)
          /\ response[5] = packet[5] /\ response[6] = packet[6]
          /\ response[7] = 0 /\ response[8] = 0 /\ response[9] = 0
          /\ response[10] = 0 /\ response[11] = 0 /\ response[12] = 0
      <4>1. \A i \in 0..5 : Byte(i) = packet[i + 1]
        BY <2>1, <2>2, <3>1, BytesOfPacket
      <4>2. /\ Byte(0) = packet[1] /\ Byte(1) = packet[2] /\ Byte(2) = packet[3]
            /\ Byte(4) = packet[5] /\ Byte(5) = packet[6]
        BY <4>1
      <4>3. QED
        BY <3>3, <4>2 DEF build_dns_header
    <3>5. Len(packet) >= 12
      BY <2>1, <2>2, <3>1
    <3>6. SubSeq(response, 1, 3) = <<packet[1], packet[2], 128 + (packet[3] % 2)>>
      BY <3>3, <3>4, HeaderParts
    <3>7. SubSeq(response, 5, 12) = <<packet[5], packet[6], 0, 0, 0, 0, 0, 0>>
      BY <3>3, <3>4, HeaderParts
    <3>8. SubSeq(packet, 5, 6) = <<packet[5], packet[6]>>
      BY <2>1, <3>5, HeaderParts
    <3>9. SubSeq(response, 5, 12) = SubSeq(packet, 5, 6) \o <<0, 0, 0, 0, 0, 0>>
      <4>1. packet[5] \in Octet /\ packet[6] \in Octet
        BY <2>1, <3>5
      <4>2. QED
        BY <3>7, <3>8, <4>1, SixZeros
    <3>10. ASSUME qdcount > 0
           PROVE  /\ Names(response, H, 1) = <<questions[1].qname>>
                  /\ Len(response) = at + 4
                  /\ Field(response, at) = questions[1].qtype
                  /\ Field(response, at + 2) = questions[1].qclass
                  /\ Names(response, H, qdcount) # Bad <=> qdcount = 1
      BY <2>1, <2>3, <3>1, <3>2, <3>10, ReplyReads
    <3>11. QED
      BY <3>6, <3>9, <3>10
  <2>5. ASSUME outcome = "dropped", ppc = "ok", caller = "run_server", qdcount > 0
        PROVE  LabelsAt(packet, H, 0) = Bad
    <3>1. QuestionEnd = 0
      BY <1>1, <2>5 DEF ReplyInv
    <3>2. QED
      BY <2>1, <2>3, <2>5, <3>1, QuestionEndIs
  <2>6. QED
    BY <2>4, <2>5 DEF ReplyCarriesQuestion
<1>2. HandleInv /\ WireInv /\ FirstInv /\ ReplyInv => ReplyCarriesQuestion
  BY <1>1
<1>3. QED
  BY <1>2, HandleInvariant, WireInvariant, FirstInvariant, ReplyInvariant, PTL

-----------------------------------------------------------------------------
(* A text, the labels in it and what encode_dns_name makes of them. *)

\* The text of a name with a label more in front.
LEMMA DottedPrepend ==
  ASSUME NEW label \in Texts, NEW labels \in LabelSeq
  PROVE  /\ <<label>> \o labels \in LabelSeq
         /\ Dotted(<<label>> \o labels) = (label \o <<Dot>>) \o Dotted(labels)
<1> DEFINE one == <<label>>
           longer == one \o labels
           point == <<Dot>>
           A == label \o point
           n == Len(labels)
<1>1. point \in Texts
  BY DEF Texts, Dot, Octet
<1>2. A \in Texts
  <2> HIDE DEF point
  <2>1. QED
    BY <1>1 DEF Texts
<1>3. /\ longer \in LabelSeq /\ Len(longer) = n + 1 /\ n \in Nat
      /\ longer[1] = label /\ \A k \in 1..n : longer[k + 1] = labels[k]
  <2>1. one \in Seq(Texts) /\ Len(one) = 1 /\ one[1] = label
    OBVIOUS
  <2>2. labels \in Seq(Texts) /\ n \in Nat
    BY DEF LabelSeq
  <2> HIDE DEF one, Texts
  <2>3. /\ longer \in Seq(Texts) /\ Len(longer) = Len(one) + Len(labels)
        /\ \A i \in 1..Len(one) + Len(labels) :
             longer[i] = IF i <= Len(one) THEN one[i] ELSE labels[i - Len(one)]
    BY <2>1, <2>2, ConcatProperties
  <2>4. longer[1] = label
    BY <2>1, <2>2, <2>3
  <2>5. ASSUME NEW k \in 1..n
        PROVE  longer[k + 1] = labels[k]
    <3>1. k + 1 \in 1..Len(one) + Len(labels) /\ ~(k + 1 <= Len(one)) /\ (k + 1) - Len(one) = k
      BY <2>1, <2>2
    <3>2. QED
      BY <2>3, <3>1
  <2>6. QED
    BY <2>1, <2>2, <2>3, <2>4, <2>5 DEF LabelSeq
<1>4. PICK f : DottedUpTo(labels, f) /\ Dotted(labels) = f[n]
  BY DottedIs
<1>5. PICK h : DottedUpTo(longer, h) /\ Dotted(longer) = h[Len(longer)]
  BY <1>3, DottedIs
<1> DEFINE S == {k \in Nat : k <= n => h[k + 1] = A \o f[k]}
<1> HIDE DEF longer, one
<1>6. 0 \in S
  <2>1. h[1] = h[0] \o longer[1] \o point /\ h[0] = << >> /\ f[0] = << >>
    <3>1. 1 \in 1..Len(longer) /\ 1 - 1 = 0
      BY <1>3
    <3>2. h[1] = h[1 - 1] \o longer[1] \o <<Dot>>
      BY <1>5, <3>1 DEF DottedUpTo
    <3>3. QED
      BY <1>4, <1>5, <3>1, <3>2 DEF DottedUpTo
  <2>2. << >> \o label = label
    BY DEF Texts
  <2>3. A \o << >> = A
    <3> HIDE DEF A
    <3>1. QED
      BY <1>2 DEF Texts
  <2> HIDE DEF point
  <2>4. h[1] = A
    BY <1>3, <2>1, <2>2
  <2> HIDE DEF A
  <2>5. QED
    BY <2>1, <2>3, <2>4
<1>7. ASSUME NEW k \in Nat, k \in S
      PROVE  k + 1 \in S
  <2> HIDE DEF A, n
  <2> SUFFICES ASSUME k + 1 <= n
               PROVE  h[(k + 1) + 1] = A \o f[k + 1]
    OBVIOUS
  <2>1. k + 1 \in 1..n /\ k \in 0..n /\ (k + 1) + 1 \in 1..Len(longer)
        /\ (k + 1) - 1 = k /\ ((k + 1) + 1) - 1 = k + 1 /\ k <= n
    BY <1>3
  <2>2. h[k + 1] = A \o f[k]
    BY <1>7, <2>1
  <2> DEFINE l == labels[k + 1]
  <2>3. f[k + 1] = f[k] \o l \o point
    <3>1. f[k + 1] = f[(k + 1) - 1] \o labels[k + 1] \o <<Dot>>
      BY <1>4, <2>1 DEF DottedUpTo, n
    <3>2. QED
      BY <2>1, <3>1
  <2>4. h[(k + 1) + 1] = h[k + 1] \o l \o point
    <3>1. h[(k + 1) + 1] = h[((k + 1) + 1) - 1] \o longer[(k + 1) + 1] \o <<Dot>>
      BY <1>5, <2>1 DEF DottedUpTo
    <3>2. longer[(k + 1) + 1] = l
      BY <1>3, <2>1
    <3>3. QED
      BY <2>1, <3>1, <3>2
  <2>5. f[k] \in Texts /\ l \in Texts
    BY <1>4, <2>1 DEF DottedUpTo, n, LabelSeq
  <2> HIDE DEF A, l, point
  <2>6. ((A \o f[k]) \o l) \o point = A \o ((f[k] \o l) \o point)
    <3>1. A \in Texts /\ f[k] \in Texts /\ l \in Texts /\ point \in Texts
      BY <1>1, <1>2, <2>5
    <3> DEFINE F == f[k]
    <3>2. PICK a, b, c, e \in Texts : a = A /\ b = F /\ c = l /\ e = point
      <4> HIDE DEF F
      <4>1. QED
        BY <3>1 DEF F
    <3>3. ((a \o b) \o c) \o e = a \o ((b \o c) \o e)
      <4>1. a \in Seq(Octet) /\ b \in Seq(Octet) /\ c \in Seq(Octet) /\ e \in Seq(Octet)
        BY DEF Texts
      <4> DEFINE bc == b \o c
      <4>2. bc \in Seq(Octet)
        BY <4>1
      <4>3. (a \o b) \o c = a \o bc
        BY <4>1
      <4> HIDE DEF bc
      <4>4. (a \o bc) \o e = a \o (bc \o e)
        BY <4>1, <4>2
      <4>5. QED
        BY <4>3, <4>4 DEF bc
    <3>4. QED
      BY <3>2, <3>3
  <2>7. QED
    BY <2>2, <2>3, <2>4, <2>6
<1>8. n \in S
  <2> HIDE DEF S
  <2>1. QED
    BY <1>3, <1>6, <1>7, SetInduction
<1>9. h[n + 1] = A \o f[n]
  <2> HIDE DEF A, n
  <2>1. QED
    BY <1>3, <1>8
<1>10. Dotted(longer) = A \o Dotted(labels)
  BY <1>3, <1>4, <1>5, <1>9
<1>11. QED
  BY <1>3, <1>10 DEF longer, one

\* labs[i] are the labels in the text from place i on.
Spells(d, labs) ==
  /\ labs \in [1..(Len(d) + 1) -> LabelSeq]
  /\ labs[Len(d) + 1] = << >>
  /\ \A i \in 1..Len(d) :
       /\ d[i] = Dot => labs[i] = labs[i + 1]
       /\ d[i] # Dot => labs[i] = <<SubSeq(d, i, DotOrEnd(d, i) - 1)>> \o labs[DotOrEnd(d, i)]

\* C strings are texts.
LEMMA CTextIsText == \A s \in CText : s \in Texts
<1>1. Octet \ {0} \subseteq Octet
  OBVIOUS
<1>2. QED
  BY <1>1, SeqMonotonic DEF CText, Texts

\* Every text has labels.
LEMMA SpellsSome ==
  ASSUME NEW d \in CText
  PROVE  \E labs : Spells(d, labs)
<1> DEFINE n == Len(d)
           at(i) == SubSeq(d, i, DotOrEnd(d, i) - 1)
           c == << >>
           g == [i \in 1..n |-> [v \in LabelSeq |-> IF d[i] = Dot THEN v ELSE <<at(i)>> \o v]]
<1>1. n \in Nat
  BY DEF CText
<1>2. c \in LabelSeq
  BY DEF LabelSeq
<1>3. \A i \in 1..n : d[i] # Dot => at(i) \in Texts
  BY LabelText, CTextIsText
<1>4. g \in [1..n -> [LabelSeq -> LabelSeq]]
  <2> SUFFICES ASSUME NEW i \in 1..n, NEW v \in LabelSeq, d[i] # Dot
               PROVE  <<at(i)>> \o v \in LabelSeq
    OBVIOUS
  <2> HIDE DEF at
  <2>1. QED
    BY <1>3, DottedPrepend
<1>5. PICK f \in [1..(n + 1) -> LabelSeq] : FollowsLabels(d, f, c, g)
  <2> HIDE DEF c, g
  <2>1. QED
    BY <1>2, <1>4, LabelRecursion
<1>6. f[n + 1] = << >>
  BY <1>5 DEF FollowsLabels
<1>7. ASSUME NEW i \in 1..n
      PROVE  /\ d[i] = Dot => f[i] = f[i + 1]
             /\ d[i] # Dot => f[i] = <<at(i)>> \o f[DotOrEnd(d, i)]
  <2>1. d[i] # Dot => DotOrEnd(d, i) \in 1..(n + 1)
    BY <1>1, LabelEndsAhead
  <2>2. /\ d[i] = Dot => f[i] = f[i + 1]
        /\ d[i] # Dot => f[i] = g[i][f[DotOrEnd(d, i)]]
    BY <1>5 DEF FollowsLabels
  <2>3. d[i] # Dot => f[DotOrEnd(d, i)] \in LabelSeq
    BY <2>1
  <2> HIDE DEF at
  <2>4. QED
    BY <2>2, <2>3
<1>8. Spells(d, f)
  <2>1. \A i \in 1..Len(d) : /\ d[i] = Dot => f[i] = f[i + 1]
                             /\ d[i] # Dot => f[i] = <<at(i)>> \o f[DotOrEnd(d, i)]
    BY <1>7
  <2>2. QED
    BY <1>5, <1>6, <2>1 DEF Spells
<1>9. QED
  BY <1>8

\* Part of a text, character by character.
LEMMA FirstOfPart ==
  ASSUME NEW d \in CText, NEW i \in 1..Len(d), NEW e \in (i + 1)..(Len(d) + 1)
  PROVE  /\ SubSeq(d, i, e - 1) = <<d[i]>> \o SubSeq(d, i + 1, e - 1)
         /\ d[i] \in Octet \ {0} /\ SubSeq(d, i + 1, e - 1) \in CText
<1> DEFINE B == Octet \ {0}
<1>1. d \in Seq(B) /\ Len(d) \in Nat /\ d[i] \in B /\ i \in Nat
      /\ e - 1 \in i..Len(d)
  BY DEF CText
<1> HIDE DEF B
<1>2. SubSeq(d, i, e - 1) = <<d[i]>> \o SubSeq(d, i + 1, e - 1)
  BY <1>1, SubSeqRecursiveFirst
<1>3. SubSeq(d, i + 1, e - 1) \in Seq(B)
  BY <1>1
<1>4. QED
  BY <1>1, <1>2, <1>3 DEF B, CText

\* text[i] is the text of the labels from place i of d on, character by
\* character: a dot stands behind each label.
CharByChar(d, text) ==
  /\ text \in [1..(Len(d) + 1) -> Texts]
  /\ text[Len(d) + 1] = << >>
  /\ \A i \in 1..Len(d) :
       /\ d[i] = Dot => text[i] = text[i + 1]
       /\ d[i] # Dot => text[i] # << >>
       /\ d[i] # Dot /\ i < Len(d) /\ d[i + 1] # Dot => text[i] = <<d[i]>> \o text[i + 1]
       /\ d[i] # Dot /\ (i = Len(d) \/ d[i + 1] = Dot) =>
            text[i] = (<<d[i]>> \o <<Dot>>) \o text[i + 1]

\* A label at a place, its text and the text from there on.
LEMMA TextOfLabel ==
  ASSUME NEW d \in CText, NEW labs, Spells(d, labs), NEW i \in 1..Len(d), d[i] # Dot
  PROVE  /\ DotOrEnd(d, i) \in (i + 1)..(Len(d) + 1)
         /\ SubSeq(d, i, DotOrEnd(d, i) - 1) \in Texts
         /\ labs[DotOrEnd(d, i)] \in LabelSeq /\ Dotted(labs[DotOrEnd(d, i)]) \in Texts
         /\ Dotted(labs[i]) = (SubSeq(d, i, DotOrEnd(d, i) - 1) \o <<Dot>>)
                                \o Dotted(labs[DotOrEnd(d, i)])
<1> DEFINE e == DotOrEnd(d, i)
           a == SubSeq(d, i, e - 1)
<1>1. Len(d) \in Nat /\ e \in (i + 1)..(Len(d) + 1)
  BY LabelEndsAhead DEF CText
<1>2. e \in 1..(Len(d) + 1)
  BY <1>1
<1>3. a \in Texts
  BY LabelText, CTextIsText
<1>4. labs[e] \in LabelSeq
  BY <1>2 DEF Spells
<1>5. labs[i] = <<a>> \o labs[e]
  BY DEF Spells
<1>6. << >> \in LabelSeq
  BY DEF LabelSeq
<1>7. Dotted(labs[e]) \in Texts
  BY <1>4, <1>6, DottedText
<1> HIDE DEF e, a
<1>8. Dotted(labs[i]) = (a \o <<Dot>>) \o Dotted(labs[e])
  BY <1>3, <1>4, <1>5, DottedPrepend
<1>9. QED
  BY <1>1, <1>3, <1>4, <1>7, <1>8 DEF e, a

\* The text of the labels of a text.
LEMMA SpelledText ==
  ASSUME NEW d \in CText, NEW labs, Spells(d, labs)
  PROVE  CharByChar(d, [i \in 1..(Len(d) + 1) |-> Dotted(labs[i])])
<1> DEFINE n == Len(d)
           text == [i \in 1..(n + 1) |-> Dotted(labs[i])]
<1>1. n \in Nat /\ \A i \in 1..(n + 1) : labs[i] \in LabelSeq
  BY DEF CText, Spells
<1>2. << >> \in LabelSeq
  BY DEF LabelSeq
<1>3. \A i \in 1..(n + 1) : Dotted(labs[i]) \in Texts
  BY <1>1, <1>2, DottedText
<1>4. text[n + 1] = << >>
  <2>1. n + 1 \in 1..(n + 1) /\ labs[n + 1] = << >>
    BY <1>1 DEF Spells
  <2>2. text[n + 1] = Dotted(labs[n + 1])
    BY <2>1
  <2>3. QED
    BY <1>2, <2>1, <2>2, DottedEnds
<1>5. \A i \in 1..n : text[i] = Dotted(labs[i]) /\ text[i + 1] = Dotted(labs[i + 1])
                      /\ i + 1 \in 1..(n + 1)
  BY <1>1
<1> DEFINE dot == <<Dot>>
<1>6. dot \in Seq(Octet)
  BY DEF Dot, Octet
<1>7. text \in [1..(n + 1) -> Texts]
  BY <1>3
<1> HIDE DEF text
<1>8. ASSUME NEW i \in 1..n, d[i] = Dot
      PROVE  text[i] = text[i + 1]
  <2>1. labs[i] = labs[i + 1]
    BY <1>8 DEF Spells
  <2>2. QED
    BY <1>5, <2>1
<1>9. ASSUME NEW i \in 1..n, d[i] # Dot, i = n \/ d[i + 1] = Dot
      PROVE  text[i] = (<<d[i]>> \o dot) \o text[i + 1]
  <2>1. DotOrEnd(d, i) = i + 1
    BY <1>9, LabelEndsAhead
  <2>2. Dotted(labs[i]) = (SubSeq(d, i, (i + 1) - 1) \o dot) \o Dotted(labs[i + 1])
    BY <1>9, <2>1, TextOfLabel
  <2>3. i \in Nat /\ i + 1 \in (i + 1)..(n + 1) /\ (i + 1) - 1 = i /\ i + 1 > i
    BY <1>1
  <2>4. SubSeq(d, i, i) = <<d[i]>>
    <3>1. SubSeq(d, i, i) = <<d[i]>> \o SubSeq(d, i + 1, i) /\ d[i] \in Octet \ {0}
      BY <2>3, FirstOfPart
    <3>2. SubSeq(d, i + 1, i) = << >>
      BY <2>3, SubSeqEmpty
    <3> DEFINE one == <<d[i]>>
    <3>3. one \in Seq(Octet)
      BY <3>1
    <3> HIDE DEF one
    <3>4. one \o << >> = one
      BY <3>3
    <3>5. QED
      BY <3>1, <3>2, <3>4 DEF one
  <2>5. QED
    BY <1>5, <2>2, <2>3, <2>4
<1>10. ASSUME NEW i \in 1..n, d[i] # Dot, i < n, d[i + 1] # Dot
       PROVE  text[i] = <<d[i]>> \o text[i + 1]
  <2> DEFINE e == DotOrEnd(d, i)
             one == <<d[i]>>
             b == SubSeq(d, i + 1, e - 1)
             rest == Dotted(labs[e])
             bd == b \o dot
  <2>1. i + 1 \in 1..n /\ e = DotOrEnd(d, i + 1)
    BY <1>1, <1>10, LabelEndsAhead
  <2>2. /\ e \in (i + 1)..(n + 1) /\ b \in Texts /\ rest \in Texts
        /\ Dotted(labs[i]) = (SubSeq(d, i, e - 1) \o dot) \o rest
        /\ Dotted(labs[i + 1]) = bd \o rest
    BY <1>10, <2>1, TextOfLabel
  <2>3. SubSeq(d, i, e - 1) = one \o b /\ d[i] \in Octet \ {0}
    BY <2>2, FirstOfPart
  <2>4. one \in Seq(Octet)
    BY <2>3
  <2> HIDE DEF e, one, b, rest, dot
  <2>5. b \in Seq(Octet) /\ rest \in Seq(Octet)
    BY <2>2 DEF Texts
  <2>6. bd \in Seq(Octet)
    BY <1>6, <2>5
  <2>7. (one \o b) \o dot = one \o bd
    BY <1>6, <2>4, <2>5
  <2> HIDE DEF bd
  <2>8. (one \o bd) \o rest = one \o (bd \o rest)
    BY <2>4, <2>5, <2>6
  <2>9. text[i] = one \o text[i + 1]
    BY <1>5, <2>2, <2>3, <2>7, <2>8
  <2>10. QED
    BY <2>9 DEF one
<1>11. ASSUME NEW i \in 1..n, d[i] # Dot
       PROVE  text[i] # << >>
  <2>1. labs[i] = <<SubSeq(d, i, DotOrEnd(d, i) - 1)>> \o labs[DotOrEnd(d, i)]
    BY <1>11 DEF Spells
  <2>2. SubSeq(d, i, DotOrEnd(d, i) - 1) \in Texts /\ labs[DotOrEnd(d, i)] \in Seq(Texts)
    BY <1>11, TextOfLabel DEF LabelSeq
  <2> DEFINE one == <<SubSeq(d, i, DotOrEnd(d, i) - 1)>>
             more == labs[DotOrEnd(d, i)]
  <2>3. one \in Seq(Texts) /\ Len(one) = 1
    BY <2>2
  <2> HIDE DEF one
  <2>4. one # << >>
    BY <2>3
  <2>5. more \in Seq(Texts)
    BY <2>2
  <2> HIDE DEF more, Texts
  <2>6. one \o more # << >>
    BY <2>3, <2>4, <2>5, ConcatEqualIffEmpty
  <2>7. labs[i] # << >> /\ labs[i] \in LabelSeq
    <3>1. i \in 1..(n + 1)
      BY <1>1
    <3>2. QED
      BY <1>1, <2>1, <2>6, <3>1 DEF one, more
  <2>8. QED
    BY <1>5, <2>7, DottedEnds
<1>12. CharByChar(d, text)
  BY <1>4, <1>7, <1>8, <1>9, <1>10, <1>11 DEF CharByChar
<1>13. QED
  BY <1>12 DEF text

\* What is written for a label: its length, its characters, and the rest.
LEMMA PartsOfLine ==
  ASSUME NEW d \in CText, ~LabelTooLong(d), NEW w, Encodes(d, w),
         NEW i \in 1..Len(d), d[i] # Dot
  PROVE  LET e == DotOrEnd(d, i)
             b == e - i
         IN  /\ b \in 1..DNS_MAX_LABEL_LEN /\ e \in (i + 1)..(Len(d) + 1)
             /\ w[i] \in Seq(Octet) /\ w[e] \in Seq(Octet)
             /\ Len(w[i]) = 1 + b + Len(w[e])
             /\ w[i][1] = b
             /\ \A k \in 1..b : w[i][1 + k] = d[i + k - 1]
             /\ \A k \in 1..Len(w[e]) : w[i][1 + b + k] = w[e][k]
<1> DEFINE e == DotOrEnd(d, i)
           b == e - i
           a == SubSeq(d, i, e - 1)
           one == <<b>>
           r == w[e]
           s == w[i]
<1>1. Len(d) \in Nat /\ e \in (i + 1)..(Len(d) + 1)
  BY LabelEndsAhead DEF CText
<1>2. w \in [1..(Len(d) + 1) -> Seq(Octet)]
  BY LabelsType
<1>3. i \in 1..(Len(d) + 1) /\ e \in 1..(Len(d) + 1)
  BY <1>1
<1>4. r \in Seq(Octet) /\ s \in Seq(Octet)
  BY <1>2, <1>3
<1>5. b \in 1..DNS_MAX_LABEL_LEN
  <2>1. i \in DOMAIN d /\ ~(e - i > DNS_MAX_LABEL_LEN)
    BY DEF LabelTooLong, CText
  <2>2. QED
    BY <1>1, <2>1, ParserLimits
<1>6. a \in Seq(Octet) /\ Len(a) = b
  BY LabelText, CTextIsText DEF Texts
<1>7. \A k \in 1..b : a[k] = d[i + k - 1]
  BY <1>1 DEF CText
<1>8. one \in Seq(Octet) /\ Len(one) = 1 /\ one[1] = b
  <2> HIDE DEF b
  <2>1. b \in Octet
    BY <1>5, ParserLimits DEF Octet
  <2>2. QED
    BY <2>1
<1>9. s = (one \o a) \o r
  BY DEF Encodes, LengthAndText
<1> HIDE DEF s, r, one, a, b, e
<1> DEFINE h == one \o a
<1>10. /\ h \in Seq(Octet) /\ Len(h) = Len(one) + Len(a)
       /\ \A j \in 1..Len(one) + Len(a) : h[j] = IF j <= Len(one) THEN one[j] ELSE a[j - Len(one)]
  BY <1>6, <1>8, ConcatProperties
<1> HIDE DEF h
<1>11. b \in Nat /\ b >= 1 /\ Len(h) = 1 + b /\ Len(r) \in Nat
  BY <1>4, <1>5, <1>6, <1>8, <1>10, ParserLimits
<1>12. /\ Len(s) = Len(h) + Len(r)
       /\ \A j \in 1..Len(h) + Len(r) : s[j] = IF j <= Len(h) THEN h[j] ELSE r[j - Len(h)]
  <2>1. s = h \o r
    BY <1>9 DEF h
  <2>2. /\ Len(h \o r) = Len(h) + Len(r)
        /\ \A j \in 1..Len(h) + Len(r) :
             (h \o r)[j] = IF j <= Len(h) THEN h[j] ELSE r[j - Len(h)]
    <3>1. h \in Seq(Octet) /\ r \in Seq(Octet)
      BY <1>4, <1>10
    <3>2. QED
      BY <3>1, ConcatProperties
  <2>3. QED
    BY <2>1, <2>2
<1>13. Len(s) = 1 + b + Len(r)
  BY <1>11, <1>12
<1>14. s[1] = b
  <2>1. 1 \in 1..Len(h) + Len(r) /\ 1 <= Len(h) /\ 1 \in 1..Len(one) + Len(a) /\ 1 <= Len(one)
    BY <1>6, <1>8, <1>11
  <2>2. s[1] = h[1] /\ h[1] = one[1]
    BY <1>10, <1>12, <2>1
  <2>3. QED
    BY <1>8, <2>2
<1>15. ASSUME NEW k \in 1..b
       PROVE  s[1 + k] = d[i + k - 1]
  <2>1. /\ 1 + k \in 1..Len(h) + Len(r) /\ 1 + k <= Len(h)
        /\ 1 + k \in 1..Len(one) + Len(a) /\ ~(1 + k <= Len(one)) /\ (1 + k) - Len(one) = k
    BY <1>6, <1>8, <1>11
  <2>2. s[1 + k] = h[1 + k] /\ h[1 + k] = a[k]
    BY <1>10, <1>12, <2>1
  <2>3. QED
    BY <1>7, <2>2
<1>16. ASSUME NEW k \in 1..Len(r)
       PROVE  s[1 + b + k] = r[k]
  <2>1. /\ 1 + b + k \in 1..Len(h) + Len(r) /\ ~(1 + b + k <= Len(h))
        /\ (1 + b + k) - Len(h) = k
    BY <1>11
  <2>2. QED
    BY <1>12, <2>1
<1>17. QED
  BY <1>1, <1>4, <1>5, <1>13, <1>14, <1>15, <1>16 DEF s, r, b, e

\* What is written for a text is as long as the text of its labels.
LEMMA LengthsAgree ==
  ASSUME NEW d \in CText, ~LabelTooLong(d), NEW w, Encodes(d, w), NEW labs, Spells(d, labs)
  PROVE  \A i \in 1..(Len(d) + 1) : Len(w[i]) = Len(Dotted(labs[i]))
<1> DEFINE L == Len(d) + 1
           S == {i \in Nat : i \in 1..L => Len(w[i]) = Len(Dotted(labs[i]))}
<1>1. Len(d) \in Nat /\ L \in Nat
  BY DEF CText
<1>2. Len(w[L]) = Len(Dotted(labs[L]))
  <2>1. w[L] = << >> /\ labs[L] = << >> /\ << >> \in LabelSeq
    BY DEF Encodes, Spells, LabelSeq
  <2>2. Dotted(<< >>) = << >>
    BY <2>1, DottedEnds
  <2>3. QED
    BY <2>1, <2>2
<1>3. \A i \in Nat : i >= L => i \in S
  BY <1>1, <1>2
<1>4. ASSUME NEW i \in Nat, \A j \in Nat : i < j => j \in S
      PROVE  i \in S
  <2> SUFFICES ASSUME i \in 1..L
               PROVE  Len(w[i]) = Len(Dotted(labs[i]))
    OBVIOUS
  <2>1. CASE i = L
    BY <1>2, <2>1
  <2>2. CASE i # L /\ d[i] = Dot
    <3>1. i \in 1..Len(d) /\ i + 1 \in Nat /\ i < i + 1 /\ i + 1 \in 1..L
      BY <1>1, <2>2
    <3>2. w[i] = w[i + 1] /\ labs[i] = labs[i + 1]
      BY <2>2, <3>1 DEF Encodes, Spells
    <3>3. QED
      BY <1>4, <3>1, <3>2
  <2>3. CASE i # L /\ d[i] # Dot
    <3> DEFINE e == DotOrEnd(d, i)
               a == SubSeq(d, i, e - 1)
               rest == Dotted(labs[e])
    <3>1. i \in 1..Len(d)
      BY <1>1, <2>3
    <3>2. e \in (i + 1)..L /\ Len(w[i]) = 1 + (e - i) + Len(w[e])
      BY <2>3, <3>1, PartsOfLine
    <3>3. a \in Texts /\ rest \in Texts /\ Dotted(labs[i]) = (a \o <<Dot>>) \o rest
      BY <2>3, <3>1, TextOfLabel
    <3>4. Len(a) = e - i
      BY <2>3, <3>1, LabelText
    <3>5. e \in Nat /\ i < e /\ e \in 1..L
      BY <1>1, <3>2
    <3>6. Len(w[e]) = Len(rest)
      BY <1>4, <3>5
    <3> HIDE DEF e, a, rest
    <3>7. Len((a \o <<Dot>>) \o rest) = Len(a) + 1 + Len(rest)
      BY <3>3 DEF Texts
    <3>8. Len(rest) \in Nat
      BY <3>3 DEF Texts
    <3>9. QED
      BY <3>2, <3>3, <3>4, <3>5, <3>6, <3>7, <3>8
  <2>4. QED
    BY <2>1, <2>2, <2>3
<1> HIDE DEF S, L
<1>5. \A i \in Nat : i \in S
  BY <1>1, <1>3, <1>4, UpwardInduction
<1>6. \A i \in 1..L : i \in Nat
  BY <1>1
<1>7. \A i \in 1..L : Len(w[i]) = Len(Dotted(labs[i]))
  BY <1>5, <1>6 DEF S
<1>8. QED
  BY <1>7 DEF L

\* At place q of p there is s, and a zero byte after it.
HoldsName(p, q, s) ==
  /\ q + Len(s) + 1 <= Len(p)
  /\ \A k \in 1..Len(s) : p[q + k] = s[k]
  /\ p[q + Len(s) + 1] = 0

\* A label that is written is a label of the wire format, what follows it the
\* rest of the name.
LEMMA LabelHeld ==
  ASSUME NEW d \in CText, ~LabelTooLong(d), NEW w, Encodes(d, w), NEW p \in Seq(Octet),
         NEW i \in 1..Len(d), d[i] # Dot, NEW q \in Nat, HoldsName(p, q, w[i])
  PROVE  LET e == DotOrEnd(d, i)
             to == q + 1 + p[q + 1]
         IN  /\ e \in (i + 1)..(Len(d) + 1)
             /\ IsLabel(p, q) /\ LabelOf(p, q) = SubSeq(d, i, e - 1)
             /\ to \in Nat /\ HoldsName(p, to, w[e])
             /\ to + Len(w[e]) + 1 = q + Len(w[i]) + 1
<1> DEFINE e == DotOrEnd(d, i)
           b == e - i
           r == w[e]
           s == w[i]
           a == SubSeq(d, i, e - 1)
           to == q + 1 + b
<1>1. /\ b \in 1..DNS_MAX_LABEL_LEN /\ e \in (i + 1)..(Len(d) + 1)
      /\ s \in Seq(Octet) /\ r \in Seq(Octet)
      /\ Len(s) = 1 + b + Len(r)
      /\ s[1] = b
      /\ \A k \in 1..b : s[1 + k] = d[i + k - 1]
      /\ \A k \in 1..Len(r) : s[1 + b + k] = r[k]
  BY PartsOfLine
<1>2. a \in Seq(Octet \ {0}) /\ Len(a) = b /\ a \in Seq(Octet)
  BY LabelText, CTextIsText DEF Texts, CText
<1>3. \A k \in 1..b : a[k] = d[i + k - 1]
  <2>1. Len(d) \in Nat
    BY DEF CText
  <2>2. QED
    BY <1>1, <2>1 DEF CText
<1>4. q + Len(s) + 1 <= Len(p) /\ (\A k \in 1..Len(s) : p[q + k] = s[k]) /\ p[q + Len(s) + 1] = 0
  BY DEF HoldsName
<1> HIDE DEF e, b, r, s, a
<1>5. b \in Nat /\ b >= 1 /\ Len(r) \in Nat /\ Len(s) \in Nat /\ Len(p) \in Nat /\ to \in Nat
  BY <1>1, ParserLimits
<1> HIDE DEF to
<1>6. to = q + 1 + b
  BY DEF to
<1>7. p[q + 1] = b
  BY <1>1, <1>4, <1>5
<1>8. q < Len(p) /\ to <= Len(p)
  BY <1>1, <1>4, <1>5, <1>6
<1>9. IsLabel(p, q)
  BY <1>1, <1>6, <1>7, <1>8 DEF IsLabel
<1>10. LabelOf(p, q) = a
  <2> DEFINE l == SubSeq(p, q + 2, to)
  <2>1. LabelOf(p, q) = l
    BY <1>6, <1>7 DEF LabelOf
  <2>2. l \in Seq(Octet) /\ Len(l) = b /\ \A k \in 1..b : l[k] = p[(q + 2) + k - 1]
    <3>1. \A k \in (q + 2)..to : p[k] \in Octet
      BY <1>5, <1>8
    <3>2. q + 2 \in Int /\ to \in Int /\ q + 2 <= to /\ to - (q + 2) + 1 = b
      BY <1>5, <1>6
    <3> DEFINE from == q + 2
    <3> HIDE DEF from
    <3>3. /\ SubSeq(p, from, to) \in Seq(Octet)
          /\ Len(SubSeq(p, from, to)) = IF from <= to THEN to - from + 1 ELSE 0
          /\ \A k \in 1..to - from + 1 : SubSeq(p, from, to)[k] = p[from + k - 1]
      BY <3>1, <3>2, SubSeqProperties DEF from
    <3>4. from <= to /\ to - from + 1 = b
      BY <3>2 DEF from
    <3>5. QED
      BY <3>3, <3>4 DEF from
  <2> HIDE DEF l
  <2>3. ASSUME NEW k \in 1..b
        PROVE  l[k] = a[k]
    <3>1. 1 + k \in 1..Len(s) /\ (q + 2) + k - 1 = q + (1 + k)
      BY <1>1, <1>5
    <3>2. l[k] = p[q + (1 + k)]
      BY <2>2, <3>1
    <3>3. p[q + (1 + k)] = s[1 + k]
      BY <1>4, <3>1
    <3>4. QED
      BY <1>1, <1>3, <3>2, <3>3
  <2>4. l = a
    BY <1>2, <2>2, <2>3, SeqEqual
  <2>5. QED
    BY <2>1, <2>4
<1>11. to + Len(r) + 1 = q + Len(s) + 1
  BY <1>1, <1>5, <1>6
<1>12. \A k \in 1..Len(r) : p[to + k] = r[k]
  <2> SUFFICES ASSUME NEW k \in 1..Len(r)
               PROVE  p[to + k] = r[k]
    OBVIOUS
  <2>1. 1 + b + k \in 1..Len(s) /\ to + k = q + (1 + b + k)
    BY <1>1, <1>5, <1>6
  <2>2. p[q + (1 + b + k)] = s[1 + b + k]
    BY <1>4, <2>1
  <2>3. QED
    BY <1>1, <2>1, <2>2
<1>13. HoldsName(p, to, r)
  BY <1>4, <1>11, <1>12 DEF HoldsName
<1>14. to = q + 1 + p[q + 1]
  BY <1>6, <1>7
<1>15. QED
  BY <1>1, <1>5, <1>9, <1>10, <1>11, <1>13, <1>14 DEF e, r, s, a

\* A text that is written is read back label by label.
LEMMA WrittenReads ==
  ASSUME NEW d \in CText, ~LabelTooLong(d), NEW w, Encodes(d, w), NEW labs, Spells(d, labs),
         NEW p \in Seq(Octet), NEW q \in Nat, HoldsName(p, q, w[1])
  PROVE  NameAt(p, q) = labs[1] /\ EndOfName(p, q) = q + Len(w[1]) + 1
<1> DEFINE L == Len(d) + 1
           ReadBack(i, at) == NameAt(p, at) = labs[i] /\ EndOfName(p, at) = at + Len(w[i]) + 1
           S == {i \in Nat : i \in 1..L =>
                   \A at \in Nat : HoldsName(p, at, w[i]) => ReadBack(i, at)}
<1>1. Len(d) \in Nat /\ L \in Nat
  BY DEF CText
<1>2. MAX_COMPRESSION_JUMPS \in 0..MAX_COMPRESSION_JUMPS
  BY ParserLimits
<1>3. \A at \in Nat : LabelsRead(p, at, MAX_COMPRESSION_JUMPS) /\ EndRead(p, at)
  BY <1>2, LabelsAtIs, EndOfNameIs
<1>4. \A at \in Nat : HoldsName(p, at, w[L]) => ReadBack(L, at)
  <2> SUFFICES ASSUME NEW at \in Nat, HoldsName(p, at, w[L])
               PROVE  ReadBack(L, at)
    OBVIOUS
  <2>1. w[L] = << >> /\ labs[L] = << >>
    BY DEF Encodes, Spells
  <2>2. at + 0 + 1 <= Len(p) /\ p[at + 0 + 1] = 0 /\ at + 0 + 1 = at + 1
    BY <2>1 DEF HoldsName
  <2>3. IsEnd(p, at)
    BY <2>2 DEF IsEnd
  <2>4. NameAt(p, at) = << >> /\ EndOfName(p, at) = at + 1
    BY <1>3, <2>3 DEF LabelsRead, EndRead, NameAt
  <2>5. Len(w[L]) = 0
    BY <2>1
  <2>6. QED
    BY <2>1, <2>2, <2>4, <2>5
<1> HIDE DEF ReadBack
<1>5. \A i \in Nat : i >= L => i \in S
  BY <1>1, <1>4
<1>6. ASSUME NEW i \in Nat, \A j \in Nat : i < j => j \in S
      PROVE  i \in S
  <2> SUFFICES ASSUME i \in 1..L, NEW at \in Nat, HoldsName(p, at, w[i])
               PROVE  ReadBack(i, at)
    OBVIOUS
  <2>1. CASE i = L
    BY <1>4, <2>1
  <2>2. CASE i # L /\ d[i] = Dot
    <3>1. i \in 1..Len(d) /\ i + 1 \in Nat /\ i < i + 1 /\ i + 1 \in 1..L
      BY <1>1, <2>2
    <3>2. w[i] = w[i + 1] /\ labs[i] = labs[i + 1]
      BY <2>2, <3>1 DEF Encodes, Spells
    <3>3. ReadBack(i + 1, at)
      BY <1>6, <3>1, <3>2
    <3>4. QED
      BY <3>2, <3>3 DEF ReadBack
  <2>3. CASE i # L /\ d[i] # Dot
    <3> DEFINE e == DotOrEnd(d, i)
               a == SubSeq(d, i, e - 1)
               to == at + 1 + p[at + 1]
    <3>1. i \in 1..Len(d)
      BY <1>1, <2>3
    <3>2. /\ e \in (i + 1)..L
          /\ IsLabel(p, at) /\ LabelOf(p, at) = a
          /\ to \in Nat /\ HoldsName(p, to, w[e])
          /\ to + Len(w[e]) + 1 = at + Len(w[i]) + 1
      BY <2>3, <3>1, LabelHeld
    <3>3. e \in Nat /\ i < e /\ e \in 1..L
      BY <1>1, <3>2
    <3>4. ReadBack(e, to)
      BY <1>6, <3>2, <3>3
    <3>5. a \in Texts /\ labs[e] \in LabelSeq /\ labs[i] = <<a>> \o labs[e]
      BY <2>3, <3>1, TextOfLabel DEF Spells
    <3> HIDE DEF e, a
    <3>6. NameAt(p, at) = Prepend(<<a>>, NameAt(p, to)) /\ EndOfName(p, at) = EndOfName(p, to)
      BY <1>3, <3>2 DEF LabelsRead, EndRead, NameAt
    <3> HIDE DEF to
    <3>7. Prepend(<<a>>, labs[e]) = <<a>> \o labs[e]
      <4>1. labs[e] # Bad
        BY <3>5, BadIsNone DEF LabelSeq, Texts
      <4>2. QED
        BY <4>1 DEF Prepend
    <3>8. QED
      BY <3>2, <3>4, <3>5, <3>6, <3>7 DEF ReadBack
  <2>4. QED
    BY <2>1, <2>2, <2>3
<1> HIDE DEF S, L
<1>7. \A i \in Nat : i \in S
  BY <1>1, <1>5, <1>6, UpwardInduction
<1>8. 1 \in Nat /\ 1 \in 1..L
  BY <1>1 DEF L
<1>9. ReadBack(1, q)
  BY <1>7, <1>8 DEF S
<1>10. QED
  BY <1>9 DEF ReadBack

-----------------------------------------------------------------------------
(* A text without the dots that separate nothing is what is read back. *)

\* t[i] is what Collapsed makes of d from place i on.
CollapsesTo(d, t) ==
  /\ t \in [1..(Len(d) + 1) -> CText]
  /\ t[Len(d) + 1] = << >>
  /\ \A i \in 1..Len(d) : /\ Stays(d, i) => t[i] = <<d[i]>> \o t[i + 1]
                          /\ ~Stays(d, i) => t[i] = t[i + 1]

\* Collapsed goes through the text place by place.
LEMMA CollapsedIs ==
  ASSUME NEW d \in CText
  PROVE  \E t : CollapsesTo(d, t) /\ Collapsed(d) = t[1]
<1> DEFINE n == Len(d)
           one(i) == <<d[i]>>
           Turn(w, i) == IF i > n THEN << >>
                         ELSE IF Stays(d, i) THEN one(i) \o w[i + 1]
                         ELSE w[i + 1]
           from == CHOOSE w : w = [i \in 1..(n + 1) |-> Turn(w, i)]
           stop == Nat \ (1..n)
           c == [i \in Nat |-> << >>]
           next == [i \in Nat |-> i + 1]
           same == [v \in CText |-> v]
           g == [i \in Nat |-> IF i \in 1..n /\ Stays(d, i) THEN [v \in CText |-> one(i) \o v]
                               ELSE same]
           L == n + 1
<1>1. Collapsed(d) = from[1]
  BY DEF Collapsed
<1>2. n \in Nat /\ L \in Nat
  BY DEF CText
<1>3. \A i \in 1..n : \A v \in CText : one(i) \o v \in CText
  <2> SUFFICES ASSUME NEW i \in 1..n, NEW v \in CText
               PROVE  one(i) \o v \in CText
    OBVIOUS
  <2> DEFINE B == Octet \ {0}
             o == one(i)
  <2>1. d[i] \in B
    BY DEF CText
  <2>2. o \in Seq(B) /\ v \in Seq(B)
    BY <2>1 DEF CText
  <2> HIDE DEF B, o
  <2>3. o \o v \in Seq(B)
    BY <2>2
  <2>4. QED
    BY <2>3 DEF B, o, CText
<1>4. << >> \in CText
  BY DEF CText
<1>5. g \in [Nat -> [CText -> CText]]
  BY <1>3
<1>6. Upwards(CText, L, stop, c, next, g)
  <2>1. stop \in SUBSET Nat /\ c \in [Nat -> CText] /\ next \in [Nat -> Nat]
    BY <1>4
  <2>2. \A i \in Nat : i \notin stop => i < L /\ i < next[i]
    BY <1>2
  <2> HIDE DEF stop, c, next, g, L
  <2>3. QED
    BY <1>2, <1>5, <2>1, <2>2 DEF Upwards
<1>7. PICK h \in [Nat -> CText] : SolvesUpwards(h, stop, c, next, g)
  <2> HIDE DEF stop, c, next, g, L
  <2>1. QED
    BY <1>6, UpwardRecursion
<1>8. h[n + 1] = << >>
  <2>1. n + 1 \in stop /\ n + 1 \in Nat
    BY <1>2
  <2>2. h[n + 1] = c[n + 1]
    BY <1>7, <2>1 DEF SolvesUpwards
  <2>3. QED
    BY <2>1, <2>2
<1>9. ASSUME NEW i \in 1..n
      PROVE  /\ i \in Nat /\ i + 1 \in Nat /\ h[i + 1] \in CText
             /\ Stays(d, i) => h[i] = one(i) \o h[i + 1]
             /\ ~Stays(d, i) => h[i] = h[i + 1]
  <2>1. i \in Nat /\ i \notin stop /\ i + 1 \in Nat
    BY <1>2
  <2>2. h[i] = g[i][h[i + 1]] /\ h[i + 1] \in CText
    <3>1. h[i] = g[i][h[next[i]]]
      BY <1>7, <2>1 DEF SolvesUpwards
    <3>2. next[i] = i + 1
      BY <2>1
    <3>3. QED
      BY <2>1, <3>1, <3>2
  <2> HIDE DEF one
  <2>3. CASE Stays(d, i)
    <3>1. g[i] = [v \in CText |-> one(i) \o v]
      BY <2>1, <2>3
    <3>2. QED
      BY <2>1, <2>2, <2>3, <3>1
  <2>4. CASE ~Stays(d, i)
    <3>1. g[i] = same
      BY <2>1, <2>4
    <3>2. QED
      BY <2>1, <2>2, <2>4, <3>1
  <2>5. QED
    BY <2>3, <2>4
<1> DEFINE f == [i \in 1..(n + 1) |-> h[i]]
<1>10. \A i \in 1..(n + 1) : f[i] = h[i] /\ h[i] \in CText
  BY <1>2
<1>11. \A i \in 1..n : i \in 1..(n + 1) /\ i + 1 \in 1..(n + 1)
  BY <1>2
<1>12. f = [i \in 1..(n + 1) |-> Turn(f, i)]
  <2>1. ASSUME NEW i \in 1..(n + 1)
        PROVE  f[i] = Turn(f, i)
    <3>1. CASE i = n + 1
      <4>1. f[i] = << >> /\ i > n
        BY <1>2, <1>8, <1>10, <3>1
      <4>2. QED
        BY <4>1
    <3>2. CASE i # n + 1
      <4>1. i \in 1..n /\ ~(i > n)
        BY <1>2, <3>2
      <4>2. f[i] = h[i] /\ f[i + 1] = h[i + 1]
        BY <1>10, <1>11, <4>1
      <4> HIDE DEF one, f
      <4>3. QED
        BY <1>9, <4>1, <4>2
    <3>3. QED
      BY <3>1, <3>2
  <2> HIDE DEF Turn
  <2>2. QED
    BY <2>1
<1>13. from = [i \in 1..(n + 1) |-> Turn(from, i)]
  <2> HIDE DEF Turn, f
  <2>1. QED
    BY <1>12
<1>14. \A i \in 1..(n + 1) : from[i] = Turn(from, i)
  <2> HIDE DEF Turn, from
  <2>1. QED
    BY <1>13
<1>15. \A i \in 1..(n + 1) : from[i] = h[i]
  <2> HIDE DEF from, one
  <2> DEFINE S == {i \in Nat : i \in 1..(n + 1) => from[i] = h[i]}
  <2>1. \A i \in Nat : i >= L => i \in S
    <3>1. n + 1 > n /\ n + 1 \in 1..(n + 1)
      BY <1>2
    <3>2. from[n + 1] = Turn(from, n + 1)
      BY <1>14, <3>1
    <3>3. from[n + 1] = << >>
      BY <3>1, <3>2
    <3>4. QED
      BY <1>2, <1>8, <3>3
  <2>2. ASSUME NEW i \in Nat, \A j \in Nat : i < j => j \in S
        PROVE  i \in S
    <3> SUFFICES ASSUME i \in 1..(n + 1)
                 PROVE  from[i] = h[i]
      OBVIOUS
    <3>1. CASE i = n + 1
      BY <1>2, <2>1, <3>1
    <3>2. CASE i # n + 1
      <4>1. i \in 1..n /\ ~(i > n) /\ i + 1 \in Nat /\ i < i + 1
        BY <1>2, <3>2
      <4>2. from[i + 1] = h[i + 1]
        BY <1>11, <2>2, <4>1
      <4>3. from[i] = Turn(from, i)
        BY <1>14
      <4>4. QED
        BY <1>9, <4>1, <4>2, <4>3
    <3>3. QED
      BY <3>1, <3>2
  <2> HIDE DEF S, L
  <2>3. \A i \in Nat : i \in S
    BY <1>2, <2>1, <2>2, UpwardInduction
  <2>4. QED
    BY <1>2, <2>3 DEF S
<1> HIDE DEF f, from, one
<1>16. CollapsesTo(d, f)
  <2>1. f \in [1..(n + 1) -> CText] /\ f[n + 1] = << >>
    BY <1>2, <1>8, <1>10 DEF f
  <2>2. \A i \in 1..n : /\ Stays(d, i) => f[i] = one(i) \o f[i + 1]
                        /\ ~Stays(d, i) => f[i] = f[i + 1]
    BY <1>9, <1>10, <1>11
  <2>3. QED
    BY <2>1, <2>2 DEF CollapsesTo, one
<1>17. Collapsed(d) = f[1]
  <2>1. 1 \in 1..(n + 1)
    BY <1>2
  <2>2. QED
    BY <1>1, <1>10, <1>15, <2>1
<1>18. QED
  BY <1>16, <1>17

\* No more is kept than there is.
LEMMA CollapsedShorter ==
  ASSUME NEW d \in CText
  PROVE  Collapsed(d) \in CText /\ Len(Collapsed(d)) <= Len(d)
<1>1. PICK t : CollapsesTo(d, t) /\ Collapsed(d) = t[1]
  BY CollapsedIs
<1> DEFINE n == Len(d)
           L == n + 1
           S == {i \in Nat : i \in 1..L => Len(t[i]) <= L - i}
<1>2. n \in Nat /\ L \in Nat
  BY DEF CText
<1>3. \A i \in 1..L : t[i] \in CText /\ Len(t[i]) \in Nat
  BY <1>1 DEF CollapsesTo, CText
<1>4. \A i \in Nat : i >= L => i \in S
  BY <1>1, <1>2 DEF CollapsesTo
<1>5. ASSUME NEW i \in Nat, \A j \in Nat : i < j => j \in S
      PROVE  i \in S
  <2> SUFFICES ASSUME i \in 1..L, i # L
               PROVE  Len(t[i]) <= L - i
    BY <1>2, <1>4
  <2>1. i \in 1..n /\ i + 1 \in Nat /\ i < i + 1 /\ i + 1 \in 1..L
    BY <1>2
  <2>2. Len(t[i + 1]) <= L - (i + 1) /\ t[i + 1] \in CText /\ Len(t[i + 1]) \in Nat
    BY <1>3, <1>5, <2>1
  <2>3. t[i] = <<d[i]>> \o t[i + 1] \/ t[i] = t[i + 1]
    BY <1>1, <2>1 DEF CollapsesTo
  <2> DEFINE one == <<d[i]>>
             s == t[i + 1]
  <2>4. Len(one \o s) = 1 + Len(s)
    <3> DEFINE B == Octet \ {0}
    <3>1. d[i] \in B
      BY <2>1 DEF CText
    <3>2. one \in Seq(B) /\ Len(one) = 1 /\ s \in Seq(B)
      BY <2>2, <3>1 DEF CText
    <3> HIDE DEF one, s, B
    <3>3. Len(one \o s) = Len(one) + Len(s)
      <4>1. one \in Seq(B) /\ s \in Seq(B)
        BY <3>2
      <4>2. QED
        BY <4>1, ConcatProperties
    <3>4. QED
      BY <3>2, <3>3
  <2> HIDE DEF one, s
  <2>5. Len(t[i]) <= 1 + Len(t[i + 1])
    BY <2>2, <2>3, <2>4 DEF one, s
  <2>6. Len(t[i]) \in Nat
    BY <1>3
  <2>7. QED
    BY <1>2, <2>2, <2>5, <2>6
<1> HIDE DEF S, L
<1>6. \A i \in Nat : i \in S
  BY <1>2, <1>4, <1>5, UpwardInduction
<1>7. 1 \in 1..L /\ L - 1 = n
  BY <1>2 DEF L
<1>8. QED
  BY <1>1, <1>3, <1>6, <1>7 DEF S

\* The last character comes off behind whatever is in front.
LEMMA FrontBehind ==
  ASSUME NEW a \in Texts, NEW s \in Texts, s # << >>
  PROVE  Front1(a \o s) = a \o Front1(s) /\ a \o s # << >> /\ Front1(s) \in Texts
<1> DEFINE c == a \o s
           f == SubSeq(s, 1, Len(s) - 1)
           x == SubSeq(c, 1, Len(c) - 1)
           y == a \o f
<1>1. a \in Seq(Octet) /\ s \in Seq(Octet) /\ Len(a) \in Nat /\ Len(s) \in Nat /\ Len(s) # 0
  BY DEF Texts
<1>2. /\ c \in Seq(Octet) /\ Len(c) = Len(a) + Len(s)
      /\ \A k \in 1..Len(a) + Len(s) : c[k] = IF k <= Len(a) THEN a[k] ELSE s[k - Len(a)]
  BY <1>1, ConcatProperties
<1>3. f \in Seq(Octet) /\ Len(f) = Len(s) - 1 /\ \A k \in 1..(Len(s) - 1) : f[k] = s[k]
  <2> DEFINE m == Len(s) - 1
  <2>1. m \in 0..Len(s)
    BY <1>1
  <2> HIDE DEF m
  <2>2. /\ SubSeq(s, 1, m) \in Seq(Octet) /\ Len(SubSeq(s, 1, m)) = m
        /\ \A k \in 1..m : SubSeq(s, 1, m)[k] = s[k]
    BY <1>1, <2>1
  <2>3. QED
    BY <2>2 DEF m
<1>4. Front1(s) = f
  BY DEF Front1
<1> HIDE DEF c, f
<1>5. Len(c) # 0 /\ Len(c) \in Nat
  BY <1>1, <1>2
<1>6. c # << >>
  BY <1>5
<1>7. Front1(c) = x
  BY <1>6 DEF Front1
<1>8. x \in Seq(Octet) /\ Len(x) = Len(c) - 1 /\ \A k \in 1..(Len(c) - 1) : x[k] = c[k]
  BY <1>2, <1>5
<1>9. /\ y \in Seq(Octet) /\ Len(y) = Len(a) + Len(f)
      /\ \A k \in 1..Len(a) + Len(f) : y[k] = IF k <= Len(a) THEN a[k] ELSE f[k - Len(a)]
  <2>1. a \in Seq(Octet) /\ f \in Seq(Octet)
    BY <1>1, <1>3
  <2>2. QED
    BY <2>1, ConcatProperties
<1> HIDE DEF x, y
<1>10. Len(x) = Len(y)
  BY <1>1, <1>2, <1>3, <1>8, <1>9
<1>11. ASSUME NEW k \in 1..Len(x)
       PROVE  x[k] = y[k]
  <2>1. /\ k \in 1..(Len(c) - 1) /\ k \in 1..Len(a) + Len(s) /\ k \in 1..Len(a) + Len(f)
        /\ k \in Nat
    BY <1>1, <1>2, <1>3, <1>8
  <2>2. x[k] = c[k]
    BY <1>8, <2>1
  <2>3. CASE k <= Len(a)
    BY <1>2, <1>9, <2>1, <2>2, <2>3
  <2>4. CASE ~(k <= Len(a))
    <3>1. k - Len(a) \in 1..(Len(s) - 1)
      BY <1>1, <1>3, <2>1, <2>4
    <3>2. f[k - Len(a)] = s[k - Len(a)]
      BY <1>3, <3>1
    <3>3. QED
      BY <1>2, <1>9, <2>1, <2>2, <2>4, <3>2
  <2>5. QED
    BY <2>3, <2>4
<1>12. x = y
  BY <1>8, <1>9, <1>10, <1>11, SeqEqual
<1>13. QED
  BY <1>3, <1>4, <1>6, <1>7, <1>12 DEF c, y, Texts

\* A label begins before place i.
Seen(d, i) == \E j \in 1..(i - 1) : d[j] # Dot

\* What is kept from place i on is the text of the labels there without the
\* last dot, with the dot in front that ends an earlier label.
KeptIs(d, i, text, t) ==
  /\ text[i] = << >> => t[i] = << >>
  /\ text[i] # << >> /\ (d[i] # Dot \/ ~Seen(d, i)) => t[i] = Front1(text[i])
  /\ text[i] # << >> /\ d[i] = Dot /\ Seen(d, i) => t[i] = <<Dot>> \o Front1(text[i])

\* A place of a label.
LEMMA KeptInLabel ==
  ASSUME NEW d \in CText, NEW text, CharByChar(d, text), NEW t, CollapsesTo(d, t),
         NEW i \in 1..Len(d), d[i] # Dot, KeptIs(d, i + 1, text, t)
  PROVE  KeptIs(d, i, text, t)
<1> DEFINE n == Len(d)
           one == <<d[i]>>
           dot == <<Dot>>
           rest == text[i + 1]
<1>1. n \in Nat /\ i \in Nat /\ i + 1 \in 1..(n + 1) /\ d[i] \in Octet
  BY DEF CText
<1>2. one \in Texts /\ dot \in Texts
  BY <1>1 DEF Texts, Dot, Octet
<1>3. rest \in Texts /\ text[i] # << >>
  BY <1>1 DEF CharByChar
<1>4. t[i] = one \o t[i + 1]
  BY DEF CollapsesTo, Stays
<1> HIDE DEF one
<1>5. CASE i < n /\ d[i + 1] # Dot
  <2>1. i + 1 \in 1..n
    BY <1>1, <1>5
  <2>2. text[i] = one \o rest /\ rest # << >>
    BY <1>5, <2>1 DEF CharByChar, one
  <2>3. t[i + 1] = Front1(rest)
    BY <1>5, <2>2 DEF KeptIs
  <2> HIDE DEF rest
  <2>4. Front1(one \o rest) = one \o Front1(rest)
    BY <1>2, <1>3, <2>2, FrontBehind
  <2>5. t[i] = Front1(text[i])
    BY <1>4, <2>2, <2>3, <2>4
  <2>6. QED
    BY <1>3, <2>5 DEF KeptIs
<1>6. CASE i = n \/ d[i + 1] = Dot
  <2>1. text[i] = (one \o dot) \o rest
    BY <1>6 DEF CharByChar, one
  <2>2. CASE rest = << >>
    <3>1. t[i + 1] = << >>
      BY <2>2 DEF KeptIs
    <3>2. Front1(dot) = << >> /\ dot # << >>
      BY DEF Front1
    <3> HIDE DEF dot
    <3> DEFINE od == one \o dot
    <3>3. od \in Texts
      BY <1>2 DEF Texts
    <3>4. Front1(od) = one \o << >>
      <4>1. Front1(one \o dot) = one \o Front1(dot)
        BY <1>2, <3>2, FrontBehind
      <4>2. QED
        BY <3>2, <4>1
    <3> HIDE DEF od
    <3>5. od \o << >> = od
      BY <3>3 DEF Texts
    <3>6. t[i] = Front1(text[i])
      BY <1>4, <2>1, <2>2, <3>1, <3>4, <3>5 DEF od
    <3>7. QED
      BY <1>3, <3>6 DEF KeptIs
  <2>3. CASE rest # << >>
    <3>1. i # n
      BY <2>3 DEF CharByChar
    <3>2. d[i + 1] = Dot /\ i \in 1..((i + 1) - 1)
      BY <1>1, <1>6, <3>1
    <3>3. Seen(d, i + 1)
      BY <3>2 DEF Seen
    <3>4. t[i + 1] = dot \o Front1(rest)
      BY <2>3, <3>2, <3>3 DEF KeptIs
    <3> DEFINE od == one \o dot
               f == Front1(rest)
    <3> HIDE DEF dot, rest
    <3>5. od \in Texts
      BY <1>2 DEF Texts
    <3> HIDE DEF od
    <3>6. Front1(od \o rest) = od \o f /\ f \in Texts
      BY <1>3, <2>3, <3>5, FrontBehind
    <3> HIDE DEF f
    <3>7. (one \o dot) \o f = one \o (dot \o f)
      BY <1>2, <3>6 DEF Texts
    <3>8. t[i] = Front1(text[i])
      BY <1>4, <2>1, <3>4, <3>6, <3>7 DEF od, f
    <3>9. QED
      BY <1>3, <3>8 DEF KeptIs
  <2>4. QED
    BY <2>2, <2>3
<1>7. QED
  BY <1>1, <1>5, <1>6

\* A dot.
LEMMA KeptAtDot ==
  ASSUME NEW d \in CText, NEW text, CharByChar(d, text), NEW t, CollapsesTo(d, t),
         NEW i \in 1..Len(d), d[i] = Dot, KeptIs(d, i + 1, text, t)
  PROVE  KeptIs(d, i, text, t)
<1>1. Len(d) \in Nat /\ i \in Nat
  BY DEF CText
<1>2. text[i] = text[i + 1]
  BY DEF CharByChar
<1>3. CASE text[i + 1] = << >>
  <2>1. ~(i < Len(d) /\ d[i + 1] # Dot)
    <3> SUFFICES ASSUME i < Len(d), d[i + 1] # Dot
                 PROVE  FALSE
      OBVIOUS
    <3>1. i + 1 \in 1..Len(d)
      BY <1>1
    <3>2. QED
      BY <1>3, <3>1 DEF CharByChar
  <2>2. ~Stays(d, i)
    BY <2>1 DEF Stays, Separates
  <2>3. t[i] = t[i + 1]
    BY <2>2 DEF CollapsesTo
  <2>4. QED
    BY <1>2, <1>3, <2>3 DEF KeptIs
<1>4. CASE text[i + 1] # << >>
  <2>1. i < Len(d)
    <3>1. i # Len(d)
      BY <1>4 DEF CharByChar
    <3>2. QED
      BY <1>1, <3>1
  <2>2. CASE d[i + 1] # Dot
    <3>1. t[i + 1] = Front1(text[i + 1])
      BY <1>4, <2>2 DEF KeptIs
    <3>2. Stays(d, i) <=> Seen(d, i)
      BY <2>1, <2>2 DEF Stays, Separates, Seen
    <3>3. /\ Seen(d, i) => t[i] = <<Dot>> \o t[i + 1]
          /\ ~Seen(d, i) => t[i] = t[i + 1]
      BY <3>2 DEF CollapsesTo
    <3>4. QED
      BY <1>2, <1>4, <3>1, <3>3 DEF KeptIs
  <2>3. CASE d[i + 1] = Dot
    <3>1. ~Stays(d, i)
      BY <2>3 DEF Stays, Separates
    <3>2. t[i] = t[i + 1]
      BY <3>1 DEF CollapsesTo
    <3>3. Seen(d, i) <=> Seen(d, i + 1)
      <4>1. \A j \in 1..((i + 1) - 1) : j \in 1..(i - 1) \/ j = i
        BY <1>1
      <4>2. \A j \in 1..(i - 1) : j \in 1..((i + 1) - 1)
        BY <1>1
      <4>3. QED
        BY <4>1, <4>2 DEF Seen
    <3>4. QED
      BY <1>2, <1>4, <2>3, <3>2, <3>3 DEF KeptIs
  <2>4. QED
    BY <2>2, <2>3
<1>5. QED
  BY <1>3, <1>4

\* The text of a text's labels, without the last dot, is the text without the
\* dots that separate nothing.
LEMMA CollapsedText ==
  ASSUME NEW d \in CText, NEW labs, Spells(d, labs)
  PROVE  Collapsed(d) = Front1(Dotted(labs[1]))
<1> DEFINE L == Len(d) + 1
           text == [i \in 1..L |-> Dotted(labs[i])]
<1>1. CharByChar(d, text)
  BY SpelledText
<1>2. PICK t : CollapsesTo(d, t) /\ Collapsed(d) = t[1]
  BY CollapsedIs
<1>3. Len(d) \in Nat /\ L \in Nat /\ 1 \in 1..L
  BY DEF CText
<1>4. text[1] = Dotted(labs[1])
  BY <1>3
<1> HIDE DEF text
<1> DEFINE S == {i \in Nat : i \in 1..L => KeptIs(d, i, text, t)}
<1>5. KeptIs(d, L, text, t)
  BY <1>1, <1>2 DEF KeptIs, CharByChar, CollapsesTo
<1>6. \A i \in Nat : i >= L => i \in S
  BY <1>3, <1>5
<1>7. ASSUME NEW i \in Nat, \A j \in Nat : i < j => j \in S
      PROVE  i \in S
  <2> SUFFICES ASSUME i \in 1..L, i # L
               PROVE  KeptIs(d, i, text, t)
    BY <1>5
  <2>1. i \in 1..Len(d) /\ i + 1 \in Nat /\ i < i + 1 /\ i + 1 \in 1..L
    BY <1>3
  <2>2. KeptIs(d, i + 1, text, t)
    BY <1>7, <2>1
  <2>3. CASE d[i] # Dot
    BY <1>1, <1>2, <2>1, <2>2, <2>3, KeptInLabel
  <2>4. CASE d[i] = Dot
    BY <1>1, <1>2, <2>1, <2>2, <2>4, KeptAtDot
  <2>5. QED
    BY <2>3, <2>4
<1> HIDE DEF S, L
<1>8. \A i \in Nat : i \in S
  BY <1>3, <1>6, <1>7, UpwardInduction
<1>9. KeptIs(d, 1, text, t)
  BY <1>3, <1>8 DEF S
<1>10. ~Seen(d, 1)
  BY DEF Seen
<1>11. Front1(<< >>) = << >>
  BY DEF Front1
<1>12. QED
  BY <1>2, <1>4, <1>9, <1>10, <1>11 DEF KeptIs

-----------------------------------------------------------------------------
(* An encoded name is read back. *)

\* A name with its zero byte.
ZeroEnded(s) == s \o <<0>>

\* A query is a header, the name with its zero byte, and type and class.
LEMMA QueryBytes ==
  ASSUME NEW s \in Seq(Octet), NEW p, p = QueryFor(ZeroEnded(s)), p \in Seq(Octet)
  PROVE  /\ Len(p) = 12 + Len(s) + 1 + 4
         /\ p[5] = 0 /\ p[6] = 1
         /\ HoldsName(p, 12, s)
<1> DEFINE front == << 0, 7, 1, 0, 0, 1, 0, 0, 0, 0, 0, 0 >>
           zero == <<0>>
           back == << 0, TYPE_A, 0, 1 >>
           q == s \o zero
           fq == front \o q
<1>1. /\ front \in Seq(Octet) /\ Len(front) = 12 /\ front[5] = 0 /\ front[6] = 1
      /\ zero \in Seq(Octet) /\ Len(zero) = 1 /\ zero[1] = 0
      /\ back \in Seq(Octet) /\ Len(back) = 4
  BY DEF Octet, TYPE_A
<1>2. Len(s) \in Nat
  OBVIOUS
<1>3. p = fq \o back
  BY DEF QueryFor, ZeroEnded
<1> HIDE DEF front, zero, back
<1>4. /\ q \in Seq(Octet) /\ Len(q) = Len(s) + 1
      /\ \A k \in 1..Len(s) : q[k] = s[k]
      /\ q[Len(s) + 1] = 0
  <2>1. /\ q \in Seq(Octet) /\ Len(q) = Len(s) + Len(zero)
        /\ \A k \in 1..Len(s) + Len(zero) : q[k] = IF k <= Len(s) THEN s[k] ELSE zero[k - Len(s)]
    <3>1. zero \in Seq(Octet)
      BY <1>1
    <3>2. QED
      BY <3>1, ConcatProperties
  <2> HIDE DEF q
  <2>2. /\ Len(s) + 1 \in 1..Len(s) + Len(zero) /\ ~(Len(s) + 1 <= Len(s))
        /\ (Len(s) + 1) - Len(s) = 1 /\ \A k \in 1..Len(s) : k \in 1..Len(s) + Len(zero) /\ k <= Len(s)
    BY <1>1, <1>2
  <2>3. q[Len(s) + 1] = zero[1]
    BY <2>1, <2>2
  <2>4. \A k \in 1..Len(s) : q[k] = s[k]
    BY <2>1, <2>2
  <2>5. QED
    BY <1>1, <2>1, <2>3, <2>4
<1> HIDE DEF q
<1>5. /\ fq \in Seq(Octet) /\ Len(fq) = 12 + Len(s) + 1
      /\ fq[5] = 0 /\ fq[6] = 1
      /\ \A k \in 1..(Len(s) + 1) : fq[12 + k] = q[k]
  <2>1. /\ fq \in Seq(Octet) /\ Len(fq) = Len(front) + Len(q)
        /\ \A k \in 1..Len(front) + Len(q) :
             fq[k] = IF k <= Len(front) THEN front[k] ELSE q[k - Len(front)]
    <3>1. front \in Seq(Octet) /\ q \in Seq(Octet)
      BY <1>1, <1>4
    <3>2. QED
      BY <3>1, ConcatProperties
  <2> HIDE DEF fq
  <2>2. /\ 5 \in 1..Len(front) + Len(q) /\ 5 <= Len(front)
        /\ 6 \in 1..Len(front) + Len(q) /\ 6 <= Len(front)
    BY <1>1, <1>2, <1>4
  <2>3. \A k \in 1..(Len(s) + 1) : /\ 12 + k \in 1..Len(front) + Len(q)
                                   /\ ~(12 + k <= Len(front)) /\ (12 + k) - Len(front) = k
    BY <1>1, <1>2, <1>4
  <2>4. fq[5] = 0 /\ fq[6] = 1
    BY <1>1, <2>1, <2>2
  <2>5. \A k \in 1..(Len(s) + 1) : fq[12 + k] = q[k]
    BY <2>1, <2>3
  <2>6. QED
    BY <1>1, <1>2, <1>4, <2>1, <2>4, <2>5
<1> HIDE DEF fq
<1>6. /\ Len(p) = 12 + Len(s) + 1 + 4
      /\ \A k \in 1..(12 + Len(s) + 1) : p[k] = fq[k]
  <2>1. /\ Len(fq \o back) = Len(fq) + Len(back)
        /\ \A k \in 1..Len(fq) + Len(back) :
             (fq \o back)[k] = IF k <= Len(fq) THEN fq[k] ELSE back[k - Len(fq)]
    <3>1. fq \in Seq(Octet) /\ back \in Seq(Octet)
      BY <1>1, <1>5
    <3>2. QED
      BY <3>1, ConcatProperties
  <2>2. \A k \in 1..(12 + Len(s) + 1) : k \in 1..Len(fq) + Len(back) /\ k <= Len(fq)
    BY <1>1, <1>2, <1>5
  <2>3. \A k \in 1..(12 + Len(s) + 1) : p[k] = fq[k]
    BY <1>3, <2>1, <2>2
  <2>4. Len(p) = Len(fq) + Len(back)
    BY <1>3, <2>1
  <2>5. QED
    BY <1>1, <1>5, <2>3, <2>4
<1>7. p[5] = 0 /\ p[6] = 1
  <2>1. 5 \in 1..(12 + Len(s) + 1) /\ 6 \in 1..(12 + Len(s) + 1)
    BY <1>2
  <2>2. QED
    BY <1>5, <1>6, <2>1
<1>8. \A k \in 1..(Len(s) + 1) : p[12 + k] = q[k]
  <2>1. \A k \in 1..(Len(s) + 1) : 12 + k \in 1..(12 + Len(s) + 1)
    BY <1>2
  <2>2. QED
    BY <1>5, <1>6, <2>1
<1>9. \A k \in 1..Len(s) : p[12 + k] = s[k]
  <2>1. \A k \in 1..Len(s) : k \in 1..(Len(s) + 1)
    BY <1>2
  <2>2. QED
    BY <1>4, <1>8, <2>1
<1>10. p[12 + Len(s) + 1] = 0
  <2>1. Len(s) + 1 \in 1..(Len(s) + 1) /\ 12 + (Len(s) + 1) = 12 + Len(s) + 1
    BY <1>2
  <2>2. QED
    BY <1>4, <1>8, <2>1
<1>11. 12 + Len(s) + 1 <= Len(p)
  BY <1>2, <1>6
<1>12. QED
  BY <1>6, <1>7, <1>9, <1>10, <1>11 DEF HoldsName

\* C strings have no NUL for strdup to stop at.
LEMMA NoNulToFind ==
  ASSUME NEW s \in CText
  PROVE  strdup(s) = s
<1>1. \A k \in DOMAIN s : s[k] # 0
  BY DEF CText
<1>2. QED
  BY <1>1 DEF strdup, FirstNul

\* The datagram at hand was put together for encoded, if that is not None.
EncodedInv ==
  /\ encoded # None =>
       \E domain \in Domain, buf_len \in Room :
         /\ encoded = [domain |-> domain, buf_len |-> buf_len]
         /\ encode_dns_name(domain, buf_len) # Refused
         /\ packet = QueryFor(encode_dns_name(domain, buf_len))
  /\ outcome = "returned" => ppc = "ok"

\* Only EncodeAndParse gives encoded a value, and only Finish lets go of the
\* datagram.
LEMMA EncodedInvariant == HandleSpec => []EncodedInv
<1>1. HandleInit => EncodedInv
  BY DEF HandleInit, EncodedInv
<1>2. EncodedInv /\ [HandleNext]_handleVars => EncodedInv'
  <2> SUFFICES ASSUME EncodedInv, [HandleNext]_handleVars
               PROVE  EncodedInv'
    OBVIOUS
  <2>1. CASE Arrival
    <3>1. outcome' # "returned"
      BY <2>1 DEF EncodedInv, Arrival, Receive, dns_parse_query, dns_build_error_response,
         EncodeAndParse, Call
    <3>2. CASE encoded' = None
      BY <3>1, <3>2 DEF EncodedInv
    <3>3. CASE encoded' # None
      <4>1. PICK domain \in Domain, buf_len \in Room : EncodeAndParse(domain, buf_len)
        BY <2>1, <3>3 DEF Arrival, Receive, dns_parse_query, dns_build_error_response
      <4>2. /\ encoded' = [domain |-> domain, buf_len |-> buf_len]
            /\ encode_dns_name(domain, buf_len) # Refused
            /\ packet' = QueryFor(encode_dns_name(domain, buf_len))
        BY <4>1 DEF EncodeAndParse, Call, parse_dns_message
      <4>3. QED
        BY <3>1, <4>2 DEF EncodedInv
    <3>4. QED
      BY <3>2, <3>3
  <2>2. CASE ParserRuns
    <3>1. packet' = packet /\ encoded' = encoded /\ outcome' = outcome
      BY <2>2, ParsingKeepsPacket DEF ParserRuns, handled
    <3>2. ppc # "ok"
      BY <2>2 DEF ParserRuns, Parsing, TooShort, HeaderOnly, HasQuestions, BeginName,
         NoRoomForName, NameStep, FollowPointer, BadPointer, BadLength, CopyLabel, BadLabel,
         EndName, RunsOff, KeepQuestion, NoRoomForFields, NoMemoryForName, StoreRaw,
         NoMemoryForRaw, AtByte
    <3>3. QED
      BY <3>1, <3>2 DEF EncodedInv
  <2>3. CASE Decision \/ UNCHANGED handleVars
    <3>1. packet' = packet /\ encoded' = encoded /\ ppc' = ppc
      BY <2>3 DEF Decision, ParseFailed, NoQuestion, UnsupportedType, BlockedDomain,
         AllowedDomain, ReturnQuestion, ReturnErrorResponse, handleVars, handled, vars
    <3>2. outcome' = "returned" => outcome = "returned" \/ ppc = "ok"
      BY <2>3 DEF Decision, ParseFailed, NoQuestion, UnsupportedType, BlockedDomain,
         AllowedDomain, ReturnQuestion, ReturnErrorResponse, Reply, Deciding, handleVars, handled
    <3>3. QED
      BY <3>1, <3>2 DEF EncodedInv
  <2>4. CASE Finish
    BY <2>4 DEF Finish, EncodedInv
  <2>5. QED
    BY <2>1, <2>2, <2>3, <2>4 DEF HandleNext
<1>3. QED
  BY <1>1, <1>2, PTL DEF HandleSpec

\* What the parser makes of an encoded name.
LEMMA EncodedReads ==
  ASSUME TypeOK, NEW domain \in Domain, NEW buf_len \in Room,
         encode_dns_name(domain, buf_len) # Refused,
         packet = QueryFor(encode_dns_name(domain, buf_len))
  PROVE  /\ len >= DNS_HEADER_SIZE /\ len - DNS_HEADER_SIZE - 4 <= buf_len
         /\ qdcount = 1
         /\ CName(packet, DNS_HEADER_SIZE) = Collapsed(domain)
         /\ Announced = Bad => /\ Len(Collapsed(domain)) = DNS_MAX_NAME_LEN
                               /\ buf_len > DNS_MAX_NAME_LEN + 1
<1> DEFINE s == Labels(domain)
           D == Dotted(NameAt(packet, 12))
           C == Collapsed(domain)
           M == DNS_MAX_NAME_LEN
<1>1. /\ encode_dns_name(domain, buf_len) = s \o <<0>>
      /\ ~(Len(domain) > M) /\ ~LabelTooLong(domain) /\ ~(Len(s) >= buf_len)
  BY DEF encode_dns_name
<1>2. domain \in CText /\ Len(domain) \in Nat /\ buf_len \in Nat /\ M \in Nat
  BY TextsAndRooms, ParserLimits DEF CText
<1>3. PICK w : Encodes(domain, w) /\ s = w[1]
  BY <1>2, LabelsAre
<1>4. PICK labs : Spells(domain, labs)
  BY <1>2, SpellsSome
<1>5. 1 \in 1..(Len(domain) + 1)
  BY <1>2
<1>6. s \in Seq(Octet) /\ Len(s) \in Nat /\ labs[1] \in LabelSeq
  <2> HIDE DEF s
  <2>3. w \in [1..(Len(domain) + 1) -> Seq(Octet)]
    <3>1. domain \in CText /\ Len(domain) <= DNS_MAX_NAME_LEN /\ ~LabelTooLong(domain)
      BY <1>1, <1>2
    <3>2. Encodes(domain, w)
      BY <1>3
    <3>3. QED
      BY <3>1, <3>2, LabelsType
  <2>1. s \in Seq(Octet)
    BY <1>3, <1>5, <2>3
  <2>2. QED
    BY <1>4, <1>5, <2>1 DEF Spells
<1>7. packet \in Seq(Octet) /\ len = Len(packet) /\ DNS_HEADER_SIZE = 12
  BY WireTypes, HeaderOfTwelve
<1> HIDE DEF s
<1>8. /\ Len(packet) = 12 + Len(s) + 1 + 4 /\ packet[5] = 0 /\ packet[6] = 1
      /\ HoldsName(packet, 12, s)
  BY <1>1, <1>6, <1>7, QueryBytes DEF ZeroEnded
<1>9. NameAt(packet, 12) = labs[1] /\ EndOfName(packet, 12) = 12 + Len(s) + 1
  BY <1>1, <1>2, <1>3, <1>4, <1>7, <1>8, WrittenReads
<1>10. len >= 12 /\ len - 12 - 4 <= buf_len
  BY <1>1, <1>2, <1>6, <1>7, <1>8
<1>11. qdcount = 1
  <2>1. Byte(4) = 0 /\ Byte(5) = 1
    <3>1. 4 < len /\ 5 < len
      BY <1>6, <1>7, <1>8
    <3>2. QED
      BY <1>8, <3>1, BytesOfPacket
  <2>2. QED
    BY <2>1 DEF qdcount, UInt16
<1>12. C = Front1(D)
  BY <1>2, <1>4, <1>9, CollapsedText
<1>13. CName(packet, 12) = C
  BY <1>2, <1>12, CollapsedShorter, NoNulToFind DEF CName
<1>14. Len(s) = Len(D) /\ D \in Texts
  <2>1. Len(s) = Len(D)
    BY <1>1, <1>2, <1>3, <1>4, <1>5, <1>9, LengthsAgree
  <2>2. << >> \in LabelSeq
    BY DEF LabelSeq
  <2>3. QED
    BY <1>6, <1>9, <2>1, <2>2, DottedText
<1>15. ASSUME Announced = Bad
       PROVE  Len(C) = M /\ buf_len > M + 1
  <2>1. 1 \in Count /\ 12 \in Nat
    BY DEF Count, MaxCount
  <2>2. NamesRead(packet, 12, 1)
    BY <1>7, <2>1, NamesAre
  <2>3. Announced = Names(packet, 12, 1)
    BY <1>7, <1>11 DEF Announced
  <2>4. 0 \in Count
    BY DEF Count, MaxCount
  <2>5. EndOfName(packet, 12) + 4 <= Len(packet)
    BY <1>6, <1>8, <1>9
  <2>6. NameAt(packet, 12) # Bad
    BY <1>6, <1>9, BadIsNone DEF LabelSeq, Texts
  <2>7. ~GoodQuestion(packet, 12)
    <3> SUFFICES ASSUME GoodQuestion(packet, 12)
                 PROVE  FALSE
      OBVIOUS
    <3> DEFINE to == EndOfName(packet, 12) + 4
    <3>1. to \in Nat
      BY <1>6, <1>9
    <3>2. Names(packet, to, 0) = << >>
      BY <1>7, <2>4, <3>1, NamesAre DEF NamesRead
    <3>3. Names(packet, 12, 1) = Prepend(<<C>>, << >>)
      BY <1>13, <2>2, <3>2 DEF NamesRead
    <3>4. C \in Texts
      BY <1>2, CollapsedShorter, CTextIsText
    <3>5. <<C>> \in LabelSeq /\ << >> \in MaybeLabels /\ << >> # Bad
      <4> HIDE DEF C
      <4>1. <<C>> \in LabelSeq /\ << >> \in LabelSeq
        BY <3>4 DEF LabelSeq
      <4>2. Bad \notin LabelSeq
        BY BadIsNone DEF LabelSeq, Texts
      <4>3. QED
        BY <4>1, <4>2 DEF MaybeLabels
    <3> HIDE DEF C, to
    <3>6. Prepend(<<C>>, << >>) # Bad
      BY <3>5, PrependType
    <3>7. QED
      BY <1>15, <2>3, <3>3, <3>6
  <2>8. ~(Len(D) <= M)
    BY <2>5, <2>6, <2>7 DEF GoodQuestion, GoodName
  <2> HIDE DEF D, C
  <2>9. Len(D) \in Nat
    BY <1>14 DEF Texts
  <2>10. D # << >>
    BY <1>2, <2>8
  <2>11. Len(C) = Len(D) - 1
    <3> DEFINE m == Len(D) - 1
    <3>1. m \in 0..Len(D) /\ D \in Seq(Octet)
      BY <1>2, <1>14, <2>8, <2>9 DEF Texts
    <3>2. C = SubSeq(D, 1, m)
      BY <1>12, <2>10 DEF Front1
    <3> HIDE DEF m
    <3>3. Len(SubSeq(D, 1, m)) = m
      BY <3>1
    <3>4. QED
      BY <3>2, <3>3 DEF m
  <2>12. Len(C) <= Len(domain)
    BY <1>2, CollapsedShorter DEF C
  <2>13. Len(C) = M /\ buf_len > M + 1
    BY <1>1, <1>2, <1>14, <2>8, <2>9, <2>11, <2>12
  <2>14. QED
    BY <2>13
<1>16. QED
  BY <1>7, <1>10, <1>11, <1>13, <1>15

\* A name encode_dns_name accepts fits its buffer and, put into a query, comes
\* back from dns_parse_query as the same text without the dots that separate
\* nothing, for every text, every buffer and all limits; it is refused only if
\* that text has the full DNS_MAX_NAME_LEN and the buffer is larger than a name
\* can be.
THEOREM EncodedNamesReadBack == HandleSpec => []EncodedNamesParse
<1>1. HandleInv /\ WireInv /\ EncodedInv => EncodedNamesParse
  <2> SUFFICES ASSUME HandleInv, WireInv, EncodedInv, encoded # None, outcome # "pending"
               PROVE  /\ len - DNS_HEADER_SIZE - 4 <= encoded.buf_len
                      /\ outcome = "returned" => questions[1].qname = Collapsed(encoded.domain)
                      /\ ppc = "fail" => /\ Len(Collapsed(encoded.domain)) = DNS_MAX_NAME_LEN
                                         /\ encoded.buf_len > DNS_MAX_NAME_LEN + 1
    BY DEF EncodedNamesParse
  <2>1. PICK domain \in Domain, buf_len \in Room :
          /\ encoded = [domain |-> domain, buf_len |-> buf_len]
          /\ encode_dns_name(domain, buf_len) # Refused
          /\ packet = QueryFor(encode_dns_name(domain, buf_len))
    BY DEF EncodedInv
  <2>2. encoded.domain = domain /\ encoded.buf_len = buf_len
    BY <2>1
  <2>3. TypeOK
    BY DEF HandleInv, IInv
  <2>4. /\ len >= DNS_HEADER_SIZE /\ len - DNS_HEADER_SIZE - 4 <= buf_len
        /\ qdcount = 1
        /\ CName(packet, DNS_HEADER_SIZE) = Collapsed(domain)
        /\ Announced = Bad => /\ Len(Collapsed(domain)) = DNS_MAX_NAME_LEN
                              /\ buf_len > DNS_MAX_NAME_LEN + 1
    BY <2>1, <2>3, EncodedReads
  <2>5. ASSUME outcome = "returned"
        PROVE  questions[1].qname = Collapsed(domain)
    <3>1. ppc = "ok" /\ qdcount > 0
      BY <2>4, <2>5 DEF EncodedInv
    <3>2. QED
      BY <2>4, <3>1, FirstAnnounced
  <2>6. ASSUME ppc = "fail"
        PROVE  Announced = Bad
    <3>1. len < DNS_HEADER_SIZE \/ Announced = Bad
      BY <2>6 DEF WireInv
    <3>2. len \in Nat
      BY <2>3, WireTypes
    <3>3. QED
      BY <2>4, <3>1, <3>2, HeaderOfTwelve
  <2>7. QED
    BY <2>2, <2>4, <2>5, <2>6
<1>2. QED
  BY <1>1, HandleInvariant, WireInvariant, EncodedInvariant, PTL

-----------------------------------------------------------------------------
(* What recvfrom leaves of a datagram, and what the datagram says there. *)

\* r is what p begins with.
IsFront(r, p) ==
  /\ r \in Seq(Octet) /\ p \in Seq(Octet) /\ Len(r) <= Len(p)
  /\ \A k \in 1..Len(r) : r[k] = p[k]

\* A part of a name that is all in the front is the same in the datagram.
LEMMA PlacesOfFront ==
  ASSUME NEW r, NEW p, IsFront(r, p), NEW i \in Nat
  PROVE  /\ IsEnd(r, i) => IsEnd(p, i)
         /\ IsLabel(r, i) => /\ IsLabel(p, i) /\ p[i + 1] = r[i + 1]
                             /\ LabelOf(p, i) = LabelOf(r, i)
         /\ IsPointer(r, i) => /\ IsPointer(p, i) /\ PointsTo(p, i) = PointsTo(r, i)
                               /\ p[i + 1] = r[i + 1]
<1> DEFINE m == Len(r)
           l == Len(p)
<1>1. /\ r \in Seq(Octet) /\ p \in Seq(Octet) /\ m \in Nat /\ l \in Nat /\ m <= l
      /\ \A k \in 1..m : r[k] = p[k] /\ r[k] \in Octet
  BY DEF IsFront
<1>2. ASSUME i < m
      PROVE  p[i + 1] = r[i + 1] /\ i < l /\ r[i + 1] \in Octet
  <2>1. i + 1 \in 1..m
    BY <1>1, <1>2
  <2>2. QED
    BY <1>1, <1>2, <2>1
<1>3. IsEnd(r, i) => IsEnd(p, i)
  BY <1>2 DEF IsEnd
<1>4. ASSUME IsLabel(r, i)
      PROVE  IsLabel(p, i) /\ p[i + 1] = r[i + 1] /\ LabelOf(p, i) = LabelOf(r, i)
  <2> DEFINE b == r[i + 1]
  <2>1. i < m /\ b \in 1..DNS_MAX_LABEL_LEN /\ i + 1 + b <= m
    BY <1>4 DEF IsLabel
  <2>2. p[i + 1] = b /\ i < l /\ b \in Nat
    BY <1>2, <2>1 DEF Octet
  <2> HIDE DEF b
  <2>3. i + 1 + b <= l
    BY <1>1, <2>1, <2>2
  <2>4. IsLabel(p, i)
    BY <2>1, <2>2, <2>3 DEF IsLabel
  <2>5. LabelOf(p, i) = SubSeq(p, i + 2, i + 1 + b) /\ LabelOf(r, i) = SubSeq(r, i + 2, i + 1 + b)
    BY <2>2 DEF LabelOf, b
  <2> DEFINE x == SubSeq(p, i + 2, i + 1 + b)
             y == SubSeq(r, i + 2, i + 1 + b)
  <2>6. x \in Seq(Octet) /\ Len(x) = b /\ \A j \in 1..b : x[j] = p[i + 1 + j]
    BY <1>1, <2>1, <2>2, <2>3
  <2>7. y \in Seq(Octet) /\ Len(y) = b /\ \A j \in 1..b : y[j] = r[i + 1 + j]
    BY <1>1, <2>1, <2>2
  <2>8. \A j \in 1..b : i + 1 + j \in 1..m
    BY <1>1, <2>1, <2>2
  <2> HIDE DEF x, y, m
  <2>9. x = y
    BY <1>1, <2>6, <2>7, <2>8, SeqEqual
  <2>10. QED
    BY <2>2, <2>4, <2>5, <2>9 DEF x, y, b
<1>5. ASSUME IsPointer(r, i)
      PROVE  IsPointer(p, i) /\ PointsTo(p, i) = PointsTo(r, i) /\ p[i + 1] = r[i + 1]
  <2>1. i + 1 < m /\ r[i + 1] >= 192 /\ PointsTo(r, i) < i
    BY <1>5 DEF IsPointer
  <2>2. i + 1 \in 1..m /\ i + 2 \in 1..m
    BY <1>1, <2>1
  <2>3. r[i + 1] = p[i + 1] /\ r[i + 2] = p[i + 2] /\ i + 1 < l
    BY <1>1, <2>1, <2>2
  <2>4. PointsTo(p, i) = PointsTo(r, i)
    BY <2>3 DEF PointsTo
  <2>5. QED
    BY <2>1, <2>3, <2>4 DEF IsPointer
<1>6. QED
  BY <1>3, <1>4, <1>5

\* Every label has a length that is possible in a name.
Fitting(labels) == \A j \in DOMAIN labels : Len(labels[j]) \in 1..DNS_MAX_LABEL_LEN

\* A fitting label before fitting labels.
LEMMA FittingPrepend ==
  ASSUME NEW label \in Texts, Len(label) \in 1..DNS_MAX_LABEL_LEN,
         NEW rest \in LabelSeq, Fitting(rest)
  PROVE  Fitting(<<label>> \o rest)
<1> DEFINE one == <<label>>
           all == one \o rest
<1>1. one \in LabelSeq /\ Len(one) = 1 /\ one[1] = label
  BY DEF LabelSeq
<1> HIDE DEF one
<1>2. /\ all \in LabelSeq /\ Len(all) = Len(one) + Len(rest) /\ Len(rest) \in Nat
      /\ \A j \in 1..(Len(one) + Len(rest)) :
           all[j] = IF j <= Len(one) THEN one[j] ELSE rest[j - Len(one)]
  <2>1. one \in Seq(Texts) /\ rest \in Seq(Texts)
    BY <1>1 DEF LabelSeq
  <2>2. /\ one \o rest \in Seq(Texts) /\ Len(one \o rest) = Len(one) + Len(rest)
        /\ \A j \in 1..(Len(one) + Len(rest)) :
             (one \o rest)[j] = IF j <= Len(one) THEN one[j] ELSE rest[j - Len(one)]
    BY <2>1, ConcatProperties
  <2>3. Len(rest) \in Nat
    BY <2>1
  <2> DEFINE x == one \o rest
  <2> HIDE DEF x
  <2>4. QED
    BY <2>2, <2>3 DEF LabelSeq, x
<1> HIDE DEF all
<1>3. ASSUME NEW j \in DOMAIN all
      PROVE  Len(all[j]) \in 1..DNS_MAX_LABEL_LEN
  <2>1. j \in 1..(1 + Len(rest)) /\ DOMAIN rest = 1..Len(rest)
    BY <1>1, <1>2 DEF LabelSeq
  <2>2. CASE j = 1
    BY <1>1, <1>2, <2>1, <2>2
  <2>3. CASE j # 1
    <3>1. j - 1 \in DOMAIN rest /\ all[j] = rest[j - 1]
      BY <1>1, <1>2, <2>1, <2>3
    <3>2. QED
      BY <3>1 DEF Fitting
  <2>4. QED
    BY <2>2, <2>3
<1>4. QED
  BY <1>3 DEF Fitting, all, one

\* The name at i, with at most n pointers, is in both if it is in the front.
SameName(r, p, i, n) ==
  LabelsAt(r, i, n) # Bad =>
    LabelsAt(p, i, n) = LabelsAt(r, i, n) /\ Fitting(LabelsAt(r, i, n))

\* It is if what follows the first label or the pointer is.
LEMMA SameNameTurn ==
  ASSUME NEW r, NEW p, IsFront(r, p), NEW n \in 0..MAX_COMPRESSION_JUMPS, NEW i \in Nat,
         \A j \in Nat : i < j => SameName(r, p, j, n),
         n > 0 => \A j \in Nat : SameName(r, p, j, n - 1)
  PROVE  SameName(r, p, i, n)
<1> SUFFICES ASSUME LabelsAt(r, i, n) # Bad
             PROVE  LabelsAt(p, i, n) = LabelsAt(r, i, n) /\ Fitting(LabelsAt(r, i, n))
  BY DEF SameName
<1>1. r \in Seq(Octet) /\ p \in Seq(Octet)
  BY DEF IsFront
<1>2. LabelsRead(r, i, n) /\ LabelsRead(p, i, n)
  BY <1>1, LabelsAtIs
<1>3. IsEnd(r, i) \/ IsLabel(r, i) \/ IsPointer(r, i)
  BY <1>2 DEF LabelsRead, IsBroken
<1>4. CASE IsEnd(r, i)
  <2>1. LabelsAt(r, i, n) = << >> /\ LabelsAt(p, i, n) = << >>
    BY <1>2, <1>4, PlacesOfFront DEF LabelsRead
  <2>2. Fitting(<< >>)
    BY DEF Fitting
  <2>3. QED
    BY <2>1, <2>2
<1>5. CASE IsLabel(r, i)
  <2> DEFINE label == LabelOf(r, i)
             to == i + 1 + r[i + 1]
             rest == LabelsAt(r, to, n)
  <2>1. /\ IsLabel(p, i) /\ p[i + 1] = r[i + 1] /\ LabelOf(p, i) = label
    BY <1>5, PlacesOfFront
  <2>2. /\ to \in Nat /\ i < to /\ label \in Texts /\ Len(label) = r[i + 1]
    BY <1>1, <1>5, KindsOfPlaces
  <2>3. Len(label) \in 1..DNS_MAX_LABEL_LEN
    BY <1>5, <2>2 DEF IsLabel
  <2>4. LabelsAt(r, i, n) = Prepend(<<label>>, rest)
    BY <1>2, <1>5 DEF LabelsRead
  <2>5. LabelsAt(p, i, n) = Prepend(<<label>>, LabelsAt(p, to, n))
    BY <1>2, <2>1 DEF LabelsRead
  <2>6. rest \in MaybeLabels
    BY <1>1, <2>2, LabelsAtIs DEF LabelsRead
  <2>7. SameName(r, p, to, n)
    BY <2>2
  <2> HIDE DEF label, to, rest
  <2>8. rest # Bad
    BY <2>4 DEF Prepend
  <2>9. LabelsAt(p, to, n) = rest /\ Fitting(rest)
    BY <2>7, <2>8 DEF SameName, rest
  <2>10. LabelsAt(r, i, n) = <<label>> \o rest
    BY <2>4, <2>8 DEF Prepend
  <2>11. rest \in LabelSeq
    BY <2>6, <2>8 DEF MaybeLabels
  <2>12. Fitting(<<label>> \o rest)
    BY <2>2, <2>3, <2>9, <2>11, FittingPrepend
  <2>13. QED
    BY <2>4, <2>5, <2>9, <2>10, <2>12
<1>6. CASE IsPointer(r, i)
  <2> DEFINE to == PointsTo(r, i)
  <2>1. IsPointer(p, i) /\ PointsTo(p, i) = to
    BY <1>6, PlacesOfFront
  <2>2. to \in Nat
    BY <1>1, <1>6, KindsOfPlaces
  <2>3. n > 0
    BY <1>2, <1>6 DEF LabelsRead
  <2>4. LabelsAt(r, i, n) = LabelsAt(r, to, n - 1)
    BY <1>2, <1>6, <2>3 DEF LabelsRead
  <2>5. LabelsAt(p, i, n) = LabelsAt(p, to, n - 1)
    BY <1>2, <2>1, <2>3 DEF LabelsRead
  <2>6. SameName(r, p, to, n - 1)
    BY <2>2, <2>3
  <2> HIDE DEF to
  <2>7. QED
    BY <2>4, <2>5, <2>6 DEF SameName
<1>7. QED
  BY <1>3, <1>4, <1>5, <1>6

\* A name that is all in the front is in the datagram.
LEMMA NameOfFront ==
  ASSUME NEW r, NEW p, IsFront(r, p), NEW n \in 0..MAX_COMPRESSION_JUMPS, NEW i \in Nat
  PROVE  SameName(r, p, i, n)
<1> DEFINE J == MAX_COMPRESSION_JUMPS
           All(m) == \A j \in Nat : SameName(r, p, j, m)
           S == {m \in Nat : m <= J => All(m)}
<1>1. r \in Seq(Octet) /\ p \in Seq(Octet) /\ Len(r) \in Nat /\ J \in Nat /\ n \in Nat /\ n <= J
  BY ParserLimits DEF IsFront
<1>2. ASSUME NEW m \in 0..J, m > 0 => All(m - 1)
      PROVE  All(m)
  <2> DEFINE T == {j \in Nat : SameName(r, p, j, m)}
             L == Len(r)
  <2>1. ASSUME NEW j \in Nat, j >= L
        PROVE  j \in T
    <3>1. LabelsRead(r, j, m)
      BY <1>1, LabelsAtIs
    <3>2. IsBroken(r, j)
      BY <1>1, <2>1 DEF IsBroken, IsEnd, IsLabel, IsPointer
    <3>3. LabelsAt(r, j, m) = Bad
      BY <3>1, <3>2 DEF LabelsRead
    <3>4. QED
      BY <3>3 DEF SameName
  <2>2. ASSUME NEW j \in Nat, \A k \in Nat : j < k => k \in T
        PROVE  j \in T
    <3>1. \A k \in Nat : j < k => SameName(r, p, k, m)
      BY <2>2
    <3>2. m > 0 => \A k \in Nat : SameName(r, p, k, m - 1)
      BY <1>2
    <3>3. SameName(r, p, j, m)
      BY <3>1, <3>2, SameNameTurn
    <3>4. QED
      BY <3>3
  <2> HIDE DEF T
  <2>3. \A j \in Nat : j \in T
    BY <1>1, <2>1, <2>2, UpwardInduction
  <2>4. QED
    BY <2>3 DEF T
<1>3. 0 \in S
  <2>1. 0 \in 0..J
    BY <1>1
  <2> HIDE DEF All
  <2>2. QED
    BY <1>2, <2>1
<1>4. \A m \in Nat : m \in S => m + 1 \in S
  <2> SUFFICES ASSUME NEW m \in Nat, m \in S, m + 1 <= J
               PROVE  All(m + 1)
    OBVIOUS
  <2> HIDE DEF All
  <2>1. m + 1 \in 0..J /\ (m + 1) - 1 = m /\ m <= J
    BY <1>1
  <2>2. All(m)
    BY <2>1
  <2>3. QED
    BY <1>2, <2>1, <2>2
<1> HIDE DEF S
<1>5. \A m \in Nat : m \in S
  BY <1>3, <1>4, SetInduction
<1>6. QED
  BY <1>1, <1>5 DEF S

\* Its end in place is the same as well.
LEMMA EndOfFront ==
  ASSUME NEW r, NEW p, IsFront(r, p)
  PROVE  \A i \in Nat : NameAt(r, i) # Bad => EndOfName(p, i) = EndOfName(r, i)
<1> DEFINE n == MAX_COMPRESSION_JUMPS
           T == {i \in Nat : LabelsAt(r, i, n) # Bad => EndOfName(p, i) = EndOfName(r, i)}
           L == Len(r)
<1>1. r \in Seq(Octet) /\ p \in Seq(Octet) /\ L \in Nat /\ n \in 0..n
  BY ParserLimits DEF IsFront
<1>2. ASSUME NEW i \in Nat, i >= L
      PROVE  i \in T
  <2>1. LabelsRead(r, i, n)
    BY <1>1, LabelsAtIs
  <2>2. IsBroken(r, i)
    BY <1>1, <1>2 DEF IsBroken, IsEnd, IsLabel, IsPointer
  <2>3. LabelsAt(r, i, n) = Bad
    BY <2>1, <2>2 DEF LabelsRead
  <2>4. QED
    BY <2>3
<1>3. ASSUME NEW i \in Nat, \A k \in Nat : i < k => k \in T
      PROVE  i \in T
  <2> SUFFICES ASSUME LabelsAt(r, i, n) # Bad
               PROVE  EndOfName(p, i) = EndOfName(r, i)
    OBVIOUS
  <2>1. LabelsRead(r, i, n) /\ EndRead(r, i) /\ EndRead(p, i)
    BY <1>1, LabelsAtIs, EndOfNameIs
  <2>2. IsEnd(r, i) \/ IsLabel(r, i) \/ IsPointer(r, i)
    BY <2>1 DEF LabelsRead, IsBroken
  <2>3. CASE IsEnd(r, i)
    BY <2>1, <2>3, PlacesOfFront DEF EndRead
  <2>4. CASE IsLabel(r, i)
    <3> DEFINE to == i + 1 + r[i + 1]
    <3>1. IsLabel(p, i) /\ p[i + 1] = r[i + 1]
      BY <2>4, PlacesOfFront
    <3>2. to \in Nat /\ i < to
      BY <1>1, <2>4, KindsOfPlaces
    <3>3. LabelsAt(r, i, n) = Prepend(<<LabelOf(r, i)>>, LabelsAt(r, to, n))
      BY <2>1, <2>4 DEF LabelsRead
    <3>4. EndOfName(r, i) = EndOfName(r, to) /\ EndOfName(p, i) = EndOfName(p, to)
      BY <2>1, <2>4, <3>1 DEF EndRead
    <3>5. LabelsAt(r, to, n) # Bad
      BY <3>3 DEF Prepend
    <3>6. to \in T
      BY <1>3, <3>2
    <3>7. QED
      BY <3>4, <3>5, <3>6
  <2>5. CASE IsPointer(r, i)
    <3>1. i < Len(r) /\ r[i + 1] >= 192
      BY <1>1, <2>5 DEF IsPointer
    <3>2. IsPointer(p, i) /\ p[i + 1] = r[i + 1]
      BY <2>5, PlacesOfFront
    <3>3. i < Len(p)
      BY <1>1, <3>1 DEF IsFront
    <3>4. EndOfName(r, i) = i + 2 /\ EndOfName(p, i) = i + 2
      BY <2>1, <3>1, <3>2, <3>3 DEF EndRead
    <3>5. QED
      BY <3>4
  <2>6. QED
    BY <2>2, <2>3, <2>4, <2>5
<1> HIDE DEF T, L
<1>4. \A i \in Nat : i \in T
  BY <1>1, <1>2, <1>3, UpwardInduction
<1>5. QED
  BY <1>4 DEF T, NameAt

\* A name that needs a pointer in the front needs one in the datagram.
LEMMA PointerOfFront ==
  ASSUME NEW r, NEW p, IsFront(r, p)
  PROVE  \A i \in Nat : NameAt(r, i) # Bad /\ LabelsAt(r, i, 0) = Bad => LabelsAt(p, i, 0) = Bad
<1> DEFINE n == MAX_COMPRESSION_JUMPS
           T == {i \in Nat : LabelsAt(r, i, n) # Bad /\ LabelsAt(r, i, 0) = Bad
                               => LabelsAt(p, i, 0) = Bad}
           L == Len(r)
<1>1. r \in Seq(Octet) /\ p \in Seq(Octet) /\ L \in Nat /\ n \in 0..n /\ 0 \in 0..n
  BY ParserLimits DEF IsFront
<1>2. ASSUME NEW i \in Nat, i >= L
      PROVE  i \in T
  <2>1. LabelsRead(r, i, n)
    BY <1>1, LabelsAtIs
  <2>2. IsBroken(r, i)
    BY <1>1, <1>2 DEF IsBroken, IsEnd, IsLabel, IsPointer
  <2>3. LabelsAt(r, i, n) = Bad
    BY <2>1, <2>2 DEF LabelsRead
  <2>4. QED
    BY <2>3
<1>3. ASSUME NEW i \in Nat, \A k \in Nat : i < k => k \in T
      PROVE  i \in T
  <2> SUFFICES ASSUME LabelsAt(r, i, n) # Bad, LabelsAt(r, i, 0) = Bad
               PROVE  LabelsAt(p, i, 0) = Bad
    OBVIOUS
  <2>1. LabelsRead(r, i, n) /\ LabelsRead(r, i, 0) /\ LabelsRead(p, i, 0)
    BY <1>1, LabelsAtIs
  <2>2. ~IsEnd(r, i)
    <3>1. << >> # Bad
      <4>1. << >> \in Seq(Seq(Octet))
        OBVIOUS
      <4>2. QED
        BY <4>1, BadIsNone
    <3>2. QED
      BY <2>1, <3>1 DEF LabelsRead
  <2>3. IsLabel(r, i) \/ IsPointer(r, i)
    BY <2>1, <2>2 DEF LabelsRead, IsBroken
  <2>4. CASE IsLabel(r, i)
    <3> DEFINE to == i + 1 + r[i + 1]
               one == <<LabelOf(r, i)>>
    <3>1. IsLabel(p, i) /\ p[i + 1] = r[i + 1] /\ <<LabelOf(p, i)>> = one
      BY <2>4, PlacesOfFront
    <3>2. to \in Nat /\ i < to /\ LabelOf(r, i) \in Texts
      BY <1>1, <2>4, KindsOfPlaces
    <3>3. /\ LabelsAt(r, i, n) = Prepend(one, LabelsAt(r, to, n))
          /\ LabelsAt(r, i, 0) = Prepend(one, LabelsAt(r, to, 0))
      BY <2>1, <2>4 DEF LabelsRead
    <3>4. LabelsAt(p, i, 0) = Prepend(one, LabelsAt(p, to, 0))
      BY <2>1, <3>1 DEF LabelsRead
    <3>5. one \in LabelSeq /\ LabelsAt(r, to, 0) \in MaybeLabels
      <4>1. one \in LabelSeq
        BY <3>2 DEF LabelSeq
      <4>2. LabelsRead(r, to, 0)
        BY <1>1, <3>2, LabelsAtIs
      <4>3. QED
        BY <4>1, <4>2 DEF LabelsRead
    <3>6. to \in T
      BY <1>3, <3>2
    <3>7. LabelsAt(r, to, n) # Bad
      BY <3>3 DEF Prepend
    <3> HIDE DEF one, to
    <3>8. LabelsAt(r, to, 0) = Bad
      BY <3>3, <3>5, PrependType
    <3>9. LabelsAt(p, to, 0) = Bad
      BY <3>6, <3>7, <3>8
    <3>10. QED
      BY <3>4, <3>9 DEF Prepend
  <2>5. CASE IsPointer(r, i)
    <3>1. IsPointer(p, i)
      BY <2>5, PlacesOfFront
    <3>2. QED
      BY <2>1, <3>1 DEF LabelsRead
  <2>6. QED
    BY <2>3, <2>4, <2>5
<1> HIDE DEF T, L
<1>4. \A i \in Nat : i \in T
  BY <1>1, <1>2, <1>3, UpwardInduction
<1>5. QED
  BY <1>4 DEF T, NameAt

-----------------------------------------------------------------------------
(* A name on the wire as the text the filter is asked for. *)

\* Text, label and dot, character by character.
LEMMA PartsOfText ==
  ASSUME NEW text \in Texts, NEW label \in Texts, NEW t, t = text \o label \o <<Dot>>
  PROVE  /\ t \in Texts /\ Len(t) = Len(text) + Len(label) + 1
         /\ \A j \in 1..Len(text) : t[j] = text[j]
         /\ \A j \in 1..Len(label) : t[Len(text) + j] = label[j]
         /\ t[Len(text) + Len(label) + 1] = Dot
<1> DEFINE d == <<Dot>>
           a == text \o label
<1>1. /\ t \in Texts /\ Len(t) = Len(text) + Len(label) + 1
      /\ t[Len(text) + Len(label) + 1] = Dot
  BY OneMoreLabel
<1>2. text \in Seq(Octet) /\ label \in Seq(Octet) /\ Len(text) \in Nat /\ Len(label) \in Nat
  BY DEF Texts
<1>3. d \in Seq(Octet) /\ Len(d) = 1
  BY DEF Dot, Octet
<1>4. t = a \o d
  OBVIOUS
<1> HIDE DEF d, a
<1>5. /\ a \in Seq(Octet) /\ Len(a) = Len(text) + Len(label)
      /\ \A j \in 1..(Len(text) + Len(label)) :
           a[j] = IF j <= Len(text) THEN text[j] ELSE label[j - Len(text)]
  BY <1>2, ConcatProperties DEF a
<1>6. \A j \in 1..(Len(a) + Len(d)) : (a \o d)[j] = IF j <= Len(a) THEN a[j] ELSE d[j - Len(a)]
  <2>1. a \in Seq(Octet) /\ d \in Seq(Octet)
    BY <1>3, <1>5
  <2>2. QED
    BY <2>1, ConcatProperties
<1>7. \A j \in 1..Len(text) : t[j] = text[j]
  BY <1>2, <1>3, <1>4, <1>5, <1>6
<1>8. ASSUME NEW j \in 1..Len(label)
      PROVE  t[Len(text) + j] = label[j]
  <2> DEFINE k == Len(text) + j
  <2>1. k \in 1..(Len(text) + Len(label)) /\ ~(k <= Len(text)) /\ k - Len(text) = j
    BY <1>2
  <2> HIDE DEF k
  <2>2. k \in 1..(Len(a) + Len(d)) /\ k <= Len(a)
    BY <1>2, <1>3, <1>5, <2>1
  <2>3. t[k] = a[k]
    BY <1>4, <1>6, <2>2
  <2>4. a[k] = label[j]
    BY <1>5, <2>1
  <2>5. QED
    BY <2>3, <2>4 DEF k
<1>9. QED
  BY <1>1, <1>7, <1>8

\* The text of the first labels begins the text of all of them.
LEMMA DottedBegins ==
  ASSUME NEW labels \in LabelSeq, NEW f, DottedUpTo(labels, f), NEW m \in 0..Len(labels)
  PROVE  /\ m < Len(labels) => Len(f[m]) < Len(f[Len(labels)])
         /\ Len(f[m]) <= Len(f[Len(labels)])
         /\ \A j \in 1..Len(f[m]) : f[Len(labels)][j] = f[m][j]
<1> DEFINE n == Len(labels)
           Begins(k) == /\ m < k => Len(f[m]) < Len(f[k])
                        /\ Len(f[m]) <= Len(f[k])
                        /\ \A j \in 1..Len(f[m]) : f[k][j] = f[m][j]
           S == {d \in Nat : m + d <= n => Begins(m + d)}
<1>1. n \in Nat /\ m \in Nat /\ m <= n
  BY DEF LabelSeq
<1>2. \A k \in 0..n : f[k] \in Texts /\ Len(f[k]) \in Nat
  <2>1. \A k \in 0..n : f[k] \in Texts
    BY DEF DottedUpTo
  <2>2. QED
    BY <2>1 DEF Texts
<1>3. 0 \in S
  <2>1. m + 0 = m /\ m \in 0..n
    BY <1>1
  <2>2. Len(f[m]) \in Nat
    BY <1>2, <2>1
  <2>3. Begins(m)
    BY <1>1, <2>2
  <2> HIDE DEF Begins
  <2>4. QED
    BY <2>1, <2>3
<1>4. \A d \in Nat : d \in S => d + 1 \in S
  <2> SUFFICES ASSUME NEW d \in Nat, d \in S, m + (d + 1) <= n
               PROVE  Begins(m + (d + 1))
    OBVIOUS
  <2> DEFINE k == m + d
  <2>1. /\ k \in 0..n /\ k + 1 \in 1..n /\ k + 1 \in 0..n /\ (k + 1) - 1 = k /\ m + (d + 1) = k + 1
        /\ m \in 0..n /\ m + d <= n
    BY <1>1
  <2>2. Begins(k)
    <3> HIDE DEF Begins
    <3>1. QED
      BY <2>1
  <2> HIDE DEF k
  <2>3. f[k + 1] = f[k] \o labels[k + 1] \o <<Dot>>
    BY <2>1 DEF DottedUpTo
  <2>4. labels[k + 1] \in Texts /\ f[k] \in Texts
    BY <1>2, <2>1 DEF LabelSeq
  <2>5. /\ Len(f[k + 1]) = Len(f[k]) + Len(labels[k + 1]) + 1
        /\ \A j \in 1..Len(f[k]) : f[k + 1][j] = f[k][j]
    <3> DEFINE a == f[k]
               b == labels[k + 1]
               t == f[k + 1]
    <3>1. a \in Texts /\ b \in Texts /\ t = a \o b \o <<Dot>>
      BY <2>3, <2>4
    <3> HIDE DEF a, b, t
    <3>2. Len(t) = Len(a) + Len(b) + 1 /\ \A j \in 1..Len(a) : t[j] = a[j]
      BY <3>1, PartsOfText
    <3>3. QED
      BY <3>2 DEF a, b, t
  <2>6. Len(f[k]) \in Nat /\ Len(f[m]) \in Nat /\ Len(labels[k + 1]) \in Nat
    BY <1>2, <2>1, <2>4 DEF Texts
  <2>7. Begins(k + 1)
    <3>1. Len(f[m]) < Len(f[k + 1])
      <4>1. \A x, y, z \in Nat : x <= y => x < y + z + 1
        OBVIOUS
      <4>2. QED
        BY <2>2, <2>5, <2>6, <4>1
    <3>2. \A j \in 1..Len(f[m]) : f[k + 1][j] = f[m][j]
      BY <2>2, <2>5, <2>6
    <3>3. Len(f[m]) <= Len(f[k + 1])
      <4>1. Len(f[k + 1]) \in Nat
        BY <1>2, <2>1
      <4>2. QED
        BY <2>6, <3>1, <4>1
    <3>4. QED
      BY <3>1, <3>2, <3>3
  <2> HIDE DEF Begins
  <2>8. QED
    BY <2>1, <2>7
<1> HIDE DEF S
<1>5. \A d \in Nat : d \in S
  BY <1>3, <1>4, SetInduction
<1>6. n - m \in S /\ m + (n - m) = n /\ n <= n
  BY <1>1, <1>5
<1>7. Begins(n)
  <2> HIDE DEF Begins
  <2>1. QED
    BY <1>6 DEF S
<1>8. QED
  BY <1>7

\* The characters a name can be made of.
Chars == {Char[b] : b \in Octet} \cup {"a", "b"}

\* A text as characters, place by place.
LEMMA TextIs ==
  ASSUME NEW s \in Texts
  PROVE  /\ Text(s) \in Seq(Chars) /\ Len(Text(s)) = Len(s)
         /\ \A i \in 1..Len(s) : Text(s)[i] = Char[s[i]]
<1>1. Len(s) \in Nat /\ DOMAIN s = 1..Len(s) /\ \A i \in 1..Len(s) : s[i] \in Octet
  BY DEF Texts
<1>2. Text(s) = [i \in 1..Len(s) |-> Char[s[i]]]
  BY <1>1 DEF Text
<1>3. \A i \in 1..Len(s) : Char[s[i]] \in Chars
  BY <1>1 DEF Chars
<1> DEFINE n == Len(s)
<1> HIDE DEF n, Octet, Char, Chars
<1>4. \A i \in 1..n : Char[s[i]] \in Chars
  BY <1>3 DEF n
<1>5. [i \in 1..n |-> Char[s[i]]] \in Seq(Chars) /\ Len([i \in 1..n |-> Char[s[i]]]) = n
  BY <1>1, <1>4 DEF n
<1>6. QED
  BY <1>2, <1>5 DEF n

\* The characters there are include their lower case.
LEMMA CharsLowered == \A c \in Chars : NP!tolower(c) \in Chars
  BY DEF NP!tolower, NP!LowerCase, Chars

\* The dot between two labels is the character the filter splits at.
LEMMA DotIsDot == Char[Dot] = "."
<1>1. Dot \in Octet /\ Dot = 46
  BY DEF Dot, Octet
<1>2. Char[46] = "."
  BY <1>1 DEF Char
<1>3. QED
  BY <1>1, <1>2

\* A name without a NUL in a label is a C string, with a dot less than it has
\* labels.
LEMMA NameIsCText ==
  ASSUME NEW labels \in LabelSeq, \A k \in DOMAIN labels : labels[k] \in CText,
         NEW f, DottedUpTo(labels, f)
  PROVE  \A k \in 0..Len(labels) : f[k] \in CText
<1> DEFINE n == Len(labels)
           S == {k \in Nat : k <= n => f[k] \in CText}
<1>1. n \in Nat /\ DOMAIN labels = 1..n
  BY DEF LabelSeq
<1>2. 0 \in S
  BY DEF DottedUpTo, CText
<1>3. \A k \in Nat : k \in S => k + 1 \in S
  <2> SUFFICES ASSUME NEW k \in Nat, k \in S, k + 1 <= n
               PROVE  f[k + 1] \in CText
    OBVIOUS
  <2>1. k + 1 \in 1..n /\ (k + 1) - 1 = k /\ k <= n
    BY <1>1
  <2> DEFINE a == f[k]
             b == labels[k + 1]
             d == <<Dot>>
  <2>2. a \in CText /\ b \in CText /\ d \in CText
    BY <1>1, <2>1 DEF CText, Dot, Octet
  <2>3. f[k + 1] = a \o b \o d
    BY <2>1 DEF DottedUpTo
  <2> HIDE DEF a, b, d
  <2>4. a \o b \o d \in CText
    <3>1. a \o b \in CText
      BY <2>2, ConcatProperties DEF CText
    <3>2. QED
      BY <2>2, <3>1, ConcatProperties DEF CText
  <2>5. QED
    BY <2>3, <2>4
<1> HIDE DEF S
<1>4. \A k \in Nat : k \in S
  BY <1>2, <1>3, SetInduction
<1>5. QED
  BY <1>1, <1>4 DEF S

\* The text without its last dot.
LEMMA FrontIs ==
  ASSUME NEW t \in Texts, t # << >>
  PROVE  /\ Front1(t) \in Texts /\ Len(Front1(t)) = Len(t) - 1 /\ Len(t) - 1 \in Nat
         /\ \A i \in 1..(Len(t) - 1) : Front1(t)[i] = t[i]
<1>1. t \in Seq(Octet) /\ Len(t) \in Nat /\ Len(t) # 0
  BY DEF Texts
<1> DEFINE m == Len(t) - 1
           s == SubSeq(t, 1, m)
<1>2. Front1(t) = s
  BY DEF Front1
<1>3. m \in 0..Len(t) /\ m \in Nat
  BY <1>1
<1> HIDE DEF m
<1>4. s \in Seq(Octet) /\ Len(s) = m /\ \A i \in 1..m : s[i] = t[i]
  BY <1>1, <1>3
<1> HIDE DEF s
<1>5. QED
  BY <1>2, <1>3, <1>4 DEF Texts, m

\* The labels of a name as the filter's characters.
AsText(labels) == [k \in 1..Len(labels) |-> Text(labels[k])]

\* The labels as characters, label by label and place by place.
LEMMA AsTextIs ==
  ASSUME NEW labels \in LabelSeq
  PROVE  /\ AsText(labels) \in Seq(Seq(Chars)) /\ Len(AsText(labels)) = Len(labels)
         /\ Len(labels) \in Nat /\ DOMAIN labels = 1..Len(labels)
         /\ \A k \in 1..Len(labels) :
              /\ labels[k] \in Texts /\ AsText(labels)[k] = Text(labels[k])
              /\ Len(AsText(labels)[k]) = Len(labels[k]) /\ Len(labels[k]) \in Nat
              /\ \A i \in 1..Len(labels[k]) : AsText(labels)[k][i] = Char[labels[k][i]]
<1> DEFINE n == Len(labels)
<1>1. n \in Nat /\ DOMAIN labels = 1..n /\ \A k \in 1..n : labels[k] \in Texts
  BY DEF LabelSeq
<1>2. \A k \in 1..n : /\ Text(labels[k]) \in Seq(Chars) /\ Len(Text(labels[k])) = Len(labels[k])
                      /\ \A i \in 1..Len(labels[k]) : Text(labels[k])[i] = Char[labels[k][i]]
                      /\ Len(labels[k]) \in Nat
  <2>1. \A s \in Texts : Len(s) \in Nat
    BY DEF Texts
  <2>2. QED
    BY <1>1, <2>1, TextIs
<1>3. AsText(labels) = [k \in 1..n |-> Text(labels[k])]
  BY DEF AsText
<1> HIDE DEF n
<1>4. AsText(labels) \in Seq(Seq(Chars)) /\ Len(AsText(labels)) = n
      /\ \A k \in 1..n : AsText(labels)[k] = Text(labels[k])
  BY <1>1, <1>2, <1>3
<1>5. QED
  BY <1>1, <1>2, <1>4 DEF n

\* The text of a name is its labels with dots between them.
LEMMA NameJoins ==
  ASSUME NEW labels \in LabelSeq, labels # << >>, NEW f, DottedUpTo(labels, f),
         NEW text, text = Front1(f[Len(labels)])
  PROVE  /\ text \in Texts /\ Len(text) + 1 = Len(f[Len(labels)])
         /\ NP!Joins(Text(text), AsText(labels), [k \in 0..Len(labels) |-> Len(f[k])])
<1> DEFINE n == Len(labels)
           D == f[n]
           at == [k \in 0..n |-> Len(f[k])]
<1>1. n \in Nat /\ n # 0 /\ \A k \in 1..n : labels[k] \in Texts /\ Len(labels[k]) \in Nat
  <2>1. n \in Nat /\ n # 0
    BY DEF LabelSeq
  <2>2. QED
    BY <2>1, AsTextIs
<1>2. \A k \in 0..n : f[k] \in Texts /\ Len(f[k]) \in Nat
  <2>1. \A k \in 0..n : f[k] \in Texts
    BY DEF DottedUpTo
  <2>2. QED
    BY <2>1 DEF Texts
<1>3. f[0] = << >> /\ \A k \in 1..n : f[k] = f[k - 1] \o labels[k] \o <<Dot>>
  BY DEF DottedUpTo
<1>4. \A k \in 0..n : /\ k < n => Len(f[k]) < Len(D)
                      /\ Len(f[k]) <= Len(D)
                      /\ \A j \in 1..Len(f[k]) : D[j] = f[k][j]
  BY DottedBegins
<1>5. ASSUME NEW k \in 1..n
      PROVE  /\ Len(f[k]) = Len(f[k - 1]) + Len(labels[k]) + 1
             /\ \A j \in 1..Len(labels[k]) : f[k][Len(f[k - 1]) + j] = labels[k][j]
             /\ f[k][Len(f[k])] = Dot
             /\ k \in 0..n /\ k - 1 \in 0..n
  <2> DEFINE a == f[k - 1]
             b == labels[k]
             t == f[k]
  <2>1. k \in 0..n /\ k - 1 \in 0..n
    BY <1>1
  <2>2. a \in Texts /\ b \in Texts /\ t = a \o b \o <<Dot>>
    BY <1>1, <1>2, <1>3, <2>1
  <2> HIDE DEF a, b, t
  <2>3. /\ Len(t) = Len(a) + Len(b) + 1
        /\ \A j \in 1..Len(b) : t[Len(a) + j] = b[j]
        /\ t[Len(a) + Len(b) + 1] = Dot
    BY <2>2, PartsOfText
  <2>4. t[Len(t)] = Dot
    BY <2>3
  <2>5. QED
    BY <2>1, <2>3, <2>4 DEF a, b, t
<1>6. D \in Texts /\ D # << >>
  <2>1. n \in 1..n /\ n \in 0..n /\ n - 1 \in 0..n
    BY <1>1
  <2>2. D \in Texts
    BY <1>2, <2>1
  <2> DEFINE a == Len(f[n - 1])
             b == Len(labels[n])
  <2>3. Len(D) = a + b + 1 /\ a \in Nat /\ b \in Nat
    BY <1>1, <1>2, <1>5, <2>1
  <2>4. a + b + 1 # 0
    <3> HIDE DEF a, b
    <3>1. QED
      BY <2>3
  <2>5. D # << >>
    <3>1. Len(<< >>) = 0
      OBVIOUS
    <3> HIDE DEF a, b, D
    <3>2. QED
      BY <2>3, <2>4, <3>1
  <2>6. QED
    BY <2>2, <2>5
<1>7. /\ text \in Texts /\ Len(text) = Len(D) - 1 /\ Len(D) \in Nat
      /\ \A i \in 1..(Len(D) - 1) : text[i] = D[i]
      /\ Len(text) + 1 = Len(D)
  <2> HIDE DEF D
  <2>1. text = Front1(D)
    BY DEF D
  <2>2. /\ text \in Texts /\ Len(text) = Len(D) - 1 /\ Len(D) - 1 \in Nat
        /\ \A i \in 1..(Len(D) - 1) : text[i] = D[i]
    BY <1>6, <2>1, FrontIs
  <2>3. Len(D) \in Nat
    BY <1>6 DEF Texts
  <2>4. QED
    BY <2>2, <2>3
<1>8. Len(Text(text)) = Len(text) /\ \A i \in 1..Len(text) : Text(text)[i] = Char[text[i]]
  BY <1>7, TextIs
<1>9. /\ Len(AsText(labels)) = n
      /\ \A k \in 1..n : /\ Len(AsText(labels)[k]) = Len(labels[k])
                         /\ \A i \in 1..Len(labels[k]) :
                              AsText(labels)[k][i] = Char[labels[k][i]]
  BY AsTextIs
<1>10. at \in [0..n -> Nat] /\ at[0] = 0 /\ at[n] = Len(Text(text)) + 1
  <2>1. 0 \in 0..n /\ n \in 0..n
    BY <1>1
  <2>2. Len(f[0]) = 0
    BY <1>3
  <2>3. QED
    BY <1>2, <1>7, <1>8, <2>1, <2>2
<1>11. ASSUME NEW k \in 1..n
       PROVE  /\ at[k] = at[k - 1] + Len(AsText(labels)[k]) + 1
              /\ \A i \in 1..Len(AsText(labels)[k]) :
                   Text(text)[at[k - 1] + i] = AsText(labels)[k][i]
              /\ k < n => Text(text)[at[k]] = "."
  <2> DEFINE a == Len(f[k - 1])
             l == Len(labels[k])
             e == Len(f[k])
             d == Len(D)
  <2>1. /\ e = a + l + 1 /\ a \in Nat /\ l \in Nat /\ e \in Nat /\ d \in Nat
        /\ e <= d /\ (k < n => e < d)
        /\ k \in 0..n /\ k - 1 \in 0..n
    BY <1>1, <1>2, <1>4, <1>5, <1>7
  <2>2. at[k] = e /\ at[k - 1] = a
    BY <2>1
  <2>3. ASSUME NEW i \in 1..l
        PROVE  Text(text)[a + i] = AsText(labels)[k][i]
    <3> DEFINE p == a + i
    <3>1. p \in 1..(d - 1) /\ p \in 1..e
      <4> HIDE DEF a, l, e, d
      <4>1. QED
        BY <2>1
    <3>2. D[p] = f[k][p]
      BY <1>4, <2>1, <3>1
    <3>3. f[k][p] = labels[k][i]
      BY <1>5
    <3>4. text[p] = labels[k][i]
      BY <1>7, <3>1, <3>2, <3>3
    <3>5. Text(text)[p] = Char[text[p]]
      BY <1>7, <1>8, <3>1
    <3>6. AsText(labels)[k][i] = Char[labels[k][i]]
      BY <1>9
    <3>7. QED
      BY <3>4, <3>5, <3>6
  <2>4. ASSUME k < n
        PROVE  Text(text)[e] = "."
    <3>1. e \in 1..(d - 1) /\ e \in 1..e
      <4> HIDE DEF a, l, e, d
      <4>1. QED
        BY <2>1, <2>4
    <3>2. D[e] = Dot
      BY <1>4, <1>5, <2>1, <3>1
    <3>3. text[e] = Dot
      BY <1>7, <3>1, <3>2
    <3>4. Text(text)[e] = Char[text[e]]
      BY <1>7, <1>8, <3>1
    <3>5. QED
      BY <3>3, <3>4, DotIsDot
  <2>5. Len(AsText(labels)[k]) = l
    BY <1>9
  <2> HIDE DEF a, l, e, d, at
  <2>6. QED
    BY <2>1, <2>2, <2>3, <2>4, <2>5
<1> HIDE DEF at, D
<1>12. NP!Joins(Text(text), AsText(labels), at)
  BY <1>9, <1>10, <1>11 DEF NP!Joins
<1>13. QED
  BY <1>7, <1>12 DEF at, D

-----------------------------------------------------------------------------
(* The conversions of DomainName are those its theorems are about. *)

\* What is left of a text without its blanks.
LEMMA SameVisible == ASSUME NEW t PROVE N!Visible(t) = NP!Visible(t)
BY DEF N!Visible, NP!Visible, N!isspace, NP!isspace, N!Cardinality, NP!Cardinality

\* Whether it runs past its buffer.
LEMMA SameOverflows == ASSUME NEW t, NEW l PROVE N!Overflows(t, l) <=> NP!Overflows(t, l)
BY DEF N!Overflows, NP!Overflows, N!isspace, NP!isspace, N!Cardinality, NP!Cardinality

\* What is copied of it, in lower case.
LEMMA SameWritten == ASSUME NEW t PROVE N!Written(t) = NP!Written(t)
BY SameVisible DEF N!Written, NP!Written, N!tolower, NP!tolower, N!LowerCase, NP!LowerCase

\* What is left of it without the dots it ends with.
LEMMA SameCut ==
  ASSUME NEW t
  PROVE  N!WithoutTrailingDots(t) = NP!WithoutTrailingDots(t)
BY DEF N!WithoutTrailingDots, NP!WithoutTrailingDots, N!Failed, NP!Failed

\* The labels of a name.
LEMMA SameSplit ==
  ASSUME NEW t
  PROVE  N!split_domain_labels(t) = NP!split_domain_labels(t)
BY DEF N!split_domain_labels, NP!split_domain_labels, N!Failed, NP!Failed, N!Cardinality,
   NP!Cardinality

\* The labels of a text.
LEMMA SameLabelsOfText == ASSUME NEW t PROVE N!LabelsOfText(t) = NP!LabelsOfText(t)
BY SameOverflows, SameWritten, SameCut, SameSplit
   DEF N!LabelsOfText, NP!LabelsOfText, N!normalize_domain, NP!normalize_domain, N!Failed,
   NP!Failed

\* The labels the filter reads, from the last to the first and in lower case.
FilterLabels(labels) ==
  [k \in 1..Len(labels) |-> NP!Lowered(Text(labels[Len(labels) + 1 - k]))]

\* Asked for a name without a NUL, a dot or a blank in a label, the filter
\* reads the labels on the wire.
LEMMA FilterReadsLabels ==
  ASSUME NEW labels \in LabelSeq, Fitting(labels),
         \A k \in DOMAIN labels : Ordinary(labels[k]),
         Len(Dotted(labels)) <= DNS_MAX_NAME_LEN
  PROVE  N!LabelsOfText(Text(strdup(Front1(Dotted(labels))))) = FilterLabels(labels)
<1> DEFINE n == Len(labels)
           text == Front1(Dotted(labels))
           parts == AsText(labels)
<1>1. DNS_MAX_NAME_LEN \in Nat \ {0} /\ DNS_MAX_LABEL_LEN \in Nat \ {0}
  BY ParserLimits
<1>2. PICK f : DottedUpTo(labels, f) /\ Dotted(labels) = f[Len(labels)]
  BY DottedIs
<1>3. CASE labels = << >>
  <2>1. text = << >> /\ n = 0
    BY <1>3, DottedEnds DEF Front1
  <2>2. << >> \in CText
    BY DEF CText
  <2>3. strdup(text) = << >>
    BY <2>1, <2>2, NoNulToFind
  <2>4. Text(<< >>) = << >>
    BY DEF Text
  <2>5. N!LabelsOfText(<< >>) = << >>
    BY <1>1, SameLabelsOfText, NP!NoText DEF NP!Failed
  <2>6. FilterLabels(labels) = << >>
    BY <1>3, <2>1 DEF FilterLabels
  <2>7. QED
    BY <2>3, <2>4, <2>5, <2>6
<1>4. CASE labels # << >>
  <2> DEFINE at == [k \in 0..n |-> Len(f[k])]
  <2>1. /\ text \in Texts /\ Len(text) + 1 = Len(Dotted(labels))
        /\ NP!Joins(Text(text), parts, at)
    BY <1>2, <1>4, NameJoins
  <2>2. /\ parts \in Seq(Seq(Chars)) /\ Len(parts) = n /\ n \in Nat /\ DOMAIN labels = 1..n
        /\ \A k \in 1..n :
             /\ labels[k] \in Texts /\ parts[k] = Text(labels[k])
             /\ Len(parts[k]) = Len(labels[k]) /\ Len(labels[k]) \in Nat
             /\ \A i \in 1..Len(labels[k]) : parts[k][i] = Char[labels[k][i]]
    BY AsTextIs
  <2> HIDE DEF at, text, parts, n
  <2>3. DOMAIN parts = 1..n /\ n # 0 /\ parts # << >>
    <3>1. DOMAIN parts = 1..n
      BY <2>2
    <3>2. n # 0
      BY <1>4, <2>2 DEF n, LabelSeq
    <3>3. QED
      BY <2>2, <3>1, <3>2
  <2>4. ASSUME NEW k \in 1..n
        PROVE  /\ parts[k] # << >> /\ Len(parts[k]) <= DNS_MAX_LABEL_LEN
               /\ DOMAIN parts[k] = 1..Len(parts[k])
               /\ \A i \in DOMAIN parts[k] : parts[k][i] # "." /\ ~NP!isspace(parts[k][i])
               /\ labels[k] \in CText
    <3> DEFINE s == labels[k]
               t == parts[k]
    <3>1. /\ s \in Texts /\ Len(t) = Len(s) /\ t \in Seq(Chars)
          /\ \A i \in 1..Len(s) : t[i] = Char[s[i]]
      BY <2>2, <2>3
    <3>2. Len(s) \in 1..DNS_MAX_LABEL_LEN /\ Ordinary(s)
      BY <2>2 DEF Fitting
    <3> HIDE DEF s, t
    <3>3. DOMAIN s = 1..Len(s) /\ DOMAIN t = 1..Len(t) /\ \A i \in 1..Len(s) : s[i] \in Octet
      BY <3>1 DEF Texts
    <3>4. \A i \in 1..Len(s) : s[i] # 0 /\ Char[s[i]] # "." /\ ~NP!isspace(Char[s[i]])
      BY <3>2, <3>3 DEF Ordinary, N!isspace, NP!isspace
    <3>5. t # << >> /\ Len(t) <= DNS_MAX_LABEL_LEN
      <4>1. Len(t) # 0 /\ Len(t) <= DNS_MAX_LABEL_LEN
        BY <1>1, <3>1, <3>2
      <4>2. QED
        BY <4>1
    <3>6. \A i \in DOMAIN t : t[i] # "." /\ ~NP!isspace(t[i])
      BY <3>1, <3>3, <3>4
    <3>7. s \in CText
      <4>1. s \in Seq(Octet) /\ \A i \in 1..Len(s) : s[i] \in Octet \ {0}
        BY <3>1, <3>3, <3>4 DEF Texts
      <4> HIDE DEF Octet
      <4>2. QED
        BY <4>1 DEF CText
    <3>8. QED
      BY <3>3, <3>5, <3>6, <3>7 DEF s, t
  <2>5. NP!Dotless(parts)
    BY <2>3, <2>4 DEF NP!Dotless
  <2>6. NP!InPlainText(parts)
    BY <2>3, <2>4 DEF NP!InPlainText
  <2>7. \A k \in DOMAIN labels : labels[k] \in CText
    BY <2>2, <2>4
  <2>8. f[Len(labels)] \in CText
    <3>1. Len(labels) \in 0..Len(labels)
      BY DEF LabelSeq
    <3>2. QED
      BY <1>2, <2>7, <3>1, NameIsCText
  <2>9. strdup(text) = text
    <3>1. text \in CText
      <4> DEFINE D == f[Len(labels)]
      <4>1. D \in CText /\ text = Front1(D)
        BY <1>2, <2>8 DEF text
      <4> HIDE DEF D
      <4>2. CASE D = << >>
        BY <4>1, <4>2 DEF Front1
      <4>3. CASE D # << >>
        <5> DEFINE m == Len(D) - 1
        <5>1. m \in 0..Len(D) /\ D \in Seq(Octet \ {0})
          BY <4>1, <4>3 DEF CText
        <5>2. text = SubSeq(D, 1, m)
          BY <4>1, <4>3 DEF Front1
        <5> HIDE DEF m
        <5>3. QED
          BY <5>1, <5>2 DEF CText
      <4>4. QED
        BY <4>2, <4>3
    <3>2. QED
      BY <3>1, NoNulToFind
  <2>10. Text(text) \in Seq(Chars) /\ Len(Text(text)) = Len(text)
    BY <2>1, TextIs
  <2>11. Len(Text(text)) <= DNS_MAX_NAME_LEN
    <3>1. Len(text) \in Nat
      BY <2>1 DEF Texts
    <3>2. QED
      BY <1>1, <2>1, <2>10, <3>1
  <2>12. NP!LabelsOfText(Text(text))
           = [k \in 1..Len(parts) |-> NP!Lowered(parts[Len(parts) + 1 - k])]
    <3>1. /\ Text(text) \in Seq(Chars) /\ parts \in Seq(Seq(Chars))
          /\ NP!Joins(Text(text), parts, at) /\ parts # << >>
      BY <2>1, <2>2, <2>3, <2>10
    <3>2. QED
      BY <1>1, <2>5, <2>6, <2>11, <3>1, CharsLowered, NP!JoinedNames, ZenonT(30)
  <2>13. \A k \in 1..n : parts[n + 1 - k] = Text(labels[n + 1 - k])
    <3> TAKE k \in 1..n
    <3>1. n + 1 - k \in 1..n
      BY <2>2
    <3>2. QED
      BY <2>2, <3>1
  <2>14. [k \in 1..n |-> NP!Lowered(parts[n + 1 - k])]
           = [k \in 1..n |-> NP!Lowered(Text(labels[n + 1 - k]))]
    BY <2>13
  <2>15. N!LabelsOfText(Text(text)) = NP!LabelsOfText(Text(text))
    BY SameLabelsOfText
  <2>16. QED
    BY <2>2, <2>9, <2>12, <2>14, <2>15 DEF FilterLabels, n, text
<1>5. QED
  BY <1>3, <1>4

\* The lower case of a character is the same in both.
LEMMA SameLower == ASSUME NEW c PROVE N!tolower(c) = NP!tolower(c)
BY DEF N!tolower, NP!tolower, N!LowerCase, NP!LowerCase

\* A listed name begins what the filter reads exactly if it is the name on the
\* wire or a parent of it.
LEMMA ListedIsOnList ==
  ASSUME NEW labels \in LabelSeq, NEW L, L = FilterLabels(labels)
  PROVE  (\E b \in Blocked : Len(b) <= Len(L) /\ b = SubSeq(L, 1, Len(b))) <=> OnList(labels)
<1> DEFINE n == Len(labels)
           t(k) == Text(labels[n + 1 - k])
<1>1. /\ n \in Nat
      /\ \A k \in 1..n : /\ t(k) \in Seq(Chars)
                         /\ Len(t(k)) = Len(labels[n + 1 - k])
  <2>1. n \in Nat
    BY AsTextIs
  <2>2. ASSUME NEW k \in 1..n
        PROVE  t(k) \in Seq(Chars) /\ Len(t(k)) = Len(labels[n + 1 - k])
    <3>1. n + 1 - k \in 1..n
      BY <2>1
    <3>2. labels[n + 1 - k] \in Texts
      BY <3>1, AsTextIs
    <3>3. QED
      BY <3>2, TextIs
  <2>3. QED
    BY <2>1, <2>2
<1>2. L = [k \in 1..n |-> NP!Lowered(t(k))]
  BY DEF FilterLabels
<1> HIDE DEF n, t
<1>3. Len(L) = n /\ \A k \in 1..n : L[k] = NP!Lowered(t(k))
  BY <1>1, <1>2
<1>4. ASSUME NEW x \in Seq(STRING), NEW k \in 1..n
      PROVE  x = L[k] <=> /\ x = [i \in DOMAIN x |-> N!tolower(t(k)[i])]
                          /\ Len(x) = Len(labels[n + 1 - k])
  <2> DEFINE s == t(k)
             y == [i \in 1..Len(s) |-> NP!tolower(s[i])]
             z == [i \in DOMAIN x |-> N!tolower(s[i])]
  <2>1. Len(s) = Len(labels[n + 1 - k]) /\ Len(s) \in Nat
    BY <1>1
  <2>2. L[k] = y
    BY <1>3 DEF NP!Lowered
  <2>3. DOMAIN x = 1..Len(x) /\ Len(x) \in Nat
    OBVIOUS
  <2>4. z = [i \in 1..Len(x) |-> NP!tolower(s[i])]
    <3>1. z = [i \in 1..Len(x) |-> N!tolower(s[i])]
      BY <2>3
    <3> HIDE DEF z, s
    <3>2. \A i \in 1..Len(x) : N!tolower(s[i]) = NP!tolower(s[i])
      BY SameLower
    <3>3. QED
      BY <3>1, <3>2
  <2>5. ASSUME x = y
        PROVE  x = z /\ Len(x) = Len(s)
    <3>1. DOMAIN y = 1..Len(s)
      OBVIOUS
    <3> HIDE DEF y, s, z
    <3>2. 1..Len(x) = 1..Len(s)
      BY <2>3, <2>5, <3>1
    <3>3. Len(x) = Len(s)
      BY <2>1, <2>3, <3>2
    <3>4. QED
      BY <2>4, <2>5, <3>3 DEF y
  <2>6. ASSUME x = z, Len(x) = Len(s)
        PROVE  x = y
    <3> HIDE DEF s, z
    <3>1. QED
      BY <2>4, <2>6
  <2> HIDE DEF y, z, s
  <2>7. x = y <=> x = z /\ Len(x) = Len(s)
    BY <2>5, <2>6
  <2>8. QED
    BY <2>1, <2>2, <2>7 DEF z, s
<1>5. ASSUME NEW b \in Blocked, Len(b) <= n
      PROVE  b = SubSeq(L, 1, Len(b)) <=> \A k \in DOMAIN b : b[k] = L[k]
  <2> DEFINE m == Len(b)
             s == SubSeq(L, 1, m)
  <2>1. b \in Seq(Seq(STRING))
    BY ListedNames
  <2>2. m \in Nat /\ DOMAIN b = 1..m /\ b = [k \in 1..m |-> b[k]]
    BY <2>1
  <2>3. s = [k \in 1..m |-> L[k]]
    <3>1. s = [k \in 1..(m - 1 + 1) |-> L[k + 1 - 1]]
      BY <2>2
    <3> HIDE DEF s, m
    <3>2. m - 1 + 1 = m /\ \A k \in 1..m : k + 1 - 1 = k
      BY <2>2
    <3>3. QED
      BY <3>1, <3>2
  <2>4. ASSUME b = s
        PROVE  \A k \in 1..m : b[k] = L[k]
    <3> HIDE DEF s, m
    <3>1. QED
      BY <2>3, <2>4
  <2>5. ASSUME \A k \in 1..m : b[k] = L[k]
        PROVE  b = s
    <3> HIDE DEF s, m
    <3>1. QED
      BY <2>2, <2>3, <2>5
  <2>6. QED
    BY <2>2, <2>4, <2>5
<1>6. ASSUME NEW b \in Blocked, Len(b) <= n
      PROVE  b = SubSeq(L, 1, Len(b)) <=>
               \A k \in DOMAIN b :
                 /\ b[k] = [i \in DOMAIN b[k] |-> N!tolower(t(k)[i])]
                 /\ Len(b[k]) = Len(labels[n + 1 - k])
  <2>1. b \in Seq(Seq(STRING)) /\ Len(b) \in Nat /\ DOMAIN b = 1..Len(b)
    BY ListedNames
  <2>2. \A k \in DOMAIN b : b[k] \in Seq(STRING) /\ k \in 1..n
    BY <1>1, <1>6, <2>1
  <2>3. \A k \in DOMAIN b : b[k] = L[k] <=>
                              /\ b[k] = [i \in DOMAIN b[k] |-> N!tolower(t(k)[i])]
                              /\ Len(b[k]) = Len(labels[n + 1 - k])
    <3> TAKE k \in DOMAIN b
    <3> DEFINE x == b[k]
    <3>1. x \in Seq(STRING) /\ k \in 1..n
      BY <2>2
    <3> HIDE DEF x
    <3>2. x = L[k] <=> /\ x = [i \in DOMAIN x |-> N!tolower(t(k)[i])]
                       /\ Len(x) = Len(labels[n + 1 - k])
      BY <1>4, <3>1
    <3>3. QED
      BY <3>2 DEF x
  <2>4. QED
    BY <1>5, <1>6, <2>3, Zenon
<1>7. QED
  BY <1>3, <1>6, Zenon DEF OnList, n, t

-----------------------------------------------------------------------------
(* What the server decides. *)

Verdict == IF outcome = "error" THEN response[4] ELSE 0

\* Which action of the server led to the outcome.
DecisionInv ==
  caller = "run_server" =>
    /\ packet = Received(sent) /\ DNS_HEADER_SIZE <= len
    /\ outcome \in {"relayed", "error"} =>
         /\ ppc = "ok"
         /\ qdcount = 0 => Verdict = FORMERR
         /\ qdcount > 0 /\ questions[1].qtype # TYPE_A => Verdict = NOTIMPL
         /\ qdcount > 0 /\ questions[1].qtype = TYPE_A =>
              \/ Verdict = NXDOMAIN /\ is_domain_blocked(questions[1].qname)
              \/ Verdict \in {0, SERVFAIL} /\ starved = is_domain_blocked(questions[1].qname)

\* The RCODE of a reply is the one it was built with.
LEMMA ReplySays ==
  ASSUME TypeOK, NEW rcode \in Nat, Reply(rcode)
  PROVE  /\ outcome' \in {"error", "dropped", "nomem"}
         /\ outcome' = "error" => Verdict' = rcode
<1>1. outcome' \in {"error", "dropped", "nomem"}
  BY ReplyIs
<1>2. ASSUME outcome' = "error"
      PROVE  response'[4] = rcode
  <2>1. QuestionEnd # 0 /\ rcode \in 0..5 /\ response' = build_error_response(rcode)
    BY <1>2, ReplyIs
  <2>2. \A k \in 1..12 : response'[k] = build_dns_header(rcode)[k]
    BY <2>1, ReplyBytes
  <2>3. build_dns_header(rcode)[4] = rcode
    BY DEF build_dns_header
  <2>4. QED
    BY <2>2, <2>3
<1>3. QED
  BY <1>1, <1>2 DEF Verdict

\* Every action of the server decides by the first question of the datagram at
\* hand.
LEMMA DecisionInvariant == HandleSpec => []DecisionInv
<1>1. HandleInit => DecisionInv
  BY DEF HandleInit, DecisionInv
<1>2. HandleInv /\ ReplyInv /\ DecisionInv /\ [HandleNext]_handleVars => DecisionInv'
  <2> SUFFICES ASSUME HandleInv, ReplyInv, DecisionInv, [HandleNext]_handleVars
               PROVE  DecisionInv'
    OBVIOUS
  <2>1. TypeOK
    BY DEF HandleInv, IInv
  <2>2. CASE Arrival
    <3>1. ppc = "idle" /\ outcome' = outcome
      BY <2>2 DEF Arrival, Receive, dns_parse_query, dns_build_error_response, EncodeAndParse,
         Call, parse_dns_message
    <3>2. outcome' = "pending"
      BY <3>1 DEF ReplyInv, Returned
    <3>3. CASE caller' # "run_server"
      BY <3>3 DEF DecisionInv
    <3>4. CASE caller' = "run_server"
      <4>1. PICK bytes \in Packet : Receive(bytes)
        BY <2>2, <3>4 DEF Arrival, dns_parse_query, dns_build_error_response, EncodeAndParse,
           Call
      <4>2. packet' = Received(bytes) /\ sent' = bytes /\ Len(Received(bytes)) >= DNS_HEADER_SIZE
        BY <4>1 DEF Receive, Call, parse_dns_message
      <4>3. packet' = Received(sent)'
        BY <4>2 DEF Received
      <4>4. DNS_HEADER_SIZE <= len'
        <5>1. Received(bytes) \in Seq(Octet) /\ DNS_HEADER_SIZE \in Nat
          BY PacketType, ParserLimits, ReceivedType
        <5>2. Len(Received(bytes)) \in Nat /\ len' = Len(Received(bytes))
          BY <4>2, <5>1 DEF len
        <5>3. QED
          BY <4>2, <5>1, <5>2
      <4>5. QED
        BY <3>2, <4>3, <4>4 DEF DecisionInv
    <3>5. QED
      BY <3>3, <3>4
  <2>3. ASSUME packet' = packet, sent' = sent, caller' = caller,
               outcome' \notin {"relayed", "error"}
        PROVE  DecisionInv'
    BY <2>3 DEF DecisionInv, Received, len
  <2>4. CASE ParserRuns
    <3>1. /\ ppc \notin Returned
          /\ sent' = sent /\ caller' = caller /\ outcome' = outcome
      BY <2>4 DEF ParserRuns, handled, Returned, Parsing, TooShort, HeaderOnly, HasQuestions,
         BeginName, NoRoomForName, NameStep, FollowPointer, BadPointer, BadLength, CopyLabel,
         BadLabel, EndName, RunsOff, KeepQuestion, NoRoomForFields, NoMemoryForName, StoreRaw,
         NoMemoryForRaw, AtByte
    <3>2. outcome' = "pending" /\ packet' = packet
      BY <2>4, <3>1, ParsingKeepsPacket DEF ReplyInv, ParserRuns
    <3>3. QED
      BY <2>3, <3>1, <3>2
  <2>5. CASE ParseFailed
    BY <2>3, <2>5 DEF ParseFailed, vars
  <2> DEFINE first == questions[1]
             blocked == is_domain_blocked(first.qname)
  <2>6. ASSUME UNCHANGED vars, UNCHANGED <<caller, sent>>, ppc = "ok",
               outcome' \in {"error", "relayed"} =>
                 /\ qdcount = 0 => Verdict' = FORMERR
                 /\ qdcount > 0 /\ first.qtype # TYPE_A => Verdict' = NOTIMPL
                 /\ qdcount > 0 /\ first.qtype = TYPE_A =>
                      \/ Verdict' = NXDOMAIN /\ blocked
                      \/ Verdict' \in {0, SERVFAIL} /\ starved' = blocked
        PROVE  DecisionInv'
    <3>1. /\ packet' = packet /\ questions' = questions /\ ppc' = "ok" /\ sent' = sent
          /\ caller' = caller
      BY <2>6 DEF vars, message
    <3>2. qdcount' = qdcount /\ len' = len /\ Received(sent)' = Received(sent)
      BY <3>1 DEF qdcount, UInt16, Byte, len, Received
    <3>3. is_domain_blocked(questions[1].qname)' = blocked
      BY <3>1 DEF is_domain_blocked
    <3> HIDE DEF blocked, first
    <3>4. questions[1]' = first
      BY <3>1 DEF first
    <3>5. QED
      BY <2>6, <3>1, <3>2, <3>3, <3>4 DEF DecisionInv
  <2>7. qdcount \in Nat
    BY <2>1, WireTypes
  <2>8. /\ FORMERR \in Nat /\ NOTIMPL \in Nat /\ NXDOMAIN \in Nat /\ SERVFAIL \in Nat
    BY DEF FORMERR, NOTIMPL, NXDOMAIN, SERVFAIL
  <2>9. CASE NoQuestion
    <3>1. /\ UNCHANGED vars /\ UNCHANGED <<caller, sent>> /\ ppc = "ok" /\ qdcount = 0
          /\ Reply(FORMERR)
      BY <2>9 DEF NoQuestion, Deciding
    <3>2. outcome' \in {"error", "dropped", "nomem"} /\ (outcome' = "error" => Verdict' = FORMERR)
      BY <2>1, <2>8, <3>1, ReplySays
    <3>3. QED
      BY <2>6, <3>1, <3>2
  <2>10. CASE UnsupportedType
    <3>1. /\ UNCHANGED vars /\ UNCHANGED <<caller, sent>> /\ ppc = "ok" /\ qdcount > 0
          /\ first.qtype # TYPE_A /\ Reply(NOTIMPL)
      BY <2>10 DEF UnsupportedType, Deciding, question
    <3>2. outcome' \in {"error", "dropped", "nomem"} /\ (outcome' = "error" => Verdict' = NOTIMPL)
      BY <2>1, <2>8, <3>1, ReplySays
    <3>3. qdcount # 0
      BY <2>7, <3>1
    <3>4. QED
      BY <2>6, <3>1, <3>2, <3>3
  <2>11. CASE BlockedDomain
    <3>1. /\ UNCHANGED vars /\ UNCHANGED <<caller, sent>> /\ ppc = "ok" /\ qdcount > 0
          /\ first.qtype = TYPE_A /\ blocked /\ Reply(NXDOMAIN)
      BY <2>11 DEF BlockedDomain, Deciding, question
    <3>2. outcome' \in {"error", "dropped", "nomem"} /\ (outcome' = "error" => Verdict' = NXDOMAIN)
      BY <2>1, <2>8, <3>1, ReplySays
    <3>3. qdcount # 0
      BY <2>7, <3>1
    <3>4. QED
      BY <2>6, <3>1, <3>2, <3>3
  <2>12. CASE AllowedDomain
    <3>1. /\ UNCHANGED vars /\ UNCHANGED <<caller, sent>> /\ ppc = "ok" /\ qdcount > 0
          /\ first.qtype = TYPE_A /\ starved' = blocked
          /\ (outcome' = "relayed" \/ Reply(SERVFAIL))
      BY <2>12 DEF AllowedDomain, Deciding, question
    <3>2. outcome' \in {"error", "relayed"} => Verdict' \in {0, SERVFAIL}
      <4>1. CASE outcome' = "relayed"
        BY <4>1 DEF Verdict
      <4>2. CASE Reply(SERVFAIL)
        BY <2>1, <2>8, <4>2, ReplySays
      <4>3. QED
        BY <3>1, <4>1, <4>2
    <3>3. qdcount # 0
      BY <2>7, <3>1
    <3>4. QED
      BY <2>6, <3>1, <3>2, <3>3
  <2>13. CASE ReturnQuestion \/ ReturnErrorResponse
    <3>1. caller' # "run_server"
      BY <2>13 DEF ReturnQuestion, ReturnErrorResponse
    <3>2. QED
      BY <3>1 DEF DecisionInv
  <2>14. CASE Finish
    BY <2>14 DEF Finish, DecisionInv
  <2>15. CASE UNCHANGED handleVars
    <3>1. /\ packet' = packet /\ ppc' = ppc /\ questions' = questions
          /\ sent' = sent /\ caller' = caller /\ outcome' = outcome /\ response' = response
          /\ starved' = starved
      BY <2>15 DEF handleVars, handled, vars, message
    <3>2. qdcount' = qdcount /\ len' = len /\ Received(sent)' = Received(sent)
          /\ Verdict' = Verdict
      BY <3>1 DEF qdcount, UInt16, Byte, len, Received, Verdict
    <3>3. is_domain_blocked(questions[1].qname)' = blocked
      BY <3>1 DEF is_domain_blocked
    <3> HIDE DEF blocked
    <3>4. questions[1]' = questions[1]
      BY <3>1
    <3>5. QED
      BY <3>1, <3>2, <3>3, <3>4 DEF DecisionInv, blocked
  <2>16. QED
    BY <2>2, <2>4, <2>5, <2>9, <2>10, <2>11, <2>12, <2>13, <2>14, <2>15
       DEF HandleNext, Decision
<1>3. QED
  BY <1>1, <1>2, HandleInvariant, ReplyInvariant, PTL DEF HandleSpec

-----------------------------------------------------------------------------
(* The decision, by the bytes the client sent. *)

\* What arrives of a datagram is the front of it.
LEMMA ReceivedIsFront == ASSUME NEW bytes \in Seq(Octet) PROVE IsFront(Received(bytes), bytes)
<1> DEFINE n == Len(bytes)
           m == IF n > DNS_UDP_MAX_SIZE THEN DNS_UDP_MAX_SIZE ELSE n
           r == SubSeq(bytes, 1, m)
<1>1. n \in Nat /\ DNS_UDP_MAX_SIZE \in Nat
  BY SizesAndTests
<1>2. m \in Nat /\ m <= n /\ m \in 0..n
  BY <1>1
<1>3. Received(bytes) = r
  BY DEF Received
<1> HIDE DEF m
<1>4. r \in Seq(Octet) /\ Len(r) = m /\ \A k \in 1..m : r[k] = bytes[k]
  BY <1>1, <1>2
<1> HIDE DEF r
<1>5. QED
  BY <1>1, <1>2, <1>3, <1>4 DEF IsFront

\* A number that arrived is the number that was sent.
LEMMA FieldOfFront ==
  ASSUME NEW r, NEW p, IsFront(r, p), NEW i \in Nat, i + 2 <= Len(r)
  PROVE  Field(r, i) = Field(p, i)
<1>1. Len(r) \in Nat
  BY DEF IsFront
<1>2. i + 1 \in 1..Len(r) /\ i + 2 \in 1..Len(r)
  BY <1>1
<1>3. r[i + 1] = p[i + 1] /\ r[i + 2] = p[i + 2]
  BY <1>2 DEF IsFront
<1>4. QED
  BY <1>3 DEF Field

\* The header's number of questions.
LEMMA CountIs ==
  ASSUME TypeOK, DNS_HEADER_SIZE <= len
  PROVE  qdcount = Field(packet, 4)
<1>1. DNS_HEADER_SIZE = 12 /\ len \in Nat
  BY HeaderOfTwelve, WireTypes
<1>2. Byte(4) = packet[4 + 1] /\ Byte(5) = packet[5 + 1]
  BY <1>1, BytesOfPacket
<1>3. packet[4 + 1] = packet[5] /\ packet[5 + 1] = packet[6] /\ packet[4 + 2] = packet[6]
  OBVIOUS
<1>4. Byte(4) = packet[4 + 1] /\ Byte(5) = packet[4 + 2]
  BY <1>2, <1>3
<1>5. QED
  BY <1>4 DEF qdcount, UInt16, Field

\* The filter, asked for the name of a good question, looks for the labels on
\* the wire.
LEMMA BlockedIsOnList ==
  ASSUME NEW p \in Seq(Octet), NEW i \in Nat, GoodName(p, i), Fitting(NameAt(p, i)),
         \A k \in DOMAIN NameAt(p, i) : Ordinary(NameAt(p, i)[k])
  PROVE  is_domain_blocked(CName(p, i)) <=> OnList(NameAt(p, i))
<1> DEFINE labels == NameAt(p, i)
           L == N!LabelsOfText(Text(CName(p, i)))
<1>1. labels \in LabelSeq /\ Len(Dotted(labels)) <= DNS_MAX_NAME_LEN
  <2>1. MAX_COMPRESSION_JUMPS \in 0..MAX_COMPRESSION_JUMPS
    BY ParserLimits
  <2>2. LabelsAt(p, i, MAX_COMPRESSION_JUMPS) \in MaybeLabels
    BY <2>1, LabelsAtIs DEF LabelsRead
  <2>3. QED
    BY <2>2 DEF GoodName, NameAt, MaybeLabels
<1>2. CName(p, i) = strdup(Front1(Dotted(labels)))
  BY DEF CName
<1>3. is_domain_blocked(CName(p, i))
        <=> \E b \in Blocked : Len(b) <= Len(L) /\ b = SubSeq(L, 1, Len(b))
  BY DEF is_domain_blocked
<1> HIDE DEF labels
<1>4. Fitting(labels) /\ \A k \in DOMAIN labels : Ordinary(labels[k])
  BY DEF labels
<1>5. L = FilterLabels(labels)
  BY <1>1, <1>2, <1>4, FilterReadsLabels
<1> HIDE DEF L
<1>6. (\E b \in Blocked : Len(b) <= Len(L) /\ b = SubSeq(L, 1, Len(b))) <=> OnList(labels)
  BY <1>1, <1>5, ListedIsOnList
<1>7. QED
  BY <1>3, <1>6 DEF labels

\* What the client put on the wire decides: a query of another type gets
\* NOTIMPL, one for a listed name or a name below it NXDOMAIN, and no other query
\* gets either; and a datagram is dropped only when what arrived of it is
\* malformed, when its first name cannot be copied into a reply, when it asks
\* nothing or when memory ran out.
THEOREM DecidedByTheWire == HandleSpec => []PolicyOnTheWire
<1>1. ASSUME HandleInv, WireInv, FirstInv, ReplyInv, DecisionInv, HandleTypeOK
      PROVE  PolicyOnTheWire
  <2> DEFINE H       == DNS_HEADER_SIZE
             at      == EndOfName(packet, H)
             labels  == NameAt(packet, H)
             count   == Field(sent, 4)
             isA     == Field(sent, EndOfName(sent, H)) = TYPE_A
             blocked == is_domain_blocked(questions[1].qname)
  <2> SUFFICES ASSUME caller = "run_server"
               PROVE  /\ outcome \in {"relayed", "error"} =>
                           IF count = 0 THEN Verdict = FORMERR
                           ELSE /\ NameAt(sent, H) # Bad
                                /\ Verdict = NOTIMPL <=> ~isA
                                /\ isA /\ (\A k \in DOMAIN NameAt(sent, H) :
                                             Ordinary(NameAt(sent, H)[k])) =>
                                     /\ Verdict \in {0, NXDOMAIN, SERVFAIL}
                                     /\ Verdict = NXDOMAIN => OnList(NameAt(sent, H))
                                     /\ Verdict # NXDOMAIN => ~OnList(NameAt(sent, H)) \/ starved
                      /\ outcome = "dropped" /\ ppc # "nomem" =>
                           \/ Names(Received(sent), H, count) = Bad
                           \/ count = 0
                           \/ LabelsAt(sent, H, 0) = Bad
    BY DEF PolicyOnTheWire, Verdict
  <2>1. /\ TypeOK /\ packet \in Seq(Octet) /\ len = Len(packet) /\ len \in Nat /\ H = 12
        /\ qdcount \in Nat /\ sent \in Seq(Octet) /\ starved \in BOOLEAN
    BY <1>1, WireTypes, HeaderOfTwelve DEF HandleInv, IInv, HandleTypeOK
  <2>2. packet = Received(sent) /\ H <= len
    BY <1>1 DEF DecisionInv
  <2>3. IsFront(packet, sent)
    BY <2>1, <2>2, ReceivedIsFront
  <2>4. count = qdcount
    <3>1. qdcount = Field(packet, 4)
      BY <2>1, <2>2, CountIs
    <3>2. Field(packet, 4) = Field(sent, 4)
      BY <2>1, <2>2, <2>3, FieldOfFront
    <3>3. QED
      BY <3>1, <3>2
  <2>5. ASSUME ppc = "ok", qdcount > 0
        PROVE  /\ GoodQuestion(packet, H) /\ CName(packet, H) = questions[1].qname
               /\ labels # Bad /\ NameAt(sent, H) = labels /\ Fitting(labels)
               /\ Field(sent, EndOfName(sent, H)) = questions[1].qtype
    <3>1. questions # << >> /\ GoodQuestion(packet, H) /\ CName(packet, H) = questions[1].qname
      BY <1>1, <2>5, FirstAnnounced
    <3>2. questions[1].qtype = Field(packet, at)
      BY <1>1, <3>1 DEF FirstInv, FirstKept
    <3>3. labels # Bad
      BY <3>1 DEF GoodQuestion, GoodName
    <3>4. NameAt(sent, H) = labels /\ Fitting(labels)
      <4>1. MAX_COMPRESSION_JUMPS \in 0..MAX_COMPRESSION_JUMPS
        BY ParserLimits
      <4>2. SameName(packet, sent, H, MAX_COMPRESSION_JUMPS)
        BY <2>1, <2>3, <4>1, NameOfFront
      <4>3. QED
        BY <3>3, <4>2 DEF SameName, NameAt
    <3>5. EndOfName(sent, H) = at
      BY <2>1, <2>3, <3>3, EndOfFront
    <3>6. Field(packet, at) = Field(sent, at)
      <4>1. at \in Nat
        BY <2>1, EndOfNameIs DEF EndRead
      <4>2. at + 4 <= Len(packet)
        BY <3>1 DEF GoodQuestion
      <4> HIDE DEF at
      <4>3. at + 2 <= Len(packet)
        BY <2>1, <4>1, <4>2
      <4>4. QED
        BY <2>3, <4>1, <4>3, FieldOfFront
    <3>7. QED
      BY <3>1, <3>2, <3>3, <3>4, <3>5, <3>6
  <2>6. FORMERR = 1 /\ SERVFAIL = 2 /\ NXDOMAIN = 3 /\ NOTIMPL = 4
    BY DEF FORMERR, SERVFAIL, NXDOMAIN, NOTIMPL
  <2>7. ASSUME outcome \in {"relayed", "error"}, count = 0
        PROVE  Verdict = FORMERR
    BY <1>1, <2>4, <2>7 DEF DecisionInv
  <2>8. ASSUME outcome \in {"relayed", "error"}, count # 0
        PROVE  /\ NameAt(sent, H) # Bad
               /\ Verdict = NOTIMPL <=> ~isA
               /\ isA /\ (\A k \in DOMAIN NameAt(sent, H) : Ordinary(NameAt(sent, H)[k])) =>
                    /\ Verdict \in {0, NXDOMAIN, SERVFAIL}
                    /\ Verdict = NXDOMAIN => OnList(NameAt(sent, H))
                    /\ Verdict # NXDOMAIN => ~OnList(NameAt(sent, H)) \/ starved
    <3>1. ppc = "ok" /\ qdcount > 0
      BY <1>1, <2>1, <2>4, <2>8 DEF DecisionInv
    <3>2. isA <=> questions[1].qtype = TYPE_A
      BY <2>5, <3>1
    <3>3. /\ ~isA => Verdict = NOTIMPL
          /\ isA => \/ Verdict = NXDOMAIN /\ blocked
                    \/ Verdict \in {0, SERVFAIL} /\ starved = blocked
      BY <1>1, <2>8, <3>1, <3>2 DEF DecisionInv
    <3>4. ASSUME \A k \in DOMAIN labels : Ordinary(labels[k])
          PROVE  blocked <=> OnList(labels)
      <4>1. GoodName(packet, H) /\ Fitting(labels) /\ CName(packet, H) = questions[1].qname
        BY <2>5, <3>1 DEF GoodQuestion
      <4>2. is_domain_blocked(CName(packet, H)) <=> OnList(labels)
        BY <2>1, <3>4, <4>1, BlockedIsOnList
      <4>3. QED
        BY <4>1, <4>2
    <3>5. NameAt(sent, H) = labels /\ labels # Bad
      BY <2>5, <3>1
    <3> HIDE DEF isA, labels, blocked
    <3>6. QED
      BY <2>1, <2>6, <3>3, <3>4, <3>5
  <2>9. ASSUME outcome = "dropped", ppc # "nomem", count # 0
        PROVE  \/ Names(Received(sent), H, count) = Bad
               \/ LabelsAt(sent, H, 0) = Bad
    <3>1. ppc \in {"ok", "fail"}
      BY <1>1, <2>9 DEF ReplyInv, Returned
    <3>2. CASE ppc = "fail"
      <4>1. Announced = Bad
        BY <1>1, <2>1, <2>2, <3>2 DEF WireInv
      <4>2. QED
        BY <2>2, <2>4, <4>1 DEF Announced
    <3>3. CASE ppc = "ok"
      <4>1. qdcount > 0 /\ QuestionEnd = 0
        BY <1>1, <2>1, <2>4, <2>9, <3>3 DEF ReplyInv
      <4>2. GoodQuestion(packet, H) /\ labels # Bad
        BY <2>5, <3>3, <4>1
      <4>3. LabelsAt(packet, H, 0) = Bad
        BY <2>1, <4>1, <4>2, QuestionEndIs
      <4>4. QED
        BY <2>1, <2>3, <4>2, <4>3, PointerOfFront
    <3>4. QED
      BY <3>1, <3>2, <3>3
  <2>10. QED
    BY <2>7, <2>8, <2>9
<1>2. HandleInv /\ WireInv /\ FirstInv /\ ReplyInv /\ DecisionInv /\ HandleTypeOK
        => PolicyOnTheWire
  BY <1>1
<1>3. QED
  BY <1>2, HandleInvariant, WireInvariant, FirstInvariant, ReplyInvariant, DecisionInvariant,
     CallersTypeCorrect, PTL
=============================================================================
