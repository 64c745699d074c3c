---------------------------- MODULE LoaderProofs ----------------------------
(***************************************************************************)
(* For every file, every buffer size and every length of names: when no    *)
(* line is longer than the buffer, the pieces fgets returns come to the    *)
(* same list, and the same counts, as the lines of the file.               *)
(***************************************************************************)
EXTENDS FilterFile, DomainNameProofs

\* The lines of a text end at newlines, and at the end of the text.
LineEnds(text) == Ends(text, {"\n"})

\* What the line that ends at e says.
Meaning(text, e) == WithoutCR(CString(Line(text, LineEnds(text), e)))

LinesFit(text) ==
  \A e \in LineEnds(text) : Len(Line(text, LineEnds(text), e)) <= LineSize - 1

\* The first k characters end with a line, or just before its newline.
AtLineEnd(text, k) == k = 0 \/ k \in LineEnds(text) \/ k + 1 \in LineEnds(text)

\* The lines the first k characters complete.
LinesIn(text, k) == {e \in LineEnds(text) : e <= k + 1}

\* The lines completed by the characters after the first k, up to the n-th.
NewLines(text, k, n) == LinesIn(text, n) \ LinesIn(text, k)

\* What the loop looks at of these characters.
Piece(text, k, n) == Trimmed(CString(SubSeq(text, k + 1, n)))

\* Those of some lines that are not blank, and those that are comments.
NonBlank(text, ends) == {e \in ends : ~IsBlank(Meaning(text, e))}
Comments(text, ends) == {e \in ends : IsComment(Meaning(text, e))}

\* The names on some of the lines.
Names(text, ends) ==
  {LabelsOfText(Meaning(text, e)) : e \in {i \in ends : ~IsComment(Meaning(text, i))}} \ {Failed}

CharsRead == Len(file) - Len(rest)

Seen == LinesIn(file, CharsRead)

Accounts ==
  /\ domains_loaded + lines_ignored = Cardinality(NonBlank(file, Seen))
  /\ lines_ignored >= Cardinality(Comments(file, Seen))
  /\ domains_loaded >= Cardinality(list)

ListSoFar == /\ list \subseteq Names(file, Seen)
             /\ ~lost => list = Names(file, Seen)

\* While no line is too long, fgets keeps step with the lines, and what has
\* been counted and listed is what the lines so far say.
IInv == /\ TypeOK /\ IsFiniteSet(list)
        /\ EveryLineFits => AtLineEnd(file, CharsRead) /\ Accounts /\ ListSoFar

-----------------------------------------------------------------------------
(* The operators on texts. *)

\* A line begins after the end before it, or at the beginning of the text.
LEMMA LineIs ==
  ASSUME NEW C, NEW text \in Seq(C), NEW enders, NEW e \in Ends(text, enders)
  PROVE  /\ e \in 1..(Len(text) + 1)
         /\ \E b \in 0..(e - 1) :
              /\ Line(text, Ends(text, enders), e) = SubSeq(text, b + 1, e - 1)
              /\ b = 0 \/ b \in Ends(text, enders)
              /\ \A t \in Ends(text, enders) : t < e => t <= b
<1> DEFINE ends == Ends(text, enders)
           before == {s \in ends \cup {0} : s < e}
           b == CHOOSE s \in ends \cup {0} : s < e /\ \A t \in ends : t < e => t <= s
<1>1. Len(text) \in Nat /\ DOMAIN text = 1..Len(text)
  OBVIOUS
<1>2. ends \subseteq 1..(Len(text) + 1) /\ ends \subseteq Int
  BY <1>1 DEF Ends
<1>3. e \in 1..(Len(text) + 1)
  BY <1>2
<1> HIDE DEF ends
<1>4. before \subseteq 0..(Len(text) + 1) /\ 0 \in before /\ Len(text) + 1 \in Nat
  <2>1. \A s \in ends \cup {0} : s \in 0..(Len(text) + 1)
    BY <1>1, <1>2
  <2>2. 0 < e
    BY <1>1, <1>3
  <2>3. QED
    BY <1>1, <2>1, <2>2
<1>5. \E s \in before : \A t \in before : t <= s
  <2> HIDE DEF before
  <2>1. before # {}
    BY <1>4
  <2>2. QED
    BY <1>4, <2>1, GreatestNumber
<1>6. \E s \in ends \cup {0} : s < e /\ \A t \in ends : t < e => t <= s
  BY <1>5
<1>7. b \in ends \cup {0} /\ b < e /\ \A t \in ends : t < e => t <= b
  BY <1>6
<1>8. Line(text, ends, e) = SubSeq(text, 1 + b, e - 1)
  BY DEF Line
<1> HIDE DEF b
<1>9. b \in 0..(e - 1) /\ 1 + b = b + 1
  BY <1>1, <1>2, <1>3, <1>7
<1>10. Line(text, ends, e) = SubSeq(text, b + 1, e - 1)
  BY <1>8, <1>9
<1>11. QED
  BY <1>3, <1>7, <1>9, <1>10 DEF ends

\* fgets returns something, no more than the buffer holds, and up to a
\* newline, the end of the text, or the last place of the buffer.
LEMMA ChunkIs ==
  ASSUME NEW C, NEW text \in Seq(C), text # << >>
  PROVE  /\ ChunkEnd(text) \in 1..Len(text) /\ ChunkEnd(text) <= LineSize - 1
         /\ \A i \in 1..(ChunkEnd(text) - 1) : text[i] # "\n"
         /\ \/ text[ChunkEnd(text)] = "\n"
            \/ ChunkEnd(text) = Len(text)
            \/ ChunkEnd(text) = LineSize - 1
<1> DEFINE stops == {i \in DOMAIN text : text[i] = "\n"} \cup {Len(text), LineSize - 1}
           c == CHOOSE e \in stops : \A s \in stops : e <= s
<1>1. /\ Len(text) \in Nat \ {0} /\ DOMAIN text = 1..Len(text)
      /\ LineSize - 1 \in Nat \ {0}
  BY NameLimits DEF LineSize
<1>2. stops \subseteq Nat \ {0} /\ stops # {}
  <2>1. {i \in DOMAIN text : text[i] = "\n"} \subseteq Nat \ {0}
    BY <1>1
  <2>2. {Len(text), LineSize - 1} \subseteq Nat \ {0}
    BY <1>1
  <2>3. QED
    BY <2>1, <2>2
<1>3. \E e \in stops : \A s \in stops : e <= s
  <2> HIDE DEF stops
  <2>1. stops \subseteq Nat
    BY <1>2
  <2>2. QED
    BY <1>2, <2>1, LeastNumber
<1>4. c \in stops /\ \A s \in stops : c <= s
  BY <1>3
<1>5. ChunkEnd(text) = c
  BY DEF ChunkEnd
<1> HIDE DEF c
<1>6. c \in 1..Len(text) /\ c <= LineSize - 1
  BY <1>1, <1>2, <1>4
<1>7. \A i \in 1..(c - 1) : text[i] # "\n"
  BY <1>1, <1>4, <1>6
<1>8. text[c] = "\n" \/ c = Len(text) \/ c = LineSize - 1
  BY <1>4
<1>9. QED
  BY <1>5, <1>6, <1>7, <1>8

\* strlen sees what is before the first NUL.
LEMMA CStringIs ==
  ASSUME NEW C, NEW text \in Seq(C)
  PROVE  \E n \in 0..Len(text) :
           /\ CString(text) = SubSeq(text, 1, n)
           /\ \A i \in 1..n : text[i] # NUL
           /\ n < Len(text) => text[n + 1] = NUL
<1> DEFINE nuls == {i \in DOMAIN text : text[i] = NUL}
           f == CHOOSE i \in nuls : \A j \in nuls : i <= j
<1>1. Len(text) \in Nat /\ DOMAIN text = 1..Len(text)
  OBVIOUS
<1>2. CASE nuls = {}
  <2>1. CString(text) = text
    BY <1>2 DEF CString
  <2>2. text = SubSeq(text, 1, Len(text))
    BY SubSeqFull
  <2>3. \A i \in 1..Len(text) : text[i] # NUL
    BY <1>1, <1>2
  <2>4. Len(text) \in 0..Len(text) /\ ~(Len(text) < Len(text))
    BY <1>1
  <2>5. QED
    BY <2>1, <2>2, <2>3, <2>4
<1>3. CASE nuls # {}
  <2>1. nuls \subseteq Nat
    BY <1>1
  <2>2. \E i \in nuls : \A j \in nuls : i <= j
    BY <1>3, <2>1, LeastNumber
  <2>3. f \in nuls /\ \A j \in nuls : f <= j
    BY <2>2
  <2>4. CString(text) = SubSeq(text, 1, f - 1)
    BY <1>3 DEF CString
  <2> HIDE DEF f
  <2>5. f - 1 \in 0..Len(text) /\ (f - 1) + 1 = f /\ text[f] = NUL
    BY <1>1, <2>3
  <2>6. \A i \in 1..(f - 1) : text[i] # NUL
    BY <1>1, <2>3
  <2>7. QED
    BY <2>4, <2>5, <2>6
<1>4. QED
  BY <1>2, <1>3

\* All CRs at the end are cut off.
LEMMA WithoutCRIs ==
  ASSUME NEW C, NEW line \in Seq(C)
  PROVE  \E n \in 0..Len(line) :
           /\ WithoutCR(line) = SubSeq(line, 1, n)
           /\ \A i \in (n + 1)..Len(line) : line[i] = "\r"
           /\ n > 0 => line[n] # "\r"
<1> DEFINE others == {i \in 1..Len(line) : line[i] # "\r"} \cup {0}
           P(n) == /\ \A i \in (n + 1)..Len(line) : line[i] = "\r"
                   /\ n > 0 => line[n] # "\r"
           last == CHOOSE n \in 0..Len(line) : P(n)
<1>1. Len(line) \in Nat /\ others \subseteq 0..Len(line)
  OBVIOUS
<1>2. PICK m \in others : \A i \in others : i <= m
  BY <1>1, GreatestNumber
<1>3. m \in 0..Len(line) /\ P(m)
  BY <1>1, <1>2
<1> HIDE DEF P
<1>4. last \in 0..Len(line) /\ P(last)
  BY <1>3
<1>5. WithoutCR(line) = SubSeq(line, 1, last)
  BY DEF WithoutCR, P
<1> HIDE DEF last
<1>6. QED
  BY <1>4, <1>5 DEF P

\* From the first character that is no blank to the last that ends no line.
LEMMA TrimmedIs ==
  ASSUME NEW C, NEW text \in Seq(C)
  PROVE  \/ Trimmed(text) = << >> /\ IsBlank(text)
         \/ \E from, to \in 1..Len(text) :
              /\ from <= to /\ Trimmed(text) = SubSeq(text, from, to)
              /\ ~isspace(text[from]) /\ \A i \in 1..(from - 1) : isspace(text[i])
              /\ text[to] \notin {"\n", "\r"}
              /\ \A i \in (to + 1)..Len(text) : text[i] \in {"\n", "\r"}
<1> DEFINE solid == {i \in DOMAIN text : ~isspace(text[i])}
           ended == {i \in DOMAIN text : text[i] \notin {"\n", "\r"}}
           from  == CHOOSE i \in solid : \A j \in solid : i <= j
           to    == CHOOSE i \in ended : \A j \in ended : j <= i
<1>1. Len(text) \in Nat /\ DOMAIN text = 1..Len(text) /\ solid \subseteq ended
  <2>1. Len(text) \in Nat /\ DOMAIN text = 1..Len(text)
    OBVIOUS
  <2>2. \A i \in DOMAIN text : ~isspace(text[i]) => text[i] \notin {"\n", "\r"}
    BY DEF isspace
  <2>3. QED
    BY <2>1, <2>2
<1>2. CASE solid = {}
  BY <1>2 DEF Trimmed, IsBlank
<1>3. CASE solid # {}
  <2>1. solid \subseteq Nat /\ ended \subseteq 0..Len(text) /\ ended # {}
    BY <1>1, <1>3
  <2>2. \E i \in solid : \A j \in solid : i <= j
    BY <1>3, <2>1, LeastNumber
  <2>3. from \in solid /\ \A j \in solid : from <= j
    BY <2>2
  <2>4. \E i \in ended : \A j \in ended : j <= i
    BY <1>1, <2>1, GreatestNumber
  <2>5. to \in ended /\ \A j \in ended : j <= to
    BY <2>4
  <2>6. Trimmed(text) = SubSeq(text, from, to)
    BY <1>3 DEF Trimmed
  <2> HIDE DEF from, to
  <2>7. from \in 1..Len(text) /\ to \in 1..Len(text) /\ from <= to
    BY <1>1, <2>3, <2>5
  <2>8. \A i \in 1..(from - 1) : isspace(text[i])
    BY <1>1, <2>3, <2>7
  <2>9. \A i \in (to + 1)..Len(text) : text[i] \in {"\n", "\r"}
    BY <1>1, <2>5, <2>7
  <2>10. QED
    BY <2>3, <2>5, <2>6, <2>7, <2>8, <2>9
<1>4. QED
  BY <1>2, <1>3

\* Nothing but blanks is no name.
LEMMA BlankIsNoName ==
  ASSUME NEW C, NEW text \in Seq(C), IsBlank(text)
  PROVE  LabelsOfText(text) = Failed
<1>1. Solid(text) = {}
  BY DEF Solid, IsBlank
<1>2. Len(Visible(text)) = 0 /\ Visible(text) \in Seq(C)
  <2>1. Cardinality(Solid(text)) = 0
    BY <1>1, FS_EmptySet
  <2>2. QED
    BY <2>1, VisibleOf
<1>3. DOMAIN Visible(text) = {}
  BY <1>2
<1>4. DOMAIN Written(text) = {}
  BY <1>3 DEF Written
<1>5. WithoutTrailingDots(Written(text)) = Failed
  BY <1>4 DEF WithoutTrailingDots
<1>6. QED
  BY <1>5 DEF LabelsOfText, normalize_domain

\* What the loop makes of a piece is what the line says.
SaysTheSame(piece, line) ==
  IF IsBlank(line)
  THEN piece = << >>
  ELSE /\ piece # << >> /\ (piece[1] = "#" <=> IsComment(line))
       /\ LabelsOfText(piece) = LabelsOfText(line)

\* A piece that is a line, with its newline or without it.
LEMMA PieceIsLine ==
  ASSUME NEW C, NEW line \in Seq(C), NEW piece \in Seq(C),
         \A i \in 1..Len(line) : line[i] # "\n" /\ piece[i] = line[i],
         \/ Len(piece) = Len(line)
         \/ Len(piece) = Len(line) + 1 /\ piece[Len(line) + 1] = "\n"
  PROVE  SaysTheSame(Trimmed(CString(piece)), WithoutCR(CString(line)))
<1> DEFINE c == CString(line)
           p == CString(piece)
           L == WithoutCR(c)
           d == Trimmed(p)
<1>1. Len(line) \in Nat /\ Len(piece) \in Nat /\ Len(line) <= Len(piece)
  OBVIOUS
<1>2. PICK n \in 0..Len(line) : /\ c = SubSeq(line, 1, n)
                                /\ \A i \in 1..n : line[i] # NUL
                                /\ n < Len(line) => line[n + 1] = NUL
  BY CStringIs
<1>3. PICK k \in 0..Len(piece) : /\ p = SubSeq(piece, 1, k)
                                 /\ \A i \in 1..k : piece[i] # NUL
                                 /\ k < Len(piece) => piece[k + 1] = NUL
  BY CStringIs
<1> HIDE DEF c, p
<1>4. k = n \/ (k = n + 1 /\ n = Len(line) /\ piece[n + 1] = "\n")
  <2>1. CASE n < Len(line)
    <3>1. piece[n + 1] = NUL /\ n + 1 \in 1..Len(line)
      BY <1>1, <1>2, <2>1
    <3>2. ~(k > n)
      BY <1>1, <1>3, <3>1
    <3>3. k < n => piece[k + 1] = NUL /\ k + 1 \in 1..n
      BY <1>1, <1>3
    <3>4. ~(k < n)
      BY <1>1, <1>2, <3>3
    <3>5. QED
      BY <3>2, <3>4
  <2>2. CASE n = Len(line)
    <3>1. k < n => piece[k + 1] = NUL /\ k + 1 \in 1..n
      BY <1>1, <1>3
    <3>2. ~(k < n)
      BY <1>1, <1>2, <2>2, <3>1
    <3>3. QED
      BY <1>1, <1>3, <2>2, <3>2
  <2>3. QED
    BY <1>1, <2>1, <2>2
<1>5. /\ c \in Seq(C) /\ Len(c) = n /\ \A i \in 1..n : c[i] = line[i]
      /\ p \in Seq(C) /\ Len(p) = k /\ \A i \in 1..k : p[i] = piece[i]
  BY <1>2, <1>3
<1>6. /\ n \in Nat /\ k \in Nat /\ n <= k
      /\ \A i \in 1..n : p[i] = c[i] /\ c[i] # "\n"
      /\ k # n => k = n + 1 /\ p[k] = "\n"
  <2>1. n \in Nat /\ k \in Nat /\ n <= k
    BY <1>1, <1>4
  <2>2. \A i \in 1..n : i \in 1..Len(line) /\ i \in 1..k
    BY <1>1, <2>1
  <2>3. \A i \in 1..n : p[i] = c[i] /\ c[i] # "\n"
    BY <1>5, <2>2
  <2>4. k # n => k = n + 1 /\ k \in 1..k
    BY <1>4, <2>1
  <2>5. QED
    BY <1>4, <1>5, <2>1, <2>3, <2>4
<1>7. PICK q \in 0..Len(c) : /\ L = SubSeq(c, 1, q)
                             /\ \A i \in (q + 1)..Len(c) : c[i] = "\r"
                             /\ q > 0 => c[q] # "\r"
  BY <1>5, WithoutCRIs
<1> HIDE DEF L
<1>8. q \in 0..n /\ L \in Seq(C) /\ Len(L) = q /\ \A i \in 1..q : L[i] = p[i]
  BY <1>5, <1>6, <1>7
<1>9. CASE d = << >> /\ IsBlank(p)
  <2>1. \A i \in 1..q : isspace(L[i])
    BY <1>5, <1>6, <1>8, <1>9 DEF IsBlank
  <2>2. IsBlank(L)
    BY <1>8, <2>1 DEF IsBlank
  <2>3. QED
    BY <1>9, <2>2 DEF SaysTheSame, c, p, L
<1>10. ASSUME NEW from \in 1..Len(p), NEW to \in 1..Len(p),
              from <= to, d = SubSeq(p, from, to),
              ~isspace(p[from]), \A i \in 1..(from - 1) : isspace(p[i]),
              p[to] \notin {"\n", "\r"},
              \A i \in (to + 1)..Len(p) : p[i] \in {"\n", "\r"}
       PROVE  SaysTheSame(d, L)
  <2>1. to \in 1..n
    BY <1>5, <1>6, <1>10
  <2>2. to <= q
    BY <1>5, <1>6, <1>7, <1>10, <2>1
  <2>3. q <= to
    <3>1. q \in 1..n /\ p[q] = c[q] /\ c[q] # "\r" /\ c[q] # "\n"
      BY <1>6, <1>7, <1>8, <2>1, <2>2
    <3>2. ~(q \in (to + 1)..Len(p))
      BY <1>10, <3>1
    <3>3. QED
      BY <1>5, <1>6, <2>1, <3>1, <3>2
  <2>4. to = q
    BY <1>8, <2>1, <2>2, <2>3
  <2>5. from \in 1..q /\ q \in Nat
    BY <1>5, <1>8, <1>10, <2>4
  <2> DEFINE e == SubSeq(L, from, q)
  <2>6. \A i \in from..q : p[i] \in C /\ L[i] \in C /\ L[i] = p[i]
    BY <1>5, <1>6, <1>8, <2>5
  <2>7. /\ d \in Seq(C) /\ Len(d) = q - from + 1
        /\ \A i \in 1..(q - from + 1) : d[i] = p[from + i - 1]
    BY <1>10, <2>4, <2>5, <2>6, SubSeqProperties
  <2>8. /\ e \in Seq(C) /\ Len(e) = q - from + 1
        /\ \A i \in 1..(q - from + 1) : e[i] = L[from + i - 1]
    BY <2>5, <2>6, SubSeqProperties
  <2> HIDE DEF d, e
  <2>9. \A i \in 1..Len(d) : d[i] = e[i]
    <3>1. \A i \in 1..(q - from + 1) : from + i - 1 \in from..q
      BY <2>5
    <3>2. QED
      BY <2>6, <2>7, <2>8, <3>1
  <2>10. d = e
    BY <2>7, <2>8, <2>9, SeqEqual
  <2>11. d # << >> /\ d[1] = L[from]
    <3>1. 1 \in 1..(q - from + 1) /\ from + 1 - 1 = from /\ from \in from..q
      BY <2>5
    <3>2. QED
      BY <2>6, <2>7, <3>1
  <2>12. ~isspace(L[from]) /\ \A i \in 1..(from - 1) : isspace(L[i])
    <3>1. from \in 1..q /\ \A i \in 1..(from - 1) : i \in 1..q
      BY <2>5
    <3>2. QED
      BY <1>8, <1>10, <3>1
  <2>13. DOMAIN L = 1..q
    BY <1>8
  <2>14. ~IsBlank(L)
    BY <2>5, <2>12, <2>13 DEF IsBlank
  <2>15. d[1] = "#" <=> IsComment(L)
    <3>1. ASSUME L[from] = "#"
          PROVE  IsComment(L)
      BY <2>5, <2>12, <2>13, <3>1 DEF IsComment
    <3>2. ASSUME IsComment(L)
          PROVE  L[from] = "#"
      <4>1. PICK i \in 1..q : L[i] = "#" /\ \A j \in 1..(i - 1) : isspace(L[j])
        BY <2>13, <3>2 DEF IsComment
      <4>2. ~isspace(L[i])
        BY <4>1 DEF isspace
      <4>3. ~(i < from)
        BY <2>5, <2>12, <4>2
      <4>4. ~(from < i)
        BY <2>5, <2>12, <4>1
      <4>5. i = from
        BY <2>5, <4>3, <4>4
      <4>6. QED
        BY <4>1, <4>5
    <3>3. QED
      BY <2>11, <3>1, <3>2
  <2>16. LabelsOfText(d) = LabelsOfText(L)
    <3>1. from - 1 \in 0..Len(L) /\ (from - 1) + 1 = from
      BY <1>8, <2>5
    <3>2. LabelsOfText(SubSeq(L, (from - 1) + 1, Len(L))) = LabelsOfText(L)
      BY <1>8, <2>12, <3>1, LabelsIgnoreBlanks
    <3>3. QED
      BY <1>8, <2>10, <3>1, <3>2 DEF e
  <2>17. QED
    BY <2>11, <2>14, <2>15, <2>16 DEF SaysTheSame
<1>11. QED
  BY <1>5, <1>9, <1>10, TrimmedIs DEF c, p, L

\* An empty line is blank.
LEMMA EmptyIsBlank ==
  IsBlank(WithoutCR(CString(<< >>)))
<1>1. << >> \in Seq({}) /\ Len(<< >>) = 0
  OBVIOUS
<1>2. CString(<< >>) = << >>
  <2>1. PICK n \in 0..Len(<< >>) : CString(<< >>) = SubSeq(<< >>, 1, n)
    BY <1>1, CStringIs
  <2>2. n = 0
    BY <1>1
  <2>3. QED
    BY <2>1, <2>2
<1>3. WithoutCR(<< >>) = << >>
  <2>1. PICK n \in 0..Len(<< >>) : WithoutCR(<< >>) = SubSeq(<< >>, 1, n)
    BY <1>1, WithoutCRIs
  <2>2. n = 0
    BY <1>1
  <2>3. QED
    BY <2>1, <2>2
<1>4. QED
  BY <1>2, <1>3 DEF IsBlank

\* Where lines end.
LEMMA LineEndsAre ==
  ASSUME NEW C, NEW text \in Seq(C)
  PROVE  /\ \A e : e \in LineEnds(text) <=>
                     (e \in 1..Len(text) /\ text[e] = "\n") \/ e = Len(text) + 1
         /\ LineEnds(text) \subseteq 1..(Len(text) + 1) /\ IsFiniteSet(LineEnds(text))
         /\ Len(text) \in Nat
<1>1. DOMAIN text = 1..Len(text) /\ Len(text) \in Nat
  OBVIOUS
<1>2. \A e : e \in LineEnds(text) <=>
              (e \in 1..Len(text) /\ text[e] = "\n") \/ e = Len(text) + 1
  BY <1>1 DEF LineEnds, Ends
<1>3. LineEnds(text) \subseteq 1..(Len(text) + 1)
  BY <1>1, <1>2
<1>4. IsFiniteSet(1..(Len(text) + 1))
  BY <1>1, FS_Interval
<1>5. QED
  BY <1>1, <1>2, <1>3, <1>4, FS_Subset

\* Two line ends in a row: the line between them is empty.
LEMMA AdjacentEnds ==
  ASSUME NEW C, NEW text \in Seq(C), NEW e \in LineEnds(text), e - 1 \in LineEnds(text)
  PROVE  IsBlank(Meaning(text, e))
<1>1. PICK b \in 0..(e - 1) : /\ Line(text, LineEnds(text), e) = SubSeq(text, b + 1, e - 1)
                              /\ \A t \in LineEnds(text) : t < e => t <= b
  BY LineIs DEF LineEnds
<1>2. e \in 1..(Len(text) + 1) /\ Len(text) \in Nat
  BY LineEndsAre
<1>3. b = e - 1
  BY <1>1, <1>2
<1>4. SubSeq(text, b + 1, e - 1) = << >>
  BY <1>2, <1>3, SubSeqEmpty
<1>5. QED
  BY <1>1, <1>4, EmptyIsBlank DEF Meaning

\* fgets returns the characters after the first k up to some n-th: it stops
\* at a newline, at the end of the text or when the buffer is full.
IsRead(text, k, n) ==
  /\ n \in (k + 1)..Len(text) /\ n - k <= LineSize - 1
  /\ \A i \in (k + 1)..(n - 1) : text[i] # "\n"
  /\ text[n] = "\n" \/ n = Len(text) \/ n - k = LineSize - 1

\* One call of fgets.
LEMMA ReadIs ==
  ASSUME NEW C, NEW text \in Seq(C), NEW k \in 0..(Len(text) - 1)
  PROVE  LET r == SubSeq(text, k + 1, Len(text))
         IN  \E n \in (k + 1)..Len(text) :
               /\ IsRead(text, k, n)
               /\ Trimmed(CString(SubSeq(r, 1, ChunkEnd(r)))) = Piece(text, k, n)
               /\ SubSeq(r, ChunkEnd(r) + 1, Len(r)) = SubSeq(text, n + 1, Len(text))
<1> DEFINE L == Len(text)
           r == SubSeq(text, k + 1, L)
           c == ChunkEnd(r)
           n == k + c
<1>1. L \in Nat /\ k \in Int /\ 0 <= k /\ k < L
  OBVIOUS
<1>2. r \in Seq(C) /\ Len(r) = L - k /\ \A i \in 1..Len(r) : r[i] = text[k + i]
  BY <1>1, SuffixIs
<1>3. r # << >>
  BY <1>1, <1>2
<1> HIDE DEF r
<1>4. /\ c \in 1..Len(r) /\ c <= LineSize - 1
      /\ \A i \in 1..(c - 1) : r[i] # "\n"
      /\ r[c] = "\n" \/ c = Len(r) \/ c = LineSize - 1
  BY <1>2, <1>3, ChunkIs
<1> HIDE DEF c, L
<1>5. n \in (k + 1)..L /\ n - k = c /\ c \in Int /\ 1 <= c
  BY <1>1, <1>2, <1>4
<1>6. \A i \in (k + 1)..(n - 1) : text[i] # "\n"
  <2> TAKE i \in (k + 1)..(n - 1)
  <2>1. i - k \in 1..(c - 1) /\ i - k \in 1..Len(r) /\ k + (i - k) = i
    BY <1>1, <1>2, <1>4, <1>5
  <2>2. QED
    BY <1>2, <1>4, <2>1
<1>7. text[n] = "\n" \/ n = L \/ n - k = LineSize - 1
  BY <1>1, <1>2, <1>4, <1>5
<1>8. IsRead(text, k, n)
  BY <1>4, <1>5, <1>6, <1>7 DEF IsRead, L
<1>9. SubSeq(r, 1, c) = SubSeq(text, k + 1, n)
  <2> DEFINE p == SubSeq(r, 1, c)
             q == SubSeq(text, k + 1, n)
  <2>1. p \in Seq(C) /\ Len(p) = c /\ \A i \in 1..c : p[i] = r[i]
    <3>1. 0 \in 0..Len(r) /\ c \in 0..Len(r) /\ 0 + 1 = 1 /\ c - 0 = c
      BY <1>2, <1>4, <1>5
    <3>2. /\ SubSeq(r, 0 + 1, c) \in Seq(C) /\ Len(SubSeq(r, 0 + 1, c)) = c - 0
          /\ \A i \in 1..(c - 0) : SubSeq(r, 0 + 1, c)[i] = r[0 + i]
      BY <1>2, <3>1, PartIs
    <3>3. \A i \in 1..c : 0 + i = i
      BY <1>5
    <3>4. QED
      BY <3>1, <3>2, <3>3
  <2>2. q \in Seq(C) /\ Len(q) = n - k /\ \A i \in 1..(n - k) : q[i] = text[k + i]
    <3>1. k \in 0..Len(text) /\ n \in k..Len(text)
      BY <1>1, <1>5 DEF L
    <3>2. QED
      BY <3>1, PartIs
  <2>3. \A i \in 1..c : i \in 1..Len(r)
    BY <1>4, <1>5
  <2> HIDE DEF p, q
  <2>4. Len(p) = Len(q) /\ \A i \in 1..Len(p) : p[i] = q[i]
    BY <1>2, <1>5, <2>1, <2>2, <2>3
  <2>5. p = q
    BY <2>1, <2>2, <2>4, SeqEqual
  <2>6. QED
    BY <2>5 DEF p, q
<1>10. SubSeq(r, c + 1, Len(r)) = SubSeq(text, n + 1, L)
  <2> DEFINE p == SubSeq(r, c + 1, Len(r))
             q == SubSeq(text, n + 1, L)
  <2>1. /\ p \in Seq(C) /\ Len(p) = Len(r) - c
        /\ \A i \in 1..Len(p) : p[i] = r[c + i]
    <3>1. c \in 0..Len(r)
      BY <1>2, <1>4, <1>5
    <3>2. QED
      BY <1>2, <3>1, SuffixIs
  <2>2. /\ q \in Seq(C) /\ Len(q) = L - n
        /\ \A i \in 1..Len(q) : q[i] = text[n + i]
    <3>1. n \in 0..Len(text)
      BY <1>1, <1>5 DEF L
    <3>2. QED
      BY <3>1, SuffixIs DEF L
  <2> HIDE DEF p, q
  <2>3. Len(p) = Len(q)
    BY <1>1, <1>2, <1>5, <2>1, <2>2
  <2>4. \A i \in 1..Len(p) : p[i] = q[i]
    <3> TAKE i \in 1..Len(p)
    <3>1. c + i \in 1..Len(r) /\ k + (c + i) = n + i
      BY <1>1, <1>2, <1>4, <1>5, <2>1
    <3>2. QED
      BY <1>2, <2>1, <2>2, <2>3, <3>1
  <2>5. p = q
    BY <2>1, <2>2, <2>3, <2>4, SeqEqual
  <2>6. QED
    BY <2>5 DEF p, q
<1>11. QED
  BY <1>5, <1>8, <1>9, <1>10 DEF Piece, r, c, L

\* A line that ends at the first place is empty.
LEMMA FirstIsBlank ==
  ASSUME NEW C, NEW text \in Seq(C), 1 \in LineEnds(text)
  PROVE  IsBlank(Meaning(text, 1))
<1>1. PICK b \in 0..(1 - 1) : Line(text, LineEnds(text), 1) = SubSeq(text, b + 1, 1 - 1)
  BY LineIs DEF LineEnds
<1>2. b = 0
  OBVIOUS
<1>3. SubSeq(text, b + 1, 1 - 1) = << >>
  BY <1>2, SubSeqEmpty
<1>4. QED
  BY <1>1, <1>3, EmptyIsBlank DEF Meaning

\* The next piece completes one line, and the empty one after it if there is
\* one, or is the newline that was left of the last.
LEMMA NextPiece ==
  ASSUME NEW C, NEW text \in Seq(C), NEW k \in 0..(Len(text) - 1),
         LinesFit(text), AtLineEnd(text, k),
         NEW n \in (k + 1)..Len(text), IsRead(text, k, n)
  PROVE  /\ AtLineEnd(text, n)
         /\ LinesIn(text, k) \subseteq LinesIn(text, n)
         /\ \/ /\ Piece(text, k, n) = << >>
               /\ \A e \in NewLines(text, k, n) : IsBlank(Meaning(text, e))
            \/ \E e \in NewLines(text, k, n) :
                 /\ SaysTheSame(Piece(text, k, n), Meaning(text, e))
                 /\ \A f \in NewLines(text, k, n) : f # e => IsBlank(Meaning(text, f))
<1> DEFINE ends == LineEnds(text)
           L == Len(text)
           new == NewLines(text, k, n)
           buffer == SubSeq(text, k + 1, n)
<1>1. /\ L \in Nat /\ k \in Int /\ n \in Int /\ 0 <= k /\ k < L
      /\ k + 1 <= n /\ n <= L
  OBVIOUS
<1>2. /\ n - k <= LineSize - 1
      /\ \A i \in (k + 1)..(n - 1) : text[i] # "\n"
      /\ text[n] = "\n" \/ n = L \/ n - k = LineSize - 1
  BY DEF IsRead
<1>3. LineSize - 1 \in Nat
  BY NameLimits DEF LineSize
<1>4. /\ \A e : e \in ends <=> (e \in 1..L /\ text[e] = "\n") \/ e = L + 1
      /\ ends \subseteq 1..(L + 1)
  BY LineEndsAre
<1>5. /\ buffer \in Seq(C) /\ Len(buffer) = n - k
      /\ \A i \in 1..(n - k) : buffer[i] = text[k + i]
  <2>1. k \in 0..Len(text) /\ n \in k..Len(text)
    BY <1>1
  <2>2. QED
    BY <2>1, PartIs
<1> HIDE DEF ends, L, new, buffer
<1>6. ends \subseteq Int
  BY <1>1, <1>4
<1>7. \A e : e \in new <=> e \in ends /\ e <= n + 1 /\ k + 1 < e
  BY <1>1, <1>6 DEF new, NewLines, LinesIn, ends
<1>8. LinesIn(text, k) \subseteq LinesIn(text, n)
  <2>1. \A e \in ends : e <= k + 1 => e <= n + 1
    BY <1>1, <1>6
  <2>2. QED
    BY <2>1 DEF LinesIn, ends
<1>9. Piece(text, k, n) = Trimmed(CString(buffer))
  BY DEF Piece, buffer
<1>10. CASE text[k + 1] = "\n"
  <2>1. k + 1 \in ends
    BY <1>1, <1>4, <1>10
  <2>2. n = k + 1
    BY <1>1, <1>2, <1>10
  <2>3. AtLineEnd(text, n)
    BY <2>1, <2>2 DEF AtLineEnd, ends
  <2>4. \A e \in new : IsBlank(Meaning(text, e))
    <3> SUFFICES ASSUME NEW e \in new
                 PROVE  IsBlank(Meaning(text, e))
      OBVIOUS
    <3>1. e \in ends /\ e <= n + 1 /\ k + 1 < e
      BY <1>7
    <3>2. e \in Int
      BY <1>6, <3>1
    <3>3. e - 1 = k + 1
      BY <1>1, <2>2, <3>1, <3>2
    <3>4. QED
      BY <2>1, <3>1, <3>3, AdjacentEnds DEF ends
  <2>5. Piece(text, k, n) = << >>
    <3>1. << >> \in Seq(C) /\ Len(<< >>) = 0
      OBVIOUS
    <3>2. Len(buffer) = 1 /\ buffer[1] = "\n"
      BY <1>1, <1>5, <1>10, <2>2
    <3>3. Len(buffer) = Len(<< >>) + 1 /\ buffer[Len(<< >>) + 1] = "\n"
      BY <3>1, <3>2
    <3>4. \A i \in 1..Len(<< >>) : << >>[i] # "\n" /\ buffer[i] = << >>[i]
      BY <3>1
    <3>5. SaysTheSame(Trimmed(CString(buffer)), WithoutCR(CString(<< >>)))
      BY <1>5, <3>1, <3>3, <3>4, PieceIsLine
    <3>6. QED
      BY <1>9, <3>5, EmptyIsBlank DEF SaysTheSame
  <2>6. QED
    BY <1>8, <2>3, <2>4, <2>5 DEF new
<1>11. CASE text[k + 1] # "\n"
  <2> DEFINE later == {t \in ends : k < t}
  <2>1. later \subseteq Nat /\ L + 1 \in later
    BY <1>1, <1>4
  <2>2. PICK e \in later : \A t \in later : e <= t
    <3> HIDE DEF later
    <3>1. QED
      BY <2>1, LeastNumber
  <2>3. /\ e \in ends /\ e \in (k + 2)..(L + 1)
        /\ \A t \in ends : k < t => e <= t
    <3>1. k + 1 \notin ends
      BY <1>1, <1>4, <1>11
    <3>2. QED
      BY <1>1, <1>4, <2>2, <3>1
  <2> HIDE DEF later
  <2>4. e \in Int /\ k + 2 <= e /\ e <= L + 1
    BY <1>1, <2>3
  <2> DEFINE line == Line(text, ends, e)
  <2>5. line = SubSeq(text, k + 1, e - 1)
    <3>1. PICK b \in 0..(e - 1) : /\ line = SubSeq(text, b + 1, e - 1)
                                  /\ b = 0 \/ b \in ends
                                  /\ \A t \in ends : t < e => t <= b
      BY <2>3, LineIs DEF LineEnds, ends
    <3>2. k = 0 \/ k \in ends
      BY <1>1, <1>4, <1>11 DEF AtLineEnd, ends
    <3>3. b \in Int /\ 0 <= b /\ b < e
      BY <2>4
    <3>4. b <= k
      BY <1>1, <2>4, <2>3, <3>1, <3>3
    <3>5. k <= b
      <4>1. CASE k = 0
        BY <3>3, <4>1
      <4>2. CASE k \in ends
        <5>1. k < e
          BY <1>1, <2>4
        <5>2. QED
          BY <3>1, <4>2, <5>1
      <4>3. QED
        BY <3>2, <4>1, <4>2
    <3>6. b = k
      BY <1>1, <3>3, <3>4, <3>5
    <3>7. QED
      BY <3>1, <3>6
  <2>6. Len(line) <= LineSize - 1
    BY <2>3 DEF LinesFit, ends
  <2> HIDE DEF line
  <2>7. /\ line \in Seq(C) /\ Len(line) = e - 1 - k
        /\ \A i \in 1..(e - 1 - k) : line[i] = text[k + i]
    <3>1. k \in 0..Len(text) /\ e - 1 \in k..Len(text)
      BY <1>1, <2>4 DEF L
    <3>2. QED
      BY <2>5, <3>1, PartIs
  <2>8. \A i \in 1..(e - 1 - k) : text[k + i] # "\n"
    <3>1. \A i \in 1..(e - 1 - k) : k + i \in 1..L /\ k < k + i /\ k + i < e
      BY <1>1, <2>4
    <3>2. \A t \in 1..L : k < t /\ t < e => t \notin ends
      BY <1>1, <2>4, <2>3
    <3>3. QED
      BY <1>4, <3>1, <3>2
  <2>9. n <= e
    <3> SUFFICES ASSUME e < n
                 PROVE  FALSE
      BY <1>1, <2>4
    <3>1. e \in 1..L /\ e # L + 1
      BY <1>1, <2>4
    <3>2. text[e] = "\n"
      BY <1>4, <2>3, <3>1
    <3>3. e \in (k + 1)..(n - 1)
      BY <1>1, <2>4
    <3>4. QED
      BY <1>2, <3>2, <3>3
  <2>10. e - 1 <= n
    <3>1. CASE text[n] = "\n"
      <4>1. n \in 1..L /\ k < n
        BY <1>1
      <4>2. n \in ends
        BY <1>4, <3>1, <4>1
      <4>3. e <= n
        BY <2>3, <4>1, <4>2
      <4>4. QED
        BY <1>1, <2>4, <4>3
    <3>2. CASE n = L
      BY <1>1, <2>4, <3>2
    <3>3. CASE n - k = LineSize - 1
      BY <1>1, <1>3, <2>4, <2>6, <2>7, <3>3
    <3>4. QED
      BY <1>2, <3>1, <3>2, <3>3
  <2>11. n = e \/ n + 1 = e
    BY <1>1, <2>4, <2>9, <2>10
  <2>12. AtLineEnd(text, n)
    BY <2>3, <2>11 DEF AtLineEnd, ends
  <2>13. e \in new
    BY <1>1, <1>7, <2>4, <2>3, <2>11
  <2>14. ASSUME NEW f \in new, f # e
         PROVE  IsBlank(Meaning(text, f))
    <3>1. f \in ends /\ f <= n + 1 /\ k + 1 < f /\ f \in Int
      BY <1>6, <1>7
    <3>2. k < f
      BY <1>1, <3>1
    <3>3. e <= f
      BY <2>3, <3>1, <3>2
    <3>4. f - 1 = e
      BY <1>1, <2>4, <2>11, <2>14, <3>1, <3>3
    <3>5. QED
      BY <2>3, <3>1, <3>4, AdjacentEnds DEF ends
  <2>15. SaysTheSame(Piece(text, k, n), Meaning(text, e))
    <3>1. n - k = Len(line) \/ n - k = Len(line) + 1
      BY <1>1, <2>4, <2>7, <2>11
    <3>2. n - k = Len(line) + 1 => buffer[Len(line) + 1] = "\n"
      <4> SUFFICES ASSUME n - k = Len(line) + 1
                   PROVE  buffer[n - k] = "\n"
        OBVIOUS
      <4>1. n = e /\ n \in 1..L /\ n # L + 1 /\ k + (n - k) = n /\ n - k \in 1..(n - k)
        BY <1>1, <2>4, <2>7
      <4>2. text[n] = "\n"
        BY <1>4, <2>3, <4>1
      <4>3. QED
        BY <1>5, <4>1, <4>2
    <3>3. \A i \in 1..Len(line) : line[i] # "\n" /\ buffer[i] = line[i]
      <4>1. \A i \in 1..(e - 1 - k) : i \in 1..(n - k)
        BY <1>1, <2>4, <2>11
      <4>2. QED
        BY <1>5, <2>7, <2>8, <4>1
    <3>4. \/ Len(buffer) = Len(line)
          \/ Len(buffer) = Len(line) + 1 /\ buffer[Len(line) + 1] = "\n"
      BY <1>5, <3>1, <3>2
    <3>5. SaysTheSame(Trimmed(CString(buffer)), WithoutCR(CString(line)))
      BY <1>5, <2>7, <3>3, <3>4, PieceIsLine
    <3>6. Meaning(text, e) = WithoutCR(CString(line))
      BY DEF Meaning, line, ends
    <3>7. QED
      BY <1>9, <3>5, <3>6
  <2>16. QED
    BY <1>8, <2>12, <2>13, <2>14, <2>15 DEF new
<1>12. QED
  BY <1>10, <1>11

\* The texts of lines and pieces are made of the characters of the file.
LEMMA MeaningTyped ==
  ASSUME NEW C, NEW text \in Seq(C), NEW e \in LineEnds(text)
  PROVE  Meaning(text, e) \in Seq(C)
<1> DEFINE line == Line(text, LineEnds(text), e)
<1>1. line \in Seq(C)
  <2>1. PICK b \in 0..(e - 1) : line = SubSeq(text, b + 1, e - 1)
    BY LineIs DEF LineEnds
  <2>2. Len(text) \in Nat /\ e \in 1..(Len(text) + 1)
    BY LineEndsAre
  <2>3. b \in 0..Len(text) /\ e - 1 \in b..Len(text)
    BY <2>2
  <2>4. QED
    BY <2>1, <2>3, PartIs
<1> HIDE DEF line
<1>2. CString(line) \in Seq(C)
  BY <1>1, PrefixIsText, CStringIs
<1>3. WithoutCR(CString(line)) \in Seq(C)
  BY <1>2, PrefixIsText, WithoutCRIs
<1>4. QED
  BY <1>3 DEF Meaning, line

\* So is what the loop looks at.
LEMMA PieceTyped ==
  ASSUME NEW C, NEW text \in Seq(C), NEW k \in 0..Len(text), NEW n \in k..Len(text)
  PROVE  Piece(text, k, n) \in Seq(C)
<1> DEFINE buffer == SubSeq(text, k + 1, n)
           c == CString(buffer)
<1>1. buffer \in Seq(C)
  BY PartIs
<1> HIDE DEF buffer
<1>2. c \in Seq(C)
  BY <1>1, PrefixIsText, CStringIs
<1> HIDE DEF c
<1>3. Trimmed(c) \in Seq(C)
  <2>1. CASE Trimmed(c) = << >>
    BY <2>1
  <2>2. CASE \E from, to \in 1..Len(c) : from <= to /\ Trimmed(c) = SubSeq(c, from, to)
    <3>1. PICK from \in 1..Len(c), to \in 1..Len(c) :
            from <= to /\ Trimmed(c) = SubSeq(c, from, to)
      BY <2>2
    <3>2. /\ from - 1 \in 0..Len(c) /\ to \in (from - 1)..Len(c)
          /\ (from - 1) + 1 = from
      BY <1>2, <3>1
    <3>3. SubSeq(c, (from - 1) + 1, to) \in Seq(C)
      BY <1>2, <3>2, PartIs
    <3>4. QED
      BY <3>1, <3>2, <3>3
  <2>3. QED
    BY <1>2, <2>1, <2>2, TrimmedIs
<1>4. QED
  BY <1>3 DEF Piece, c, buffer

\* A blank line is no comment.
LEMMA BlankIsNoComment ==
  ASSUME NEW C, NEW line \in Seq(C), IsBlank(line)
  PROVE  ~IsComment(line)
BY DEF IsBlank, IsComment, isspace

\* Lines that are blank add nothing to what the lines before them say.
LEMMA BlankLinesAddNothing ==
  ASSUME NEW C, NEW text \in Seq(C), NEW some, NEW more,
         some \subseteq more, more \subseteq LineEnds(text),
         \A e \in more \ some : IsBlank(Meaning(text, e))
  PROVE  /\ NonBlank(text, more) = NonBlank(text, some)
         /\ Comments(text, more) = Comments(text, some)
         /\ Names(text, more) = Names(text, some)
<1>1. \A e \in more \ some : /\ ~IsComment(Meaning(text, e))
                              /\ LabelsOfText(Meaning(text, e)) = Failed
  BY MeaningTyped, BlankIsNoComment, BlankIsNoName
<1>2. NonBlank(text, more) = NonBlank(text, some)
  BY DEF NonBlank
<1>3. Comments(text, more) = Comments(text, some)
  BY <1>1 DEF Comments
<1>4. Names(text, more) = Names(text, some)
  BY <1>1 DEF Names
<1>5. QED
  BY <1>2, <1>3, <1>4

\* What a piece says is all that the lines it completes say.
LEMMA PieceSays ==
  ASSUME NEW C, NEW text \in Seq(C), NEW k \in 0..(Len(text) - 1),
         LinesFit(text), AtLineEnd(text, k),
         NEW n \in (k + 1)..Len(text), IsRead(text, k, n),
         NEW d, d = Piece(text, k, n),
         NEW old, old = LinesIn(text, k), NEW now, now = LinesIn(text, n)
  PROVE  /\ AtLineEnd(text, n)
         /\ d = << >> => /\ NonBlank(text, now) = NonBlank(text, old)
                         /\ Comments(text, now) = Comments(text, old)
                         /\ Names(text, now) = Names(text, old)
         /\ d # << >> =>
              \E e : /\ e \notin old
                     /\ NonBlank(text, now) = NonBlank(text, old) \cup {e}
                     /\ d[1] = "#" => /\ Comments(text, now) = Comments(text, old) \cup {e}
                                      /\ Names(text, now) = Names(text, old)
                     /\ d[1] # "#" =>
                          /\ Comments(text, now) = Comments(text, old)
                          /\ Names(text, now) =
                               Names(text, old) \cup ({LabelsOfText(d)} \ {Failed})
<1> DEFINE new == NewLines(text, k, n)
<1>1. /\ AtLineEnd(text, n) /\ old \subseteq now /\ now \subseteq LineEnds(text)
      /\ new = now \ old
      /\ \/ d = << >> /\ \A e \in new : IsBlank(Meaning(text, e))
         \/ \E e \in new : /\ SaysTheSame(d, Meaning(text, e))
                           /\ \A f \in new : f # e => IsBlank(Meaning(text, f))
  BY NextPiece DEF NewLines, LinesIn
<1> HIDE DEF new
<1>2. CASE d = << >> /\ \A e \in new : IsBlank(Meaning(text, e))
  BY <1>1, <1>2, BlankLinesAddNothing
<1>3. ASSUME NEW e \in new,
             SaysTheSame(d, Meaning(text, e)),
             \A f \in new : f # e => IsBlank(Meaning(text, f))
      PROVE  /\ d = << >> => /\ NonBlank(text, now) = NonBlank(text, old)
                             /\ Comments(text, now) = Comments(text, old)
                             /\ Names(text, now) = Names(text, old)
             /\ d # << >> =>
                  /\ e \notin old
                  /\ NonBlank(text, now) = NonBlank(text, old) \cup {e}
                  /\ d[1] = "#" => /\ Comments(text, now) = Comments(text, old) \cup {e}
                                   /\ Names(text, now) = Names(text, old)
                  /\ d[1] # "#" =>
                       /\ Comments(text, now) = Comments(text, old)
                       /\ Names(text, now) =
                            Names(text, old) \cup ({LabelsOfText(d)} \ {Failed})
  <2> DEFINE with == old \cup {e}
             m == Meaning(text, e)
  <2>1. /\ with \subseteq now /\ now \subseteq LineEnds(text)
        /\ \A f \in now \ with : IsBlank(Meaning(text, f))
    BY <1>1, <1>3
  <2>2. e \notin old
    BY <1>1
  <2>3. /\ NonBlank(text, now) = NonBlank(text, with)
        /\ Comments(text, now) = Comments(text, with)
        /\ Names(text, now) = Names(text, with)
    <3> HIDE DEF with
    <3>1. QED
      BY <2>1, BlankLinesAddNothing
  <2>4. CASE IsBlank(m)
    <3>1. d = << >>
      BY <1>3, <2>4 DEF SaysTheSame
    <3>2. /\ old \subseteq with /\ with \subseteq LineEnds(text)
          /\ \A f \in with \ old : IsBlank(Meaning(text, f))
      BY <1>1, <2>1, <2>4
    <3>3. /\ NonBlank(text, with) = NonBlank(text, old)
          /\ Comments(text, with) = Comments(text, old)
          /\ Names(text, with) = Names(text, old)
      BY <3>2, BlankLinesAddNothing
    <3>4. QED
      BY <2>3, <3>1, <3>3
  <2>5. CASE ~IsBlank(m)
    <3>1. /\ d # << >> /\ (d[1] = "#" <=> IsComment(m))
          /\ LabelsOfText(d) = LabelsOfText(m)
      BY <1>3, <2>5 DEF SaysTheSame
    <3>2. NonBlank(text, with) = NonBlank(text, old) \cup {e}
      BY <2>5 DEF NonBlank
    <3>3. d[1] = "#" => Comments(text, with) = Comments(text, old) \cup {e}
      BY <3>1 DEF Comments
    <3>4. d[1] # "#" => Comments(text, with) = Comments(text, old)
      BY <3>1 DEF Comments
    <3>5. d[1] = "#" => Names(text, with) = Names(text, old)
      BY <3>1 DEF Names
    <3>6. d[1] # "#" => Names(text, with) = Names(text, old) \cup ({LabelsOfText(d)} \ {Failed})
      BY <3>1 DEF Names
    <3>7. QED
      BY <2>2, <2>3, <3>1, <3>2, <3>3, <3>4, <3>5, <3>6
  <2>6. QED
    BY <2>4, <2>5
<1>4. QED
  BY <1>1, <1>2, <1>3

-----------------------------------------------------------------------------
(* The inductive invariant. *)

\* The sets of lines seen are finite.
LEMMA SeenIsFinite ==
  ASSUME NEW C, NEW text \in Seq(C), NEW k
  PROVE  /\ IsFiniteSet(NonBlank(text, LinesIn(text, k)))
         /\ IsFiniteSet(Comments(text, LinesIn(text, k)))
<1>1. IsFiniteSet(LineEnds(text))
  BY LineEndsAre
<1>2. /\ NonBlank(text, LinesIn(text, k)) \subseteq LineEnds(text)
      /\ Comments(text, LinesIn(text, k)) \subseteq LineEnds(text)
  BY DEF NonBlank, Comments, LinesIn
<1>3. QED
  BY <1>1, <1>2, FS_Subset

\* Another line counts one more.
LEMMA OneMoreLine ==
  ASSUME TypeOK, NEW e, e \notin Seen
  PROVE  /\ \A now : now = NonBlank(file, Seen) \cup {e} =>
              Cardinality(now) = Cardinality(NonBlank(file, Seen)) + 1
         /\ Cardinality(NonBlank(file, Seen)) \in Nat
         /\ \A now : now = Comments(file, Seen) \cup {e} =>
              Cardinality(now) = Cardinality(Comments(file, Seen)) + 1
         /\ Cardinality(Comments(file, Seen)) \in Nat
<1>1. IsFiniteSet(NonBlank(file, Seen)) /\ IsFiniteSet(Comments(file, Seen))
  BY SeenIsFinite DEF TypeOK, Seen
<1>2. e \notin NonBlank(file, Seen) /\ e \notin Comments(file, Seen)
  BY DEF NonBlank, Comments
<1>3. QED
  BY <1>1, <1>2, FS_AddElement, FS_CardinalityType

\* How much is left of the file tells how much has been read.
LEMMA ReadSoFar ==
  ASSUME TypeOK
  PROVE  /\ file \in Seq(Character) /\ CharsRead \in 0..Len(file)
         /\ rest = SubSeq(file, CharsRead + 1, Len(file))
         /\ Len(rest) = Len(file) - CharsRead /\ Len(file) \in Nat
         /\ rest # << >> => CharsRead \in 0..(Len(file) - 1)
         /\ rest = << >> => CharsRead = Len(file)
<1>1. file \in Seq(Character) /\ Len(file) \in Nat
  BY DEF TypeOK
<1>2. PICK k \in 0..Len(file) : rest = SubSeq(file, k + 1, Len(file))
  BY DEF TypeOK
<1>3. rest \in Seq(Character) /\ Len(rest) = Len(file) - k
  BY <1>1, <1>2, SuffixIs
<1>4. k \in Int /\ 0 <= k /\ k <= Len(file)
  BY <1>1
<1>5. CharsRead = k
  BY <1>1, <1>3, <1>4 DEF CharsRead
<1>6. rest # << >> => Len(rest) # 0
  BY <1>3
<1>7. rest = << >> => Len(rest) = 0
  OBVIOUS
<1>8. QED
  BY <1>1, <1>2, <1>3, <1>4, <1>5, <1>6, <1>7

\* A turn of the loop reads on.
LEMMA TurnReads ==
  ASSUME TypeOK, Advance
  PROVE  /\ CharsRead \in 0..(Len(file) - 1) /\ file' = file
         /\ CharsRead' \in (CharsRead + 1)..Len(file)
         /\ IsRead(file, CharsRead, CharsRead')
         /\ domain = Piece(file, CharsRead, CharsRead') /\ domain \in Seq(Character)
         /\ rest' = SubSeq(file, CharsRead' + 1, Len(file))
<1> DEFINE k == CharsRead
<1>1. /\ file \in Seq(Character) /\ k \in 0..(Len(file) - 1) /\ Len(file) \in Nat
      /\ rest = SubSeq(file, k + 1, Len(file))
  BY ReadSoFar DEF Advance
<1>2. file' = file /\ rest' = SubSeq(rest, ChunkEnd(rest) + 1, Len(rest))
  BY DEF Advance
<1> HIDE DEF k
<1>3. PICK n \in (k + 1)..Len(file) :
        /\ IsRead(file, k, n)
        /\ Trimmed(CString(SubSeq(rest, 1, ChunkEnd(rest)))) = Piece(file, k, n)
        /\ SubSeq(rest, ChunkEnd(rest) + 1, Len(rest)) = SubSeq(file, n + 1, Len(file))
  BY <1>1, ReadIs
<1>4. domain = Piece(file, k, n)
  BY <1>3 DEF domain
<1>5. rest' = SubSeq(file, n + 1, Len(file))
  BY <1>2, <1>3
<1>6. n \in Int /\ k \in 0..Len(file) /\ n \in k..Len(file) /\ n \in 0..Len(file)
  BY <1>1
<1>7. Len(rest') = Len(file) - n
  BY <1>1, <1>5, <1>6, SuffixIs
<1>8. CharsRead' = n
  <2>1. CharsRead' = Len(file') - Len(rest') /\ Len(file') = Len(file)
    BY <1>2 DEF CharsRead
  <2>2. QED
    BY <1>1, <1>6, <1>7, <2>1
<1>9. domain \in Seq(Character)
  BY <1>1, <1>4, <1>6, PieceTyped
<1>10. QED
  BY <1>1, <1>2, <1>3, <1>4, <1>5, <1>8, <1>9 DEF k

\* What a turn reads, in terms of the lines.
LEMMA TurnSays ==
  ASSUME TypeOK, Advance, LinesFit(file), AtLineEnd(file, CharsRead)
  PROVE  /\ AtLineEnd(file, CharsRead')
         /\ domain = << >> => /\ NonBlank(file, Seen') = NonBlank(file, Seen)
                              /\ Comments(file, Seen') = Comments(file, Seen)
                              /\ Names(file, Seen') = Names(file, Seen)
         /\ domain # << >> =>
              \E e : /\ e \notin Seen
                     /\ NonBlank(file, Seen') = NonBlank(file, Seen) \cup {e}
                     /\ domain[1] = "#" =>
                          /\ Comments(file, Seen') = Comments(file, Seen) \cup {e}
                          /\ Names(file, Seen') = Names(file, Seen)
                     /\ domain[1] # "#" =>
                          /\ Comments(file, Seen') = Comments(file, Seen)
                          /\ Names(file, Seen') =
                               Names(file, Seen) \cup ({LabelsOfText(domain)} \ {Failed})
<1>1. /\ CharsRead \in 0..(Len(file) - 1) /\ file' = file
      /\ CharsRead' \in (CharsRead + 1)..Len(file)
      /\ IsRead(file, CharsRead, CharsRead')
      /\ domain = Piece(file, CharsRead, CharsRead')
  BY TurnReads
<1>2. Seen = LinesIn(file, CharsRead) /\ Seen' = LinesIn(file, CharsRead')
  BY <1>1 DEF Seen
<1>3. file \in Seq(Character)
  BY DEF TypeOK
<1>4. QED
  BY <1>1, <1>2, <1>3, PieceSays

\* A comment is one line more.
LEMMA CommentSays ==
  ASSUME TypeOK, Advance, LinesFit(file), AtLineEnd(file, CharsRead),
         domain # << >>, domain[1] = "#"
  PROVE  \E e : /\ e \notin Seen
                /\ NonBlank(file, Seen') = NonBlank(file, Seen) \cup {e}
                /\ Comments(file, Seen') = Comments(file, Seen) \cup {e}
                /\ Names(file, Seen') = Names(file, Seen)
<1>1. PICK e : /\ e \notin Seen
               /\ NonBlank(file, Seen') = NonBlank(file, Seen) \cup {e}
               /\ domain[1] = "#" =>
                    /\ Comments(file, Seen') = Comments(file, Seen) \cup {e}
                    /\ Names(file, Seen') = Names(file, Seen)
               /\ domain[1] # "#" =>
                    /\ Comments(file, Seen') = Comments(file, Seen)
                    /\ Names(file, Seen') =
                         Names(file, Seen) \cup ({LabelsOfText(domain)} \ {Failed})
  BY TurnSays, Zenon
<1>2. QED
  BY <1>1

\* So is a line with a name, or with what is no name.
LEMMA NameSays ==
  ASSUME TypeOK, Advance, LinesFit(file), AtLineEnd(file, CharsRead),
         domain # << >>, domain[1] # "#"
  PROVE  \E e : /\ e \notin Seen
                /\ NonBlank(file, Seen') = NonBlank(file, Seen) \cup {e}
                /\ Comments(file, Seen') = Comments(file, Seen)
                /\ Names(file, Seen') =
                     Names(file, Seen) \cup ({LabelsOfText(domain)} \ {Failed})
<1>1. PICK e : /\ e \notin Seen
               /\ NonBlank(file, Seen') = NonBlank(file, Seen) \cup {e}
               /\ domain[1] = "#" =>
                    /\ Comments(file, Seen') = Comments(file, Seen) \cup {e}
                    /\ Names(file, Seen') = Names(file, Seen)
               /\ domain[1] # "#" =>
                    /\ Comments(file, Seen') = Comments(file, Seen)
                    /\ Names(file, Seen') =
                         Names(file, Seen) \cup ({LabelsOfText(domain)} \ {Failed})
  BY TurnSays, Zenon
<1>2. QED
  BY <1>1

\* A turn of the loop keeps the types.
LEMMA TurnKeepsTypes ==
  ASSUME TypeOK, IsFiniteSet(list), Advance,
         \/ list' = list
         \/ LabelsOfText(domain) # Failed /\ list' = list \cup {LabelsOfText(domain)},
         domains_loaded' \in Nat, lines_ignored' \in Nat, lost' \in BOOLEAN
  PROVE  TypeOK' /\ IsFiniteSet(list')
<1>1. /\ domain \in Seq(Character) /\ file' = file
      /\ CharsRead' \in (CharsRead + 1)..Len(file) /\ CharsRead \in 0..(Len(file) - 1)
      /\ rest' = SubSeq(file, CharsRead' + 1, Len(file))
  BY TurnReads
<1>2. CharsRead' \in 0..Len(file)
  BY <1>1, ReadSoFar
<1>3. \E k \in 0..Len(file') : rest' = SubSeq(file', k + 1, Len(file'))
  BY <1>1, <1>2
<1>4. lpc' = "read" /\ file' \in Seq(Character)
  BY <1>1 DEF Advance, TypeOK
<1>5. LabelsOfText(domain) # Failed => LabelsOfText(domain) \in Seq(Seq(Character))
  BY <1>1, AcceptedNames, LettersAreCharacters
<1>6. \A labels \in list' : labels # Failed /\ labels \in Seq(Seq(Character))
  BY <1>5 DEF TypeOK
<1>7. IsFiniteSet(list')
  BY FS_AddElement
<1>8. TypeOK'
  BY <1>3, <1>4, <1>6 DEF TypeOK
<1>9. QED
  BY <1>7, <1>8

\* The two ways of saying that no line is too long.
LEMMA FitsIs == EveryLineFits <=> LinesFit(file)
BY DEF EveryLineFits, LinesFit, LineEnds

\* Initially nothing has been read and nothing listed.
LEMMA LoaderInit == Init => IInv
<1> SUFFICES ASSUME Init
             PROVE  IInv
  OBVIOUS
<1>1. file \in Seq(Character) /\ rest = file /\ Len(file) \in Nat
  BY FileType DEF Init
<1>2. file = SubSeq(file, 0 + 1, Len(file))
  BY <1>1, SubSeqFull
<1>3. list = {} /\ IsFiniteSet(list) /\ Cardinality(list) = 0
  BY FS_EmptySet DEF Init
<1>4. TypeOK
  <2>1. \E k \in 0..Len(file) : rest = SubSeq(file, k + 1, Len(file))
    BY <1>1, <1>2
  <2>2. lpc = "start" /\ domains_loaded = 0 /\ lines_ignored = 0 /\ lost = FALSE
    BY DEF Init
  <2>3. QED
    BY <1>1, <1>3, <2>1, <2>2 DEF TypeOK
<1>5. CharsRead = 0
  BY <1>1 DEF CharsRead
<1>6. \A e \in Seen : IsBlank(Meaning(file, e))
  <2> SUFFICES ASSUME NEW e \in Seen
               PROVE  IsBlank(Meaning(file, e))
    OBVIOUS
  <2>1. e \in LineEnds(file) /\ e <= 0 + 1
    BY <1>5 DEF Seen, LinesIn
  <2>2. e = 1
    BY <1>1, <2>1, LineEndsAre
  <2>3. QED
    BY <1>1, <2>1, <2>2, FirstIsBlank
<1>7. NonBlank(file, Seen) = {} /\ Comments(file, Seen) = {} /\ Names(file, Seen) = {}
  <2>1. Seen \subseteq LineEnds(file)
    BY DEF Seen, LinesIn
  <2>2. /\ NonBlank(file, Seen) = NonBlank(file, {})
        /\ Comments(file, Seen) = Comments(file, {})
        /\ Names(file, Seen) = Names(file, {})
    BY <1>1, <1>6, <2>1, BlankLinesAddNothing
  <2>3. NonBlank(file, {}) = {} /\ Comments(file, {}) = {} /\ Names(file, {}) = {}
    BY DEF NonBlank, Comments, Names
  <2>4. QED
    BY <2>2, <2>3
<1>8. Accounts
  <2>1. Cardinality({}) = 0
    BY FS_EmptySet
  <2>2. domains_loaded = 0 /\ lines_ignored = 0
    BY DEF Init
  <2>3. QED
    BY <1>3, <1>7, <2>1, <2>2 DEF Accounts
<1>9. ListSoFar
  BY <1>3, <1>7 DEF ListSoFar
<1>10. AtLineEnd(file, CharsRead)
  BY <1>5 DEF AtLineEnd
<1>11. QED
  BY <1>3, <1>4, <1>8, <1>9, <1>10 DEF IInv

\* A blank line changes nothing.
LEMMA SkipBlankKeepsInvariant == IInv /\ SkipBlank => IInv'
<1> SUFFICES ASSUME IInv, SkipBlank
             PROVE  IInv'
  OBVIOUS
<1>1. /\ Advance /\ domain = << >> /\ TypeOK /\ IsFiniteSet(list)
      /\ list' = list /\ domains_loaded' = domains_loaded
      /\ lines_ignored' = lines_ignored /\ lost' = lost
  BY DEF SkipBlank, IInv
<1>2. TypeOK' /\ IsFiniteSet(list')
  <2>1. domains_loaded' \in Nat /\ lines_ignored' \in Nat
    BY <1>1 DEF TypeOK
  <2>2. lost' \in BOOLEAN
    BY <1>1 DEF TypeOK
  <2>3. QED
    BY <1>1, <2>1, <2>2, TurnKeepsTypes
<1>3. ASSUME EveryLineFits'
      PROVE  AtLineEnd(file, CharsRead)' /\ Accounts' /\ ListSoFar'
  <2>1. file' = file
    BY <1>1 DEF Advance
  <2>2. LinesFit(file) /\ AtLineEnd(file, CharsRead) /\ Accounts /\ ListSoFar
    BY <1>3, <2>1 DEF IInv, EveryLineFits, LinesFit, LineEnds
  <2>3. /\ AtLineEnd(file, CharsRead')
        /\ NonBlank(file, Seen') = NonBlank(file, Seen)
        /\ Comments(file, Seen') = Comments(file, Seen)
        /\ Names(file, Seen') = Names(file, Seen)
    BY <1>1, <2>2, TurnSays
  <2>4. Accounts'
    BY <1>1, <2>1, <2>2, <2>3 DEF Accounts
  <2>5. ListSoFar'
    BY <1>1, <2>1, <2>2, <2>3 DEF ListSoFar
  <2>6. QED
    BY <2>1, <2>3, <2>4, <2>5
<1>4. QED
  BY <1>2, <1>3 DEF IInv

\* A comment is ignored, and counted.
LEMMA SkipCommentKeepsInvariant == IInv /\ SkipComment => IInv'
<1> SUFFICES ASSUME IInv, SkipComment
             PROVE  IInv'
  OBVIOUS
<1>1. /\ Advance /\ domain # << >> /\ domain[1] = "#" /\ TypeOK /\ IsFiniteSet(list)
      /\ list' = list /\ domains_loaded' = domains_loaded
      /\ lines_ignored' = lines_ignored + 1 /\ lost' = lost
  BY DEF SkipComment, IInv
<1>2. domains_loaded \in Nat /\ lines_ignored \in Nat
  BY <1>1 DEF TypeOK
<1>3. TypeOK' /\ IsFiniteSet(list')
  <2>1. domains_loaded' \in Nat /\ lines_ignored' \in Nat
    BY <1>1, <1>2
  <2>2. lost' \in BOOLEAN
    BY <1>1 DEF TypeOK
  <2>3. QED
    BY <1>1, <2>1, <2>2, TurnKeepsTypes
<1>4. ASSUME EveryLineFits'
      PROVE  AtLineEnd(file, CharsRead)' /\ Accounts' /\ ListSoFar'
  <2>1. file' = file
    BY <1>1 DEF Advance
  <2>2. LinesFit(file) /\ AtLineEnd(file, CharsRead) /\ Accounts /\ ListSoFar
    BY <1>4, <2>1 DEF IInv, EveryLineFits, LinesFit, LineEnds
  <2>3. PICK e : /\ e \notin Seen
                 /\ NonBlank(file, Seen') = NonBlank(file, Seen) \cup {e}
                 /\ Comments(file, Seen') = Comments(file, Seen) \cup {e}
                 /\ Names(file, Seen') = Names(file, Seen)
    BY <1>1, <2>2, CommentSays
  <2>4. AtLineEnd(file, CharsRead')
    BY <1>1, <2>2, TurnSays
  <2>5. Accounts'
    <3>1. /\ Cardinality(NonBlank(file, Seen')) = Cardinality(NonBlank(file, Seen)) + 1
          /\ Cardinality(NonBlank(file, Seen)) \in Nat
      BY <1>1, <2>3, OneMoreLine
    <3>2. /\ Cardinality(Comments(file, Seen')) = Cardinality(Comments(file, Seen)) + 1
          /\ Cardinality(Comments(file, Seen)) \in Nat
      BY <1>1, <2>3, OneMoreLine
    <3>3. domains_loaded' + lines_ignored' = Cardinality(NonBlank(file, Seen'))
      BY <1>1, <1>2, <2>2, <3>1 DEF Accounts
    <3>4. lines_ignored' >= Cardinality(Comments(file, Seen'))
      BY <1>1, <1>2, <2>2, <3>2 DEF Accounts
    <3>5. domains_loaded' >= Cardinality(list')
      BY <1>1, <2>2 DEF Accounts
    <3>6. QED
      BY <2>1, <3>3, <3>4, <3>5 DEF Accounts
  <2>6. ListSoFar'
    BY <1>1, <2>1, <2>2, <2>3 DEF ListSoFar
  <2>7. QED
    BY <2>1, <2>4, <2>5, <2>6
<1>5. QED
  BY <1>3, <1>4 DEF IInv

\* A name is added, and counted.
LEMMA AddDomainKeepsInvariant == IInv /\ AddDomain => IInv'
<1> SUFFICES ASSUME IInv, AddDomain
             PROVE  IInv'
  OBVIOUS
<1> DEFINE labels == LabelsOfText(domain)
<1>1. /\ Advance /\ domain # << >> /\ domain[1] # "#" /\ TypeOK /\ IsFiniteSet(list)
      /\ labels # Failed /\ list' = list \cup {labels}
      /\ domains_loaded' = domains_loaded + 1
      /\ lines_ignored' = lines_ignored /\ lost' = lost
  BY DEF AddDomain, IInv
<1>2. domains_loaded \in Nat /\ lines_ignored \in Nat
  BY <1>1 DEF TypeOK
<1>3. TypeOK' /\ IsFiniteSet(list')
  <2>1. domains_loaded' \in Nat /\ lines_ignored' \in Nat
    BY <1>1, <1>2
  <2>2. lost' \in BOOLEAN
    BY <1>1 DEF TypeOK
  <2>3. QED
    BY <1>1, <2>1, <2>2, TurnKeepsTypes
<1> HIDE DEF labels
<1>4. ASSUME EveryLineFits'
      PROVE  AtLineEnd(file, CharsRead)' /\ Accounts' /\ ListSoFar'
  <2>1. file' = file
    BY <1>1 DEF Advance
  <2>2. LinesFit(file) /\ AtLineEnd(file, CharsRead) /\ Accounts /\ ListSoFar
    BY <1>4, <2>1 DEF IInv, EveryLineFits, LinesFit, LineEnds
  <2>3. PICK e : /\ e \notin Seen
                 /\ NonBlank(file, Seen') = NonBlank(file, Seen) \cup {e}
                 /\ Comments(file, Seen') = Comments(file, Seen)
                 /\ Names(file, Seen') = Names(file, Seen) \cup ({labels} \ {Failed})
    BY <1>1, <2>2, NameSays DEF labels
  <2>4. AtLineEnd(file, CharsRead')
    BY <1>1, <2>2, TurnSays
  <2>5. Accounts'
    <3>1. /\ Cardinality(NonBlank(file, Seen')) = Cardinality(NonBlank(file, Seen)) + 1
          /\ Cardinality(NonBlank(file, Seen)) \in Nat
      BY <1>1, <2>3, OneMoreLine
    <3>2. /\ Cardinality(list \cup {labels}) <= Cardinality(list) + 1
          /\ Cardinality(list) \in Nat /\ Cardinality(list \cup {labels}) \in Nat
      <4>1. /\ IsFiniteSet(list \cup {labels}) /\ Cardinality(list) \in Nat
            /\ \/ Cardinality(list \cup {labels}) = Cardinality(list)
               \/ Cardinality(list \cup {labels}) = Cardinality(list) + 1
        BY <1>1, FS_AddElement, FS_CardinalityType
      <4>2. QED
        BY <4>1
    <3>3. domains_loaded' + lines_ignored' = Cardinality(NonBlank(file, Seen'))
      BY <1>1, <1>2, <2>2, <3>1 DEF Accounts
    <3>4. lines_ignored' >= Cardinality(Comments(file, Seen'))
      BY <1>1, <2>2, <2>3 DEF Accounts
    <3>5. domains_loaded' >= Cardinality(list')
      BY <1>1, <1>2, <2>2, <3>2 DEF Accounts
    <3>6. QED
      BY <2>1, <3>3, <3>4, <3>5 DEF Accounts
  <2>6. ListSoFar'
    <3>1. Names(file, Seen') = Names(file, Seen) \cup {labels}
      BY <1>1, <2>3
    <3>2. QED
      BY <1>1, <2>1, <2>2, <3>1 DEF ListSoFar
  <2>7. QED
    BY <2>1, <2>4, <2>5, <2>6
<1>5. QED
  BY <1>3, <1>4 DEF IInv

\* A line filter_add_domain refuses is ignored, and counted; if it has a name,
\* the name is lost.
LEMMA IgnoreDomainKeepsInvariant == IInv /\ IgnoreDomain => IInv'
<1> SUFFICES ASSUME IInv, IgnoreDomain
             PROVE  IInv'
  OBVIOUS
<1> DEFINE labels == LabelsOfText(domain)
<1>1. /\ Advance /\ domain # << >> /\ domain[1] # "#" /\ TypeOK /\ IsFiniteSet(list)
      /\ list' = list /\ domains_loaded' = domains_loaded
      /\ lines_ignored' = lines_ignored + 1
  BY DEF IgnoreDomain, IInv
<1>2. lost' = (lost \/ labels # Failed)
  BY DEF IgnoreDomain
<1>3. domains_loaded \in Nat /\ lines_ignored \in Nat
  BY <1>1 DEF TypeOK
<1>4. TypeOK' /\ IsFiniteSet(list')
  <2>1. domains_loaded' \in Nat /\ lines_ignored' \in Nat
    BY <1>1, <1>3
  <2>2. lost' \in BOOLEAN
    BY <1>2
  <2>3. QED
    BY <1>1, <2>1, <2>2, TurnKeepsTypes
<1> HIDE DEF labels
<1>5. ASSUME EveryLineFits'
      PROVE  AtLineEnd(file, CharsRead)' /\ Accounts' /\ ListSoFar'
  <2>1. file' = file
    BY <1>1 DEF Advance
  <2>2. LinesFit(file) /\ AtLineEnd(file, CharsRead) /\ Accounts /\ ListSoFar
    BY <1>5, <2>1 DEF IInv, EveryLineFits, LinesFit, LineEnds
  <2>3. PICK e : /\ e \notin Seen
                 /\ NonBlank(file, Seen') = NonBlank(file, Seen) \cup {e}
                 /\ Comments(file, Seen') = Comments(file, Seen)
                 /\ Names(file, Seen') = Names(file, Seen) \cup ({labels} \ {Failed})
    BY <1>1, <2>2, NameSays DEF labels
  <2>4. AtLineEnd(file, CharsRead')
    BY <1>1, <2>2, TurnSays
  <2>5. Accounts'
    <3>1. /\ Cardinality(NonBlank(file, Seen')) = Cardinality(NonBlank(file, Seen)) + 1
          /\ Cardinality(NonBlank(file, Seen)) \in Nat
      BY <1>1, <2>3, OneMoreLine
    <3>2. Cardinality(Comments(file, Seen)) \in Nat
      BY <1>1, SeenIsFinite, FS_CardinalityType DEF TypeOK, Seen
    <3>3. domains_loaded' + lines_ignored' = Cardinality(NonBlank(file, Seen'))
      BY <1>1, <1>3, <2>2, <3>1 DEF Accounts
    <3>4. lines_ignored' >= Cardinality(Comments(file, Seen'))
      BY <1>1, <1>3, <2>2, <2>3, <3>2 DEF Accounts
    <3>5. domains_loaded' >= Cardinality(list')
      BY <1>1, <2>2 DEF Accounts
    <3>6. QED
      BY <2>1, <3>3, <3>4, <3>5 DEF Accounts
  <2>6. ListSoFar'
    <3>1. list' \subseteq Names(file, Seen')
      BY <1>1, <2>2, <2>3 DEF ListSoFar
    <3>2. ASSUME ~lost'
          PROVE  list' = Names(file, Seen')
      <4>1. ~lost /\ labels = Failed
        BY <1>2, <3>2
      <4>2. Names(file, Seen') = Names(file, Seen)
        BY <2>3, <4>1
      <4>3. QED
        BY <1>1, <2>2, <4>1, <4>2 DEF ListSoFar
    <3>3. QED
      BY <2>1, <3>1, <3>2 DEF ListSoFar
  <2>7. QED
    BY <2>1, <2>4, <2>5, <2>6
<1>6. QED
  BY <1>4, <1>5 DEF IInv

\* Nothing but the loop touches the list, the counts and the rest of the file.
LEMMA RestKeepsInvariant ==
  ASSUME IInv, lpc' \in {"start", "opened", "read", "loaded", "failed"},
         UNCHANGED <<file, rest, list, domains_loaded, lines_ignored, lost>>
  PROVE  IInv'
<1>1. TypeOK'
  BY DEF IInv, TypeOK
<1>2. IsFiniteSet(list') /\ CharsRead' = CharsRead /\ Seen' = Seen
  BY DEF IInv, CharsRead, Seen
<1>3. EveryLineFits' => AtLineEnd(file, CharsRead)' /\ Accounts' /\ ListSoFar'
  BY <1>2 DEF IInv, EveryLineFits, Accounts, ListSoFar
<1>4. QED
  BY <1>1, <1>2, <1>3 DEF IInv

\* For every file and every buffer: the pieces fgets returns follow the lines.
THEOREM LoaderInvariant == Spec => []IInv
<1>1. Init => IInv
  BY LoaderInit
<1>2. IInv /\ [Next]_vars => IInv'
  <2> SUFFICES ASSUME IInv, [Next]_vars
               PROVE  IInv'
    OBVIOUS
  <2>1. CASE fopen \/ CreateRoot \/ EndOfFile \/ ReadError
    BY <2>1, RestKeepsInvariant DEF fopen, CreateRoot, EndOfFile, ReadError
  <2>2. CASE SkipBlank
    BY <2>2, SkipBlankKeepsInvariant
  <2>3. CASE SkipComment
    BY <2>3, SkipCommentKeepsInvariant
  <2>4. CASE AddDomain
    BY <2>4, AddDomainKeepsInvariant
  <2>5. CASE IgnoreDomain
    BY <2>5, IgnoreDomainKeepsInvariant
  <2>6. CASE UNCHANGED vars
    <3>1. lpc \in {"start", "opened", "read", "loaded", "failed"}
      BY DEF IInv, TypeOK
    <3>2. QED
      BY <2>6, <3>1, RestKeepsInvariant DEF vars
  <2>7. CASE Terminated
    BY <2>6, <2>7 DEF Terminated
  <2>8. QED
    BY <2>1, <2>2, <2>3, <2>4, <2>5, <2>6, <2>7 DEF Next
<1>3. QED
  BY <1>1, <1>2, PTL DEF Spec

\* The loader's state has its types; what it lists are labels of texts.
THEOREM LoaderTypeCorrect == Spec => []TypeOK
<1>1. IInv => TypeOK
  BY DEF IInv
<1>2. QED
  BY <1>1, LoaderInvariant, PTL

-----------------------------------------------------------------------------
(* What the invariant says at the end. *)

\* More lines list more names.
LEMMA NamesGrow ==
  ASSUME NEW text, NEW some, NEW more, some \subseteq more
  PROVE  Names(text, some) \subseteq Names(text, more)
BY DEF Names

\* The names a file lists, in the words of the invariant.
LEMMA ListedIs ==
  ASSUME file \in Seq(Character)
  PROVE  Listed({"\n"}) = Names(file, LineEnds(file))
<1> DEFINE lines == LinesOf(file, {"\n"})
<1>1. DOMAIN lines = LineEnds(file) /\ \A e \in LineEnds(file) : lines[e] = Meaning(file, e)
  BY DEF LinesOf, Meaning, LineEnds
<1>2. Listed({"\n"}) =
        {LabelsOfText(lines[e]) : e \in {i \in DOMAIN lines : ~IsComment(lines[i])}} \ {Failed}
  BY DEF Listed
<1> HIDE DEF lines
<1>3. {i \in DOMAIN lines : ~IsComment(lines[i])} =
        {i \in LineEnds(file) : ~IsComment(Meaning(file, i))}
  BY <1>1
<1>4. {LabelsOfText(lines[e]) : e \in {i \in DOMAIN lines : ~IsComment(lines[i])}} =
        {LabelsOfText(Meaning(file, e)) :
           e \in {i \in LineEnds(file) : ~IsComment(Meaning(file, i))}}
  BY <1>1, <1>3
<1>5. QED
  BY <1>2, <1>4 DEF Names

\* For every file, every length of names and every buffer that holds the lines:
\* the list the program works with blocks the names on the lines of the file,
\* and only they are missing that memory or an error of reading took.
THEOREM LoadedListIsFile == Spec => []ListIsFile
<1>1. IInv => ListIsFile
  <2> SUFFICES ASSUME IInv, EveryLineFits
               PROVE  IF lost \/ rest # << >> THEN list \subseteq Listed({"\n"})
                                             ELSE list = Listed({"\n"})
    BY DEF ListIsFile
  <2>1. TypeOK /\ ListSoFar
    BY DEF IInv
  <2>2. Listed({"\n"}) = Names(file, LineEnds(file))
    BY <2>1, ListedIs DEF TypeOK
  <2>3. Seen \subseteq LineEnds(file)
    BY DEF Seen, LinesIn
  <2>4. list \subseteq Listed({"\n"})
    BY <2>1, <2>2, <2>3, NamesGrow DEF ListSoFar
  <2>5. ASSUME ~lost, rest = << >>
        PROVE  list = Listed({"\n"})
    <3>1. CharsRead = Len(file) /\ file \in Seq(Character)
      BY <2>1, <2>5, ReadSoFar
    <3>2. \A e \in LineEnds(file) : e <= Len(file) + 1
      BY <3>1, LineEndsAre
    <3>3. Seen = LineEnds(file)
      BY <3>1, <3>2 DEF Seen, LinesIn
    <3>4. QED
      BY <2>1, <2>2, <2>5, <3>3 DEF ListSoFar
  <2>6. QED
    BY <2>4, <2>5
<1>2. QED
  BY <1>1, LoaderInvariant, PTL

\* The lines of a part of a text that ends with a line are lines of the text.
LEMMA LinesOfPrefix ==
  ASSUME NEW C, NEW text \in Seq(C), NEW k \in 0..Len(text), AtLineEnd(text, k),
         NEW p, p = SubSeq(text, 1, k)
  PROVE  /\ p \in Seq(C)
         /\ NonBlank(p, LineEnds(p)) = NonBlank(text, LinesIn(text, k))
         /\ Comments(p, LineEnds(p)) = Comments(text, LinesIn(text, k))
<1> DEFINE pends == LineEnds(p)
           ends == LineEnds(text)
           both == LinesIn(text, k) \cap pends
<1>1. Len(text) \in Nat /\ k \in Int /\ 0 <= k /\ k <= Len(text)
  OBVIOUS
<1>2. p \in Seq(C) /\ Len(p) = k /\ \A i \in 1..k : p[i] = text[i]
  <2>1. k \in 0..Len(text) /\ 0 \in 0..Len(text) /\ k \in 0..Len(text)
    BY <1>1
  <2>2. /\ SubSeq(text, 0 + 1, k) \in Seq(C) /\ Len(SubSeq(text, 0 + 1, k)) = k - 0
        /\ \A i \in 1..(k - 0) : SubSeq(text, 0 + 1, k)[i] = text[0 + i]
    BY <2>1, PartIs
  <2>3. k - 0 = k /\ 0 + 1 = 1 /\ \A i \in 1..k : 0 + i = i
    BY <1>1
  <2>4. QED
    BY <2>2, <2>3
<1>3. /\ \A e : e \in ends <=> (e \in 1..Len(text) /\ text[e] = "\n") \/ e = Len(text) + 1
      /\ ends \subseteq 1..(Len(text) + 1)
  BY LineEndsAre
<1>4. /\ \A e : e \in pends <=> (e \in 1..k /\ p[e] = "\n") \/ e = k + 1
      /\ pends \subseteq 1..(k + 1)
  BY <1>2, LineEndsAre
<1> HIDE DEF pends, ends
<1>5. \A e \in 1..k : e \in ends <=> e \in pends
  <2> TAKE e \in 1..k
  <2>1. e \in 1..Len(text) /\ e # Len(text) + 1 /\ e # k + 1
    BY <1>1
  <2>2. QED
    BY <1>2, <1>3, <1>4, <2>1
<1>6. LinesIn(text, k) = {e \in ends : e <= k + 1}
  BY DEF LinesIn, ends
<1>7. \A e \in LinesIn(text, k) : e \in 1..k \/ e = k + 1
  BY <1>1, <1>3, <1>6
<1>8. LinesIn(text, k) \subseteq pends
  BY <1>4, <1>5, <1>6, <1>7
<1>9. \A e \in pends \ LinesIn(text, k) : e = k + 1 /\ k + 1 \notin ends
  <2> SUFFICES ASSUME NEW e \in pends, e \notin LinesIn(text, k)
               PROVE  e = k + 1 /\ k + 1 \notin ends
    OBVIOUS
  <2>1. e \in 1..k \/ e = k + 1
    BY <1>1, <1>4
  <2>2. \A i \in 1..k : i <= k + 1
    BY <1>1
  <2>3. e \notin 1..k
    BY <1>5, <1>6, <2>2
  <2>4. k + 1 <= k + 1
    BY <1>1
  <2>5. QED
    BY <1>6, <2>1, <2>3, <2>4
<1>10. \A e \in pends \ LinesIn(text, k) : IsBlank(Meaning(p, e))
  <2> SUFFICES ASSUME NEW e \in pends, e = k + 1, k + 1 \notin ends
               PROVE  IsBlank(Meaning(p, e))
    BY <1>9
  <2>1. k = 0 \/ k \in ends
    BY DEF AtLineEnd, ends
  <2>2. CASE k = 0
    <3>1. e = 1 /\ 1 \in LineEnds(p)
      BY <2>2 DEF pends
    <3>2. IsBlank(Meaning(p, 1))
      BY <1>2, <3>1, FirstIsBlank
    <3>3. QED
      BY <3>1, <3>2
  <2>3. CASE k \in ends
    <3>1. k \in 1..k /\ e - 1 = k
      BY <1>1, <1>3, <2>3
    <3>2. k \in pends
      BY <1>5, <2>3, <3>1
    <3>3. QED
      BY <1>2, <3>1, <3>2, AdjacentEnds DEF pends
  <2>4. QED
    BY <2>1, <2>2, <2>3
<1>11. \A e \in LinesIn(text, k) : Meaning(p, e) = Meaning(text, e)
  <2> SUFFICES ASSUME NEW e \in LinesIn(text, k)
               PROVE  Meaning(p, e) = Meaning(text, e)
    OBVIOUS
  <2>1. e \in ends /\ e \in pends /\ e \in Int /\ 1 <= e /\ e <= k + 1
    BY <1>1, <1>3, <1>6, <1>8
  <2>2. PICK b \in 0..(e - 1) : /\ Line(text, ends, e) = SubSeq(text, b + 1, e - 1)
                                /\ b = 0 \/ b \in ends
                                /\ \A t \in ends : t < e => t <= b
    BY <2>1, LineIs DEF LineEnds, ends
  <2>3. PICK c \in 0..(e - 1) : /\ Line(p, pends, e) = SubSeq(p, c + 1, e - 1)
                                /\ c = 0 \/ c \in pends
                                /\ \A t \in pends : t < e => t <= c
    BY <1>2, <2>1, LineIs DEF LineEnds, pends
  <2>4. /\ b \in Int /\ 0 <= b /\ b < e /\ c \in Int /\ 0 <= c /\ c < e
    BY <2>1
  <2>5. b <= c
    <3>1. CASE b = 0
      BY <2>4, <3>1
    <3>2. CASE b # 0
      <4>1. b \in 1..k
        BY <1>1, <2>1, <2>4, <3>2
      <4>2. b \in pends
        BY <1>5, <2>2, <3>2, <4>1
      <4>3. QED
        BY <2>3, <2>4, <4>2
    <3>3. QED
      BY <3>1, <3>2
  <2>6. c <= b
    <3>1. CASE c = 0
      BY <2>4, <3>1
    <3>2. CASE c # 0
      <4>1. c \in 1..k
        BY <1>1, <2>1, <2>4, <3>2
      <4>2. c \in ends
        BY <1>5, <2>3, <3>2, <4>1
      <4>3. QED
        BY <2>2, <2>4, <4>2
    <3>3. QED
      BY <3>1, <3>2
  <2>7. b = c
    BY <2>4, <2>5, <2>6
  <2> DEFINE x == SubSeq(text, b + 1, e - 1)
             y == SubSeq(p, b + 1, e - 1)
  <2>8. x \in Seq(C) /\ Len(x) = e - 1 - b /\ \A i \in 1..(e - 1 - b) : x[i] = text[b + i]
    <3>1. b \in 0..Len(text) /\ e - 1 \in b..Len(text)
      BY <1>1, <2>1, <2>4
    <3>2. QED
      BY <3>1, PartIs
  <2>9. y \in Seq(C) /\ Len(y) = e - 1 - b /\ \A i \in 1..(e - 1 - b) : y[i] = p[b + i]
    <3>1. b \in 0..Len(p) /\ e - 1 \in b..Len(p)
      BY <1>1, <1>2, <2>1, <2>4
    <3>2. QED
      BY <1>2, <3>1, PartIs
  <2>10. \A i \in 1..(e - 1 - b) : b + i \in 1..k
    BY <1>1, <2>1, <2>4
  <2> HIDE DEF x, y
  <2>11. x = y
    BY <1>2, <2>8, <2>9, <2>10, SeqEqual
  <2>12. Line(text, ends, e) = Line(p, pends, e)
    BY <2>2, <2>3, <2>7, <2>11 DEF x, y
  <2>13. QED
    BY <2>12 DEF Meaning, ends, pends
<1>12. /\ NonBlank(p, pends) = NonBlank(p, LinesIn(text, k))
       /\ Comments(p, pends) = Comments(p, LinesIn(text, k))
  BY <1>2, <1>8, <1>10, BlankLinesAddNothing DEF pends
<1>13. /\ NonBlank(p, LinesIn(text, k)) = NonBlank(text, LinesIn(text, k))
       /\ Comments(p, LinesIn(text, k)) = Comments(text, LinesIn(text, k))
  BY <1>11 DEF NonBlank, Comments
<1>14. QED
  BY <1>2, <1>12, <1>13 DEF pends

\* For every file, every length of names and every buffer that holds the lines:
\* what is reported as loaded and ignored accounts for the lines that were read.
THEOREM LoadedCountsCoverLines == Spec => []CountsCoverLines
<1>1. IInv => CountsCoverLines
  <2> SUFFICES ASSUME IInv, EveryLineFits
               PROVE  LET lines == LinesOf(SubSeq(file, 1, Len(file) - Len(rest)), {"\n"})
                      IN  /\ domains_loaded + lines_ignored =
                               Cardinality({e \in DOMAIN lines : ~IsBlank(lines[e])})
                          /\ domains_loaded >= Cardinality(list)
                          /\ lines_ignored >=
                               Cardinality({e \in DOMAIN lines : IsComment(lines[e])})
    BY DEF CountsCoverLines
  <2> DEFINE p == SubSeq(file, 1, Len(file) - Len(rest))
             lines == LinesOf(p, {"\n"})
  <2>1. TypeOK /\ AtLineEnd(file, CharsRead) /\ Accounts
    BY DEF IInv
  <2>2. p = SubSeq(file, 1, CharsRead)
    BY DEF CharsRead
  <2>3. DOMAIN lines = LineEnds(p) /\ \A e \in LineEnds(p) : lines[e] = Meaning(p, e)
    BY DEF LinesOf, Meaning, LineEnds
  <2> HIDE DEF p, lines
  <2>4. file \in Seq(Character) /\ CharsRead \in 0..Len(file)
    BY <2>1, ReadSoFar
  <2>5. /\ NonBlank(p, LineEnds(p)) = NonBlank(file, Seen)
        /\ Comments(p, LineEnds(p)) = Comments(file, Seen)
    BY <2>1, <2>2, <2>4, LinesOfPrefix DEF Seen
  <2>6. /\ {e \in DOMAIN lines : ~IsBlank(lines[e])} = NonBlank(p, LineEnds(p))
        /\ {e \in DOMAIN lines : IsComment(lines[e])} = Comments(p, LineEnds(p))
    BY <2>3 DEF NonBlank, Comments
  <2>7. /\ domains_loaded + lines_ignored =
             Cardinality({e \in DOMAIN lines : ~IsBlank(lines[e])})
        /\ domains_loaded >= Cardinality(list)
        /\ lines_ignored >= Cardinality({e \in DOMAIN lines : IsComment(lines[e])})
    BY <2>1, <2>5, <2>6 DEF Accounts
  <2>8. QED
    BY <2>7 DEF p, lines
<1>2. QED
  BY <1>1, LoaderInvariant, PTL
=============================================================================
