----------------------------- MODULE DomainName -----------------------------
(***************************************************************************)
(* The text of a domain name and the two conversions filter.c applies to   *)
(* it before it touches the trie: normalize_domain and                     *)
(* split_domain_labels.  A name is a sequence of characters, a character   *)
(* a one-letter string.  The code's error return -1 is the empty sequence, *)
(* which is never a successful result of either function.                  *)
(***************************************************************************)
EXTENDS Integers, Sequences, FiniteSets

CONSTANTS DNS_MAX_NAME_LEN,    \* dns.h: longest name the buffers hold
          DNS_MAX_LABEL_LEN    \* dns.h: longest label

ASSUME NameLimits == /\ DNS_MAX_NAME_LEN \in Nat \ {0}
                     /\ DNS_MAX_LABEL_LEN \in Nat \ {0}

Failed == << >>

\* The C library's character classes on the alphabet the model uses.
isspace(c) == c \in {" ", "\t", "\r", "\n", "\f"}

LowerCase == [A |-> "a", B |-> "b"]

tolower(c) == IF c \in DOMAIN LowerCase THEN LowerCase[c] ELSE c

\* The characters that are no blanks: the k-th is the one with k up to it.
Visible(text) ==
  LET solid  == {i \in DOMAIN text : ~isspace(text[i])}
      Nth(k) == CHOOSE i \in solid : Cardinality({j \in solid : j <= i}) = k
  IN  [k \in 1..Cardinality(solid) |-> text[Nth(k)]]

\* The copy loop stops once len - 1 characters are written; whatever is left
\* over then, a blank included, makes the name too long.
Overflows(domain, len) ==
  \E k \in 0..(Len(domain) - 1) :
    Cardinality({i \in 1..k : ~isspace(domain[i])}) >= len - 1

\* The copy: blanks are dropped wherever they are, letters lowered.
Written(domain) ==
  LET visible == Visible(domain)
  IN  [i \in DOMAIN visible |-> tolower(visible[i])]

\* Trailing dots are cut; a leading dot or two dots in a row make the name
\* invalid.
WithoutTrailingDots(written) ==
  LET solid  == {i \in DOMAIN written : written[i] # "."}
      end    == CHOOSE i \in solid : \A j \in solid : j <= i
      kept   == SubSeq(written, 1, end)
      EmptyLabel == \/ kept[1] = "."
                    \/ \E j \in 1..(end - 1) : kept[j] = "." /\ kept[j + 1] = "."
  IN  IF solid = {} \/ EmptyLabel THEN Failed ELSE kept

normalize_domain(domain, len) ==
  IF Overflows(domain, len) THEN Failed ELSE WithoutTrailingDots(Written(domain))

\* Mutant: the labels in the order they are written.
split_domain_labels_Unreversed(name) ==
  LET dots     == {i \in DOMAIN name : name[i] = "."}
      ends     == dots \cup {Len(name) + 1}
      End(k)   == CHOOSE e \in ends : Cardinality({d \in ends : d <= e}) = k
      Start(k) == 1 + CHOOSE s \in dots \cup {0} :
                        /\ s < End(k)
                        /\ \A d \in dots : d < End(k) => d <= s
      labels   == [k \in 1..Cardinality(ends) |->
                     SubSeq(name, Start(k), End(k) - 1)]
  IN  IF \E k \in DOMAIN labels : Len(labels[k]) \notin 1..DNS_MAX_LABEL_LEN
      THEN Failed
      ELSE labels

\* The labels from the last to the first, "ads.google.com" giving
\* com, google, ads: label k ends before the k-th end counted from the right.
split_domain_labels(name) ==
  LET dots     == {i \in DOMAIN name : name[i] = "."}
      ends     == dots \cup {Len(name) + 1}
      End(k)   == CHOOSE e \in ends : Cardinality({d \in ends : d >= e}) = k
      Start(k) == 1 + CHOOSE s \in dots \cup {0} :
                        /\ s < End(k)
                        /\ \A d \in dots : d < End(k) => d <= s
      labels   == [k \in 1..Cardinality(ends) |->
                     SubSeq(name, Start(k), End(k) - 1)]
  IN  IF \E k \in DOMAIN labels : Len(labels[k]) \notin 1..DNS_MAX_LABEL_LEN
      THEN Failed
      ELSE labels

\* What filter_add_domain and is_domain_blocked do with their argument.
LabelsOfText(domain) ==
  LET name == normalize_domain(domain, DNS_MAX_NAME_LEN + 1)
  IN  IF name = Failed THEN Failed ELSE split_domain_labels(name)
=============================================================================
