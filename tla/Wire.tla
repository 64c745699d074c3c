-------------------------------- MODULE Wire --------------------------------
(***************************************************************************)
(* What a datagram says, by the rules of the wire format and not by what   *)
(* dns_parser.c does with it: its names, the end of each, its questions;   *)
(* and what the code is held to, stated on that.                           *)
(***************************************************************************)
EXTENDS Datagram

CONSTANT Bad  \* no name, no questions

ASSUME BadIsNone == Bad \notin Seq(Seq(Octet))

Prepend(front, rest) == IF rest = Bad THEN Bad ELSE front \o rest

IsEnd(p, i) == i < Len(p) /\ p[i + 1] = 0
IsLabel(p, i) == i < Len(p) /\ p[i + 1] \in 1..DNS_MAX_LABEL_LEN /\ i + 1 + p[i + 1] <= Len(p)
LabelOf(p, i) == SubSeq(p, i + 2, i + 1 + p[i + 1])
PointsTo(p, i) == 256 * (p[i + 1] - 192) + p[i + 2]
\* Pointers lead backwards.
IsPointer(p, i) == i + 1 < Len(p) /\ p[i + 1] >= 192 /\ PointsTo(p, i) < i

\* The labels of the name at place i, given those of all names behind labels
\* and behind pointers.
LabelTurn(p, jump, from, i) ==
  CASE IsEnd(p, i)     -> << >>
    [] IsLabel(p, i)   -> Prepend(<<LabelOf(p, i)>>, from[i + 1 + p[i + 1]])
    [] IsPointer(p, i) -> jump[PointsTo(p, i)]
    [] OTHER           -> Bad

LabelsFrom(p, jump) == LET from[i \in Nat] == LabelTurn(p, jump, from, i) IN from

\* The labels of the name at i, with at most n pointers.
LabelsAt(p, i, n) ==
  LET with[k \in 0..MAX_COMPRESSION_JUMPS] ==
        LabelsFrom(p, IF k = 0 THEN [to \in Nat |-> Bad] ELSE with[k - 1])
  IN  with[n][i]

\* Where the name at i ends in place: after its NUL or its first pointer.
EndOfName(p, i) ==
  LET end[j \in Nat] ==
        IF j >= Len(p) THEN j
        ELSE IF p[j + 1] = 0 THEN j + 1
        ELSE IF p[j + 1] >= 192 THEN j + 2
        ELSE end[j + 1 + p[j + 1]]
  IN  end[i]

\* Each label with a dot behind it.
Dotted(labels) ==
  LET upTo[k \in 0..Len(labels)] ==
        IF k = 0 THEN << >> ELSE upTo[k - 1] \o labels[k] \o <<Dot>>
  IN  upTo[Len(labels)]

NameAt(p, i) == LabelsAt(p, i, MAX_COMPRESSION_JUMPS)

GoodName(p, i) == NameAt(p, i) # Bad /\ Len(Dotted(NameAt(p, i))) <= DNS_MAX_NAME_LEN

Front1(text) == IF text = << >> THEN text ELSE SubSeq(text, 1, Len(text) - 1)

\* The name at i as a C string.
CName(p, i) == strdup(Front1(Dotted(NameAt(p, i))))

MaxCount == 65535

Count == 0..MaxCount

\* The names, as C strings, of the n questions that start at i, or Bad.
Names(p, i, n) ==
  LET names[k \in Count] ==
        [j \in Nat |->
           IF k = 0 THEN << >>
           ELSE IF ~GoodName(p, j) \/ EndOfName(p, j) + 4 > Len(p) THEN Bad
           ELSE Prepend(<<CName(p, j)>>, names[k - 1][EndOfName(p, j) + 4])]
  IN  names[n][i]

\* The number at byte i, counted from 0.
Field(p, i) == 256 * p[i + 1] + p[i + 2]

-----------------------------------------------------------------------------
\* parse_dns_message accepts exactly the datagrams with a complete header and
\* the announced number of complete questions, and hands out their names.
AcceptsExactlyWellFormed ==
  LET names == Names(packet, DNS_HEADER_SIZE, qdcount)
  IN  outcome = "pending" =>
        /\ ppc = "ok" => names = [k \in DOMAIN questions |-> questions[k].qname]
        /\ ppc = "fail" => len < DNS_HEADER_SIZE \/ names = Bad

\* An error response carries the query's ID and RD, as many announced
\* questions as the query, and the first of them whole.  It can be read by the
\* rules of parse_dns_message exactly when that is all the questions there
\* are: a query with two gets a reply that announces two and carries one.
\* Only a first name with a pointer or a datagram without a question gets none.
ReplyCarriesQuestion ==
  LET at == EndOfName(packet, DNS_HEADER_SIZE)
  IN  /\ outcome = "error" =>
           /\ SubSeq(response, 1, 3) = <<packet[1], packet[2], 128 + (packet[3] % 2)>>
           /\ SubSeq(response, 5, 12) = SubSeq(packet, 5, 6) \o <<0, 0, 0, 0, 0, 0>>
           /\ qdcount > 0 =>
                /\ Names(response, DNS_HEADER_SIZE, 1) = <<questions[1].qname>>
                /\ Len(response) = at + 4
                /\ Field(response, at) = questions[1].qtype
                /\ Field(response, at + 2) = questions[1].qclass
                /\ Names(response, DNS_HEADER_SIZE, qdcount) # Bad <=> qdcount = 1
      /\ outcome = "dropped" /\ ppc = "ok" /\ caller = "run_server" /\ qdcount > 0 =>
           LabelsAt(packet, DNS_HEADER_SIZE, 0) = Bad

Ordinary(label) ==
  \A i \in DOMAIN label :
    label[i] # 0 /\ Char[label[i]] # "." /\ ~N!isspace(Char[label[i]])

\* A listed name is the name on the wire or one of its parents.
OnList(labels) ==
  \E b \in Blocked :
    /\ Len(b) <= Len(labels)
    /\ \A k \in DOMAIN b :
         b[k] = [i \in DOMAIN b[k] |-> N!tolower(Text(labels[Len(labels) + 1 - k])[i])]
         /\ Len(b[k]) = Len(labels[Len(labels) + 1 - k])

\* What the client put on the wire decides, whatever else is in the datagram,
\* however its first name is written and wherever recvfrom cuts it: a query of
\* another type gets NOTIMPL, one for a listed name or a name below it
\* NXDOMAIN, and no other query gets either; later questions play no part.  A
\* datagram is dropped only when what arrived of it is malformed, when its
\* first name cannot be copied into a reply, or when memory ran out.  Names
\* whose labels hold a NUL, a dot or a blank are not decided by their labels.
PolicyOnTheWire ==
  LET labels  == NameAt(sent, DNS_HEADER_SIZE)
      isA     == Field(sent, EndOfName(sent, DNS_HEADER_SIZE)) = TYPE_A
      verdict == IF outcome = "error" THEN response[4] ELSE 0
  IN  caller = "run_server" =>
        /\ outcome \in {"relayed", "error"} =>
             IF Field(sent, 4) = 0 THEN verdict = FORMERR
             ELSE /\ labels # Bad
                  /\ verdict = NOTIMPL <=> ~isA
                  /\ isA /\ (\A k \in DOMAIN labels : Ordinary(labels[k])) =>
                       /\ verdict \in {0, NXDOMAIN, SERVFAIL}
                       /\ verdict = NXDOMAIN => OnList(labels)
                       /\ verdict # NXDOMAIN => ~OnList(labels) \/ starved
        /\ outcome = "dropped" /\ ppc # "nomem" =>
             \/ Names(Received(sent), DNS_HEADER_SIZE, Field(sent, 4)) = Bad
             \/ Field(sent, 4) = 0
             \/ LabelsAt(sent, DNS_HEADER_SIZE, 0) = Bad

\* A dot between two labels: of dots in a row the last one.
Separates(domain, i) ==
  /\ \E j \in 1..(i - 1) : domain[j] # Dot
  /\ i < Len(domain) /\ domain[i + 1] # Dot

\* What is not left out.
Stays(domain, i) == domain[i] # Dot \/ Separates(domain, i)

\* The text without the dots that separate nothing.
Collapsed(domain) ==
  LET from[i \in 1..(Len(domain) + 1)] ==
        IF i > Len(domain) THEN << >>
        ELSE IF Stays(domain, i) THEN <<domain[i]>> \o from[i + 1]
        ELSE from[i + 1]
  IN  from[1]

\* A name encode_dns_name accepts stays inside its buffer and is read back as
\* the same text, dots that separate nothing left out.  Only a text of all
\* DNS_MAX_NAME_LEN characters, in a buffer that is larger than a name can be,
\* is written in a form the parser refuses.
EncodedNamesParse ==
  encoded # None /\ outcome # "pending" =>
    /\ len - DNS_HEADER_SIZE - 4 <= encoded.buf_len
    /\ outcome = "returned" => questions[1].qname = Collapsed(encoded.domain)
    /\ ppc = "fail" => /\ Len(Collapsed(encoded.domain)) = DNS_MAX_NAME_LEN
                       /\ encoded.buf_len > DNS_MAX_NAME_LEN + 1
=============================================================================
