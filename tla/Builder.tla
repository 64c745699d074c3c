------------------------------- MODULE Builder -------------------------------
(***************************************************************************)
(* dns_builder.c.  build_error_response and build_dns_header are applied   *)
(* to the message Parser left: raw_data is the datagram, the header its    *)
(* first DNS_HEADER_SIZE bytes.  encode_dns_name is a function of a text.  *)
(* The empty sequence stands for the error returns.                        *)
(***************************************************************************)
EXTENDS Parser

\* build_dns_header writes this many bytes.
ASSUME HeaderOfTwelve == DNS_HEADER_SIZE = 12

Refused == << >>

\* Mutant: one byte of QCLASS is forgotten.
QuestionEnd_Short ==
  LET walk[p \in Nat] ==
        IF p >= len THEN 0
        ELSE IF Byte(p) = 0 THEN p + 4
        ELSE IF Byte(p) >= 64 THEN 0
        ELSE walk[p + Byte(p) + 1]
  IN  IF walk[DNS_HEADER_SIZE] <= len THEN walk[DNS_HEADER_SIZE] ELSE 0

\* Where the first question ends: its name read label by label, the NUL, and
\* the four bytes of QTYPE and QCLASS; 0 if it has a pointer or is not all
\* there.
QuestionEnd ==
  LET walk[p \in Nat] ==
        IF p >= len THEN 0
        ELSE IF Byte(p) = 0 THEN p + 5
        ELSE IF Byte(p) >= 64 THEN 0
        ELSE walk[p + Byte(p) + 1]
  IN  IF walk[DNS_HEADER_SIZE] <= len THEN walk[DNS_HEADER_SIZE] ELSE 0

\* QR = 1, RD as in the query, the given RCODE, every other flag 0; no counts
\* but qdcount.
build_dns_header(rcode) ==
  << Byte(0), Byte(1), 128 + (Byte(2) % 2), rcode, Byte(4), Byte(5), 0, 0, 0, 0, 0, 0 >>

build_error_response(rcode) ==
  IF rcode > 5 \/ QuestionEnd = 0 THEN Refused
  ELSE build_dns_header(rcode) \o SubSeq(packet, DNS_HEADER_SIZE + 1, QuestionEnd)

-----------------------------------------------------------------------------
DotOrEnd(domain, i) ==
  CHOOSE e \in i..(Len(domain) + 1) :
    /\ e <= Len(domain) => domain[e] = Dot
    /\ \A j \in i..(e - 1) : domain[j] # Dot

\* What strtok takes apart at the dots, each label after its length; dots in
\* a row, at the beginning and at the end separate nothing.
Labels(domain) ==
  LET from[i \in 1..(Len(domain) + 1)] ==
        IF i > Len(domain) THEN << >>
        ELSE IF domain[i] = Dot THEN from[i + 1]
        ELSE <<DotOrEnd(domain, i) - i>> \o SubSeq(domain, i, DotOrEnd(domain, i) - 1)
               \o from[DotOrEnd(domain, i)]
  IN  from[1]

LabelTooLong(domain) ==
  \E i \in DOMAIN domain : domain[i] # Dot /\ DotOrEnd(domain, i) - i > DNS_MAX_LABEL_LEN

\* Mutant: no place is kept for the final zero byte.
encode_dns_name_Full(domain, buf_len) ==
  IF \/ Len(domain) > DNS_MAX_NAME_LEN
     \/ LabelTooLong(domain)
     \/ Len(Labels(domain)) > buf_len
  THEN Refused
  ELSE Labels(domain) \o <<0>>

\* The room is tested for each label; the last test is the strictest one.  A
\* text of dots alone has no labels, and is encoded like the empty one.
encode_dns_name(domain, buf_len) ==
  IF \/ Len(domain) > DNS_MAX_NAME_LEN
     \/ LabelTooLong(domain)
     \/ Len(Labels(domain)) >= buf_len
  THEN Refused
  ELSE Labels(domain) \o <<0>>
=============================================================================
