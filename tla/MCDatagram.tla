----------------------------- MODULE MCDatagram -----------------------------
(***************************************************************************)
(* Wire over every datagram put together from a few fragments.             *)
(***************************************************************************)
EXTENDS Wire, SequencesExt

CONSTANTS MaxFragments,      \* bound: fragments after the header
          MaxTestFragments,  \* bound: the same for the wrappers
          MaxQuestions,      \* bound: questions a header announces
          MaxText            \* bound: length of a text to encode

\* Ends and labels, one with a NUL and one with a dot in it, a length beyond
\* the datagram, an invalid one, pointers to the first name, to its second
\* label, into the header and to their own place, half a pointer, type and
\* class whole and cut, and a whole question.
Fragments ==
  { <<0>>, <<1, 65>>, <<2, 98, 0>>, <<2, 46, 99>>, <<3, 97>>, <<64>>, <<192, 12>>, <<192, 14>>,
    <<192, 0>>, <<192>>, <<0, 1, 0, 1>>, <<0, 1, 0>>, <<1, 97, 0, 0, 1, 0, 1>> }

\* RD = 1.  ID and flags read as labels when a pointer leads there.
Header(n) == <<1, 100, 1, 0, 0, n, 0, 0, 0, 0, 0, 0>>

Datagrams(max) ==
  {Header(n) \o FlattenSeq(f) :
     n \in 0..MaxQuestions, f \in UNION {[1..k -> Fragments] : k \in 0..max}}

MCPacket == Datagrams(MaxFragments)

MCTestPacket == Datagrams(MaxTestFragments) \cup {SubSeq(Header(1), 1, 11)}

MCDomain == UNION {[1..k -> {97, Dot}] : k \in 0..MaxText}

\* A name of one label and one of two, whose parent is not listed.  That parent,
\* an "a", a byte 1 and an "a", is what the label of length 3 can make of the
\* question that follows it.
MCBlocked == {<< <<"a">> >>, << <<"a", "1", "a">>, <<"a">> >>}
=============================================================================
