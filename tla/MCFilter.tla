------------------------------ MODULE MCFilter ------------------------------
(***************************************************************************)
(* A small set of texts for TLC to feed the filter with.                   *)
(***************************************************************************)
EXTENDS FilterText, SequencesExt

\* Ordinary names and the edge cases of normalize_domain and
\* split_domain_labels: case, blanks, dots, a label and a name too long.
MCRawDomain ==
  { <<"a">>, <<"b">>, <<"A", ".">>, <<" ", "b", ".", "a">>, <<"b", " ", ".", "A">>,
    <<"b", "a">>, <<"a", ".", "b">>, <<"b", ".", "b">>, <<"a", ".", "b", ".", "a">>,
    <<".", "a">>, <<"a", ".", ".", "b">>, <<".">>, <<" ">>, <<"a", "b", "a">>,
    <<"a", "a", ".", "b", "b", " ">>, <<"b", "b", ".", "a", "a", ".">> }

MCLabel == SeqOf({"a", "b"}, DNS_MAX_LABEL_LEN)

\* The conversions tabulated, so that TLC computes them once.
LabelTable == [d \in MCRawDomain |-> LabelsOfText(d)]

MCLabelsOf(d) == LabelTable[d]
=============================================================================
