------------------------------ MODULE MCLoader ------------------------------
(***************************************************************************)
(* FilterFile over every file put together from a few fragments.           *)
(***************************************************************************)
EXTENDS FilterFile, SequencesExt

CONSTANT MaxFragments   \* bound: fragments of a file

\* Names, line ends of the three kinds, a blank, comments long and short, a
\* dot for names that are invalid, and a NUL.
Fragments ==
  { <<"a">>, <<"b", ".", "a">>, <<"\n">>, <<"\r", "\n">>, <<"\r">>, <<" ">>, <<"#">>,
    <<"#", "a", "a", "a">>, <<".">>, <<NUL>> }

MCCharacter == {"a", "b", "\n", "\r", " ", "#", ".", NUL}

MCFile == {FlattenSeq(f) : f \in UNION {[1..k -> Fragments] : k \in 0..MaxFragments}}

-----------------------------------------------------------------------------
\* README: lines that begin with # are comments.  A file of nothing but
\* comments and blank lines lists no name.
CommentsAreIgnored ==
  LET lines == LinesOf(file, {"\n"})
  IN  /\ \A e \in DOMAIN lines : IsBlank(lines[e]) \/ IsComment(lines[e])
      /\ \A i \in DOMAIN file : file[i] # NUL
      => list = {}

\* README: the line ends LF, CRLF and CR are supported.  In a file with no
\* other line end, CR ends a line.
CarriageReturnEndsLine ==
  (\A i \in DOMAIN file : file[i] \notin {"\n", NUL}) => list \subseteq Listed({"\r"})
=============================================================================
