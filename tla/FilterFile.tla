----------------------------- MODULE FilterFile -----------------------------
(***************************************************************************)
(* What a filter file lists, by a definition of the format that knows      *)
(* lines and not the pieces fgets returns, and what load_filter_file       *)
(* promises in these terms.                                                *)
(***************************************************************************)
EXTENDS Loader

\* The lines of a text, by the positions of the characters that end them.
Ends(text, enders) == {i \in DOMAIN text : text[i] \in enders} \cup {Len(text) + 1}

Line(text, ends, e) ==
  SubSeq(text, 1 + CHOOSE s \in ends \cup {0} : s < e /\ \A t \in ends : t < e => t <= s, e - 1)

\* Of CRLF the CR is part of the line end.
WithoutCR(line) ==
  SubSeq(line, 1, CHOOSE n \in 0..Len(line) :
                    /\ \A i \in (n + 1)..Len(line) : line[i] = "\r"
                    /\ n > 0 => line[n] # "\r")

LinesOf(text, enders) ==
  [e \in Ends(text, enders) |-> WithoutCR(CString(Line(text, Ends(text, enders), e)))]

IsBlank(line) == \A i \in DOMAIN line : isspace(line[i])

IsComment(line) ==
  \E i \in DOMAIN line : line[i] = "#" /\ \A j \in 1..(i - 1) : isspace(line[j])

\* The names a file lists when its lines are told apart by these characters.
Listed(enders) ==
  LET lines == LinesOf(file, enders)
  IN  {LabelsOfText(lines[e]) : e \in {i \in DOMAIN lines : ~IsComment(lines[i])}} \ {Failed}

EveryLineFits ==
  \A e \in Ends(file, {"\n"}) : Len(Line(file, Ends(file, {"\n"}), e)) <= LineSize - 1

-----------------------------------------------------------------------------
\* The trie load_filter_file returns blocks exactly the names on the file's
\* lines that are no comments, lines that fill the buffer to its last place
\* and a last line without an end included; running out of memory and an error
\* that ends the reading early only take names away.
ListIsFile ==
  lpc = "loaded" /\ EveryLineFits =>
    IF lost \/ rest # << >> THEN list \subseteq Listed({"\n"}) ELSE list = Listed({"\n"})

\* "domains loaded" and "lines ignored" account for every line read that is not
\* blank, and no name is listed without being counted.
CountsCoverLines ==
  lpc = "loaded" /\ EveryLineFits =>
    LET lines == LinesOf(SubSeq(file, 1, Len(file) - Len(rest)), {"\n"})
    IN  /\ domains_loaded + lines_ignored =
             Cardinality({e \in DOMAIN lines : ~IsBlank(lines[e])})
        /\ domains_loaded >= Cardinality(list)
        /\ lines_ignored >= Cardinality({e \in DOMAIN lines : IsComment(lines[e])})
=============================================================================
