------------------------------- MODULE Loader -------------------------------
(***************************************************************************)
(* load_filter_file of filter.c: fgets into line[DNS_MAX_NAME_LEN * 2],    *)
(* one turn of the loop for each piece it returns.  The trie is kept as    *)
(* the set of label sequences it marks, which is what module Filter shows  *)
(* a trie to be.                                                           *)
(***************************************************************************)
EXTENDS DomainName

CONSTANTS Character,   \* what a file is made of
          File         \* contents of filter files

ASSUME FileType == File \subseteq Seq(Character)

ASSUME LettersAreCharacters == \A c \in Character : tolower(c) \in Character

VARIABLES lpc,             \* where load_filter_file is
          file,            \* the file's contents
          rest,            \* what fgets has not returned yet
          list,            \* the trie: label sequences of the blocked names
          domains_loaded, lines_ignored,
          lost             \* history: filter_add_domain ran out of memory

vars == <<lpc, file, rest, list, domains_loaded, lines_ignored, lost>>

LineSize == 2 * DNS_MAX_NAME_LEN
NUL == "NUL"

TypeOK ==
  /\ lpc \in {"start", "opened", "read", "loaded", "failed"}
  /\ file \in Seq(Character)
  /\ \E k \in 0..Len(file) : rest = SubSeq(file, k + 1, Len(file))
  /\ \A labels \in list : labels # Failed /\ labels \in Seq(Seq(Character))
  /\ domains_loaded \in Nat /\ lines_ignored \in Nat /\ lost \in BOOLEAN

Init ==
  /\ lpc = "start"
  /\ file \in File
  /\ rest = file
  /\ list = {}
  /\ domains_loaded = 0 /\ lines_ignored = 0 /\ lost = FALSE

-----------------------------------------------------------------------------
fopen ==
  /\ lpc = "start"
  /\ \/ lpc' = "opened"
     \/ lpc' = "failed"
  /\ UNCHANGED <<file, rest, list, domains_loaded, lines_ignored, lost>>

\* filter_node_create for the root; without memory the file is closed again.
CreateRoot ==
  /\ lpc = "opened"
  /\ \/ lpc' = "read"
     \/ lpc' = "failed"
  /\ UNCHANGED <<file, rest, list, domains_loaded, lines_ignored, lost>>

\* Mutant: one character less in a piece than the buffer holds.
ChunkEnd_Short(text) ==
  LET stops == {i \in DOMAIN text : text[i] = "\n"} \cup {Len(text), LineSize - 2}
  IN  CHOOSE e \in stops : \A s \in stops : e <= s

\* fgets stops after a newline, at the end of the file, or when the buffer
\* holds LineSize - 1 characters.
ChunkEnd(text) ==
  LET stops == {i \in DOMAIN text : text[i] = "\n"} \cup {Len(text), LineSize - 1}
  IN  CHOOSE e \in stops : \A s \in stops : e <= s

\* What strlen sees of a buffer.
CString(text) ==
  LET nuls == {i \in DOMAIN text : text[i] = NUL}
  IN  IF nuls = {} THEN text
      ELSE SubSeq(text, 1, (CHOOSE i \in nuls : \A j \in nuls : i <= j) - 1)

\* The piece as the loop looks at it: line ends at the end and blanks at the
\* beginning are cut off.
Trimmed(text) ==
  LET solid == {i \in DOMAIN text : ~isspace(text[i])}
      ended == {i \in DOMAIN text : text[i] \notin {"\n", "\r"}}
      from  == CHOOSE i \in solid : \A j \in solid : i <= j
      to    == CHOOSE i \in ended : \A j \in ended : j <= i
  IN  IF solid = {} THEN << >> ELSE SubSeq(text, from, to)

domain == Trimmed(CString(SubSeq(rest, 1, ChunkEnd(rest))))

Advance ==
  /\ lpc = "read" /\ rest # << >>
  /\ rest' = SubSeq(rest, ChunkEnd(rest) + 1, Len(rest))
  /\ UNCHANGED <<lpc, file>>

SkipBlank ==
  /\ Advance
  /\ domain = << >>
  /\ UNCHANGED <<list, domains_loaded, lines_ignored, lost>>

SkipComment ==
  /\ Advance
  /\ domain # << >> /\ domain[1] = "#"
  /\ lines_ignored' = lines_ignored + 1
  /\ UNCHANGED <<list, domains_loaded, lost>>

\* Mutant: the result of filter_add_domain is not looked at.
AddDomain_Unchecked ==
  /\ Advance
  /\ domain # << >> /\ domain[1] # "#"
  /\ list' = list \cup {LabelsOfText(domain)}
  /\ domains_loaded' = domains_loaded + 1
  /\ UNCHANGED <<lines_ignored, lost>>

\* filter_add_domain returns 0.
AddDomain ==
  /\ Advance
  /\ domain # << >> /\ domain[1] # "#"
  /\ LabelsOfText(domain) # Failed
  /\ list' = list \cup {LabelsOfText(domain)}
  /\ domains_loaded' = domains_loaded + 1
  /\ UNCHANGED <<lines_ignored, lost>>

\* Mutant: a line that is refused is not counted.
IgnoreDomain_Uncounted ==
  /\ Advance
  /\ domain # << >> /\ domain[1] # "#"
  /\ lost' = (lost \/ LabelsOfText(domain) # Failed)
  /\ UNCHANGED <<list, domains_loaded, lines_ignored>>

\* filter_add_domain returns -1: an invalid name, or no memory for
\* a valid one.  The loop treats both alike.
IgnoreDomain ==
  /\ Advance
  /\ domain # << >> /\ domain[1] # "#"
  /\ lost' = (lost \/ LabelsOfText(domain) # Failed)
  /\ lines_ignored' = lines_ignored + 1
  /\ UNCHANGED <<list, domains_loaded>>

EndOfFile ==
  /\ lpc = "read" /\ rest = << >>
  /\ lpc' = "loaded"
  /\ UNCHANGED <<file, rest, list, domains_loaded, lines_ignored, lost>>

\* fgets also returns NULL when the file cannot be read any further, as that of
\* a directory; the loop does not tell this from the end of the file.
ReadError ==
  /\ lpc = "read" /\ rest # << >>
  /\ lpc' = "loaded"
  /\ UNCHANGED <<file, rest, list, domains_loaded, lines_ignored, lost>>

Terminated ==
  /\ lpc \in {"loaded", "failed"}
  /\ UNCHANGED vars

Next ==
  \/ fopen \/ CreateRoot
  \/ SkipBlank \/ SkipComment \/ AddDomain \/ IgnoreDomain
  \/ EndOfFile \/ ReadError \/ Terminated

Spec == Init /\ [][Next]_vars
=============================================================================
