----------------------------- MODULE FilterText -----------------------------
(***************************************************************************)
(* The filter over real text: the trie of Filter fed by the conversions of *)
(* DomainName, and what its users are promised, stated on the characters   *)
(* of the names.                                                           *)
(***************************************************************************)
EXTENDS Filter, DomainName

\* The filter's labels are those the conversions find in the text.
ASSUME LabelsAreOfText == \A d \in RawDomain : LabelsOf(d) = LabelsOfText(d)

\* Every text as the filter reads it; a table, so that TLC computes it once.
NameOf == [d \in RawDomain |-> normalize_domain(d, DNS_MAX_NAME_LEN + 1)]

\* A name is equal to another or ends, after a dot, in it.
IsOrIsBelow(name, other) ==
  \/ name = other
  \/ \E p \in DOMAIN name : name[p] = "." /\ other = SubSeq(name, p + 1, Len(name))

\* On the text itself, a name is blocked exactly when a listed name is equal
\* to it or is its tail after a dot (filter.c: blocking "google.com" blocks
\* "ads.google.com"); "xgoogle.com" is not.
SubdomainRule ==
  \A d \in RawDomain :
    LabelsOf(d) # Failed =>
      (is_domain_blocked(d) <=> \E b \in accepted : IsOrIsBelow(NameOf[d], NameOf[b]))
=============================================================================
