------------------------------ MODULE MCServer ------------------------------
(***************************************************************************)
(* Small instances of Server, and what its texts say of it.                *)
(***************************************************************************)
EXTENDS Server

D(id, name, form, typeA) == [id |-> id, name |-> name, form |-> form, typeA |-> typeA]

\* One datagram of every kind process_dns_query tells apart; two of those it
\* forwards carry the same transaction ID.
EveryKind ==
  { D(1, "ok", "plain", TRUE), D(1, "fine", "plain", TRUE), D(1, "bad", "plain", TRUE),
    D(2, "bad", "plain", FALSE), D(2, "ok", "compressed", TRUE), D(1, "ok", "garbled", TRUE),
    D(1, "ok", "short", TRUE), D(1, "ok", "empty", TRUE), D(1, "ok", "tailed", TRUE) }

\* Two clients that share a transaction ID and one that asks for a listed name.
Rivals == { D(1, "ok", "plain", TRUE), D(1, "fine", "plain", TRUE), D(2, "bad", "plain", TRUE) }

Ordinary == { D(1, "ok", "plain", TRUE), D(2, "ok", "garbled", TRUE) }

-----------------------------------------------------------------------------
\* README, "Implementovane funkcie": error states are answered with suitable
\* DNS error codes, FORMERR among them; process_dns_query logs "Failed to parse
\* DNS query - sending FORMERR".  A query that cannot be parsed gets that reply.
MalformedGetsFormErr ==
  \A i \in DOMAIN log :
    log[i].query.form = "garbled" =>
      log[i].reply # NULL /\ log[i].reply.rcode = "FORMERR"

\* README, "Performance statistiky": blocked queries are counted.  The number
\* printed as "Blocked (NXDOMAIN)" is the number of queries the list blocked.
BlockedCountIsBlockedQueries ==
  pc = "stopped" => blocked_count = Count(LAMBDA e : e.reply # NULL /\ Listed(e.query))
=============================================================================
