---------------------------- MODULE FilterService ----------------------------
(***************************************************************************)
(* What the program promises its clients, without its parts: datagrams are *)
(* settled one at a time in the order of their arrival, each by at most    *)
(* one reply, and the reply is the one the README names for it.            *)
(***************************************************************************)
EXTENDS Sequences

CONSTANTS Datagram,         \* what clients send: records with the fields below
          Listed(_),        \* the datagram asks for a name the list blocks
          MayServeListed    \* whether running out of memory may let one pass

VARIABLES waiting,   \* datagrams accepted and not settled, oldest first
          settled,   \* every datagram settled: [query, outcome], in order
          open       \* FALSE once the server has stopped

vars == <<waiting, settled, open>>

\* short: fewer than DNS_HEADER_SIZE bytes; garbled: parse_dns_message fails.
Unusable(d) == d.form \in {"short", "garbled"}

\* Without a question in the header: only that, or with bytes after it.
NoQuestions(d) == d.form \in {"empty", "tailed"}

\* Every datagram may go unanswered (the code drops what it cannot reply to,
\* and UDP loses the rest); if there is a reply, it is one of these.
Replies(d) ==
  IF Unusable(d) THEN {}
  ELSE IF NoQuestions(d) THEN {"FORMERR"}
  ELSE IF ~d.typeA THEN {"NOTIMPL"}
  ELSE IF ~Listed(d) THEN {"relayed", "SERVFAIL"}
  ELSE {"NXDOMAIN"} \cup (IF MayServeListed THEN {"relayed", "SERVFAIL"} ELSE {})

Init ==
  /\ waiting = << >>
  /\ settled = << >>
  /\ open = TRUE

Take(d) ==
  /\ open
  /\ waiting' = Append(waiting, d)
  /\ UNCHANGED <<settled, open>>

Settle ==
  /\ open /\ waiting # << >>
  /\ \E o \in Replies(Head(waiting)) \cup {"none"} :
       settled' = Append(settled, [query |-> Head(waiting), outcome |-> o])
  /\ waiting' = Tail(waiting)
  /\ UNCHANGED open

\* Whatever still waits is abandoned.
Stop ==
  /\ open
  /\ open' = FALSE
  /\ UNCHANGED <<waiting, settled>>

Next == (\E d \in Datagram : Take(d)) \/ Settle \/ Stop

Spec == Init /\ [][Next]_vars
=============================================================================
