------------------------------ MODULE Resolver ------------------------------
(***************************************************************************)
(* forward_query of resolver.c and the network it talks to.  One call at a *)
(* time: it opens a socket, sends the client's query unchanged up to       *)
(* UPSTREAM_RETRIES times, takes the first datagram that reaches its port  *)
(* and accepts it or fails.  The sets upstream and inflight never shrink,  *)
(* so a datagram may be lost, late, repeated or overtaken, and may reach a *)
(* later call whose socket was given the same port.                        *)
(***************************************************************************)
EXTENDS Integers, FiniteSets

CONSTANTS Query,             \* queries, records with the field id
          Port,              \* ephemeral ports a socket may be given
          Rcode,             \* response codes the upstream server uses
          Faults,            \* what may fail: "memory", "socket", "send", "upstream"
          UPSTREAM_RETRIES,  \* resolver.c
          MaxInFlight,       \* bound: datagrams on their way back
          NULL,              \* no query, socket or buffer
          Unfilled           \* a buffer no datagram was received into

ASSUME RetriesPositive == UPSTREAM_RETRIES \in Nat \ {0}

VARIABLES fpc,          \* where forward_query is
          query,        \* its argument
          attempt,      \* its retry counter
          sockfd,       \* port of its open socket, or NULL
          resp_buffer,  \* NULL, Unfilled, or the datagram it holds
          upstream,     \* every query sent: [port, query]
          inflight      \* every datagram sent back to a port

vars == <<fpc, query, attempt, sockfd, resp_buffer, upstream, inflight>>
network == <<upstream, inflight>>

\* A datagram on its way back: its destination port, the query whose ID and
\* question it carries, and what else forward_query and run_server look at.
\* It is short when it has fewer than DNS_HEADER_SIZE bytes.
Message == [port : Port, re : Query, short : BOOLEAN, qr : BOOLEAN, rcode : Rcode]

TypeOK ==
  /\ fpc \in {"idle", "setup", "opened", "send", "recv", "check", "ok", "fail"}
  /\ query \in Query \cup {NULL}
  /\ attempt \in 0..UPSTREAM_RETRIES
  /\ sockfd \in Port \cup {NULL}
  /\ resp_buffer \in Message \cup {NULL, Unfilled}
  /\ upstream \subseteq [port : Port, query : Query]
  /\ inflight \subseteq Message

Init ==
  /\ fpc = "idle"
  /\ query = NULL
  /\ attempt = 0
  /\ sockfd = NULL
  /\ resp_buffer = NULL
  /\ upstream = {}
  /\ inflight = {}

-----------------------------------------------------------------------------
(* The call and its return, as process_dns_query sees them. *)

forward_query(q) ==
  /\ fpc = "idle"
  /\ fpc' = "setup"
  /\ query' = q
  /\ attempt' = 0
  /\ UNCHANGED <<sockfd, resp_buffer, network>>

\* The caller frees the response it was given (run_server after sendto).
Release ==
  /\ fpc \in {"ok", "fail"}
  /\ fpc' = "idle"
  /\ query' = NULL
  /\ attempt' = 0
  /\ resp_buffer' = NULL
  /\ UNCHANGED <<sockfd, network>>

-----------------------------------------------------------------------------
(* Setup. *)

OpenSocket ==
  /\ fpc = "setup"
  /\ sockfd' \in Port
  /\ fpc' = "opened"
  /\ UNCHANGED <<query, attempt, resp_buffer, network>>

\* resolve_upstream_address or socket() fails.
OpenFails ==
  /\ fpc = "setup"
  /\ "socket" \in Faults
  /\ fpc' = "fail"
  /\ UNCHANGED <<query, attempt, sockfd, resp_buffer, network>>

AllocateBuffer ==
  /\ fpc = "opened"
  /\ resp_buffer' = Unfilled
  /\ fpc' = "send"
  /\ UNCHANGED <<query, attempt, sockfd, network>>

\* Mutant: the error path forgets close().
AllocateFails_Leaks ==
  /\ fpc = "opened"
  /\ "memory" \in Faults
  /\ fpc' = "fail"
  /\ UNCHANGED <<query, attempt, sockfd, resp_buffer, network>>

\* setsockopt, inet_pton or malloc fails.
AllocateFails ==
  /\ fpc = "opened"
  /\ "memory" \in Faults
  /\ sockfd' = NULL
  /\ fpc' = "fail"
  /\ UNCHANGED <<query, attempt, resp_buffer, network>>

-----------------------------------------------------------------------------
(* The retry loop. *)

\* Mutant: a failed attempt is not counted.
Retry_Uncounted ==
  /\ fpc' = "send"
  /\ UNCHANGED attempt

Retry ==
  /\ attempt' = attempt + 1
  /\ fpc' = "send"

\* Mutant: one attempt too many.
Send_OneMore ==
  /\ fpc = "send" /\ attempt <= UPSTREAM_RETRIES
  /\ upstream' = upstream \cup {[port |-> sockfd, query |-> query]}
  /\ fpc' = "recv"
  /\ UNCHANGED <<query, attempt, sockfd, resp_buffer, inflight>>

Send ==
  /\ fpc = "send" /\ attempt < UPSTREAM_RETRIES
  /\ upstream' = upstream \cup {[port |-> sockfd, query |-> query]}
  /\ fpc' = "recv"
  /\ UNCHANGED <<query, attempt, sockfd, resp_buffer, inflight>>

\* sendto returns an error or a short count.
SendFails ==
  /\ fpc = "send" /\ attempt < UPSTREAM_RETRIES
  /\ "send" \in Faults
  /\ Retry
  /\ UNCHANGED <<query, sockfd, resp_buffer, network>>

Receive ==
  /\ fpc = "recv"
  /\ \E m \in inflight : m.port = sockfd /\ resp_buffer' = m
  /\ fpc' = "check"
  /\ UNCHANGED <<query, attempt, sockfd, network>>

\* recvfrom gives up after UPSTREAM_TIMEOUT_SEC, or is interrupted by a
\* signal, or reports an error: the attempt is used up in each case.
ReceiveFails ==
  /\ fpc = "recv"
  /\ Retry
  /\ UNCHANGED <<query, sockfd, resp_buffer, network>>

-----------------------------------------------------------------------------
(* After the loop. *)

CloseAndFail ==
  /\ resp_buffer' = NULL
  /\ sockfd' = NULL
  /\ fpc' = "fail"
  /\ UNCHANGED <<query, attempt, network>>

GiveUp ==
  /\ fpc = "send" /\ attempt = UPSTREAM_RETRIES
  /\ CloseAndFail

\* Mutant: the transaction ID is not compared.
Acceptable_AnyId(m) == ~m.short /\ m.qr

Acceptable(m) == ~m.short /\ m.re.id = query.id /\ m.qr

Accept ==
  /\ fpc = "check"
  /\ Acceptable(resp_buffer)
  /\ sockfd' = NULL
  /\ fpc' = "ok"
  /\ UNCHANGED <<query, attempt, resp_buffer, network>>

\* Too short, another transaction ID, or QR = 0.  There is no retry.
Reject ==
  /\ fpc = "check"
  /\ ~Acceptable(resp_buffer)
  /\ CloseAndFail

-----------------------------------------------------------------------------
(* The network and the upstream server (external). *)

Arrives(m) ==
  /\ Cardinality(inflight) < MaxInFlight
  /\ inflight' = inflight \cup {m}
  /\ UNCHANGED <<fpc, query, attempt, sockfd, resp_buffer, upstream>>

\* Whatever answers, copies the query's ID and question.
Answer(s, r) ==
  [port |-> s.port, re |-> s.query, short |-> FALSE, qr |-> TRUE, rcode |-> r]

UpstreamAnswers == \E s \in upstream, r \in Rcode : Arrives(Answer(s, r))

\* An answer cut off, or one with QR = 0.
UpstreamMisbehaves ==
  /\ "upstream" \in Faults
  /\ \E s \in upstream, r \in Rcode :
       \/ Arrives([Answer(s, r) EXCEPT !.short = TRUE])
       \/ Arrives([Answer(s, r) EXCEPT !.qr = FALSE])

Network == UpstreamAnswers \/ UpstreamMisbehaves

-----------------------------------------------------------------------------
\* The steps forward_query takes by itself; the receive timeout makes the
\* blocking recvfrom one of them.
Forwarding ==
  \/ OpenSocket \/ OpenFails \/ AllocateBuffer \/ AllocateFails
  \/ Send \/ SendFails \/ Receive \/ ReceiveFails
  \/ GiveUp \/ Accept \/ Reject

Next ==
  \/ \E q \in Query : forward_query(q)
  \/ Release
  \/ Forwarding
  \/ Network

Spec == Init /\ [][Next]_vars

FairSpec == Spec /\ WF_vars(Forwarding)

-----------------------------------------------------------------------------
Returned == fpc \in {"ok", "fail"}

\* The response handed to the caller answers the caller's question, or is a
\* late answer to an earlier query that had the same transaction ID and left
\* through the same port: nothing but the ID ties a datagram to the call
\* (forward_query compares neither the question nor the sender).
AnswersQueryOrItsTwin ==
  fpc = "ok" =>
    /\ resp_buffer.re.id = query.id
    /\ [port |-> resp_buffer.port, query |-> resp_buffer.re] \in upstream
    /\ [port |-> resp_buffer.port, query |-> query] \in upstream
    /\ resp_buffer.qr /\ ~resp_buffer.short

\* However the call ends, its socket is closed and its buffer is freed, or
\* handed to the caller on success: thirteen returns, one owner.
NothingLeaks ==
  /\ fpc \in {"idle", "setup"} \/ Returned => sockfd = NULL
  /\ resp_buffer # NULL => fpc \in {"send", "recv", "check", "ok"}
  /\ fpc = "ok" => resp_buffer \in inflight

\* Every call returns, whatever the network does: a lost answer costs an
\* attempt, and the attempts run out.
CallReturns == (fpc # "idle") ~> Returned
=============================================================================
