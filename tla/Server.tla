------------------------------- MODULE Server -------------------------------
(***************************************************************************)
(* run_server and process_dns_query of dns_server.c: one thread that waits *)
(* for a datagram, decides it, forwards it through Resolver when the name  *)
(* is allowed, replies and returns to its loop, until a signal stops it.   *)
(***************************************************************************)
EXTENDS Integers, Sequences, FiniteSets

CONSTANTS Datagram,          \* what clients send: [id, name, form, typeA]
          BlockedNames,      \* names for which the filter says "blocked"
          Port, Rcode, UPSTREAM_RETRIES, MaxInFlight, NULL, Unfilled,
          Faults,            \* what may fail: those of Resolver, "recv", "lookup"
          RxCapacity,        \* datagrams the kernel queues for the socket
          MaxDatagrams,      \* bound: datagrams clients send
          MaxRecvErrors      \* bound: errors recvfrom reports

ASSUME Bounds == /\ UPSTREAM_RETRIES \in Nat \ {0}
                 /\ RxCapacity \in Nat \ {0}
                 /\ MaxDatagrams \in Nat
                 /\ MaxRecvErrors \in Nat

VARIABLES pc,               \* where run_server is
          server_running,   \* the flag the signal handler clears
          rx,               \* datagrams queued in the kernel
          current,          \* the datagram in query_buffer, or NULL
          response,         \* what response_buffer holds, or NULL
          query_count, blocked_count, forwarded_count, error_count,
          recv_errors,      \* history: errors recvfrom reported
          arrivals,         \* history: datagrams sent by clients
          log,              \* history: how every datagram taken was settled
          fpc, query, attempt, sockfd, resp_buffer, upstream, inflight

R == INSTANCE Resolver WITH Query <- Datagram

callVars == <<fpc, query, attempt, sockfd, resp_buffer, upstream, inflight>>
counts == <<query_count, blocked_count, forwarded_count, error_count>>
history == <<recv_errors, arrivals, log>>
serverVars == <<pc, server_running, rx, current, response, counts, history>>
vars == <<serverVars, callVars>>

Parses(d) == d.form \notin {"short", "garbled"}

NoQuestions(d) == d.form \in {"empty", "tailed"}

\* build_error_response needs an uncompressed question in the raw bytes.
Buildable(d) == d.form \in {"plain", "tailed"}

\* is_domain_blocked, as far as the list decides it (module Filter).
Listed(d) == d.name \in BlockedNames

Response == [re : Datagram, relayed : BOOLEAN,
             rcode : Rcode \cup {"FORMERR", "NOTIMPL", "NXDOMAIN", "SERVFAIL"}]

\* The null pointer is no datagram and no response.
ASSUME NullIsNothing == NULL \notin Datagram /\ NULL \notin Response

TypeOK ==
  /\ pc \in {"start", "loop", "recv", "process", "forward", "reply",
             "shutdown", "stopped", "failed"}
  /\ server_running \in BOOLEAN
  /\ rx \in Seq(Datagram) /\ Len(rx) <= RxCapacity
  /\ current \in Datagram \cup {NULL}
  /\ response \in Response \cup {NULL}
  /\ query_count \in Nat /\ blocked_count \in Nat
  /\ forwarded_count \in Nat /\ error_count \in Nat
  /\ recv_errors \in 0..MaxRecvErrors
  /\ arrivals \in 0..MaxDatagrams
  /\ log \in Seq([query : Datagram, reply : Response \cup {NULL}, sent : BOOLEAN])
  /\ R!TypeOK

Init ==
  /\ pc = "start"
  /\ server_running = TRUE
  /\ rx = << >>
  /\ current = NULL
  /\ response = NULL
  /\ query_count = 0 /\ blocked_count = 0 /\ forwarded_count = 0 /\ error_count = 0
  /\ recv_errors = 0 /\ arrivals = 0 /\ log = << >>
  /\ R!Init

-----------------------------------------------------------------------------
(* Start, the loop and the receive call. *)

\* init_udp_server, then the signal handlers.
init_udp_server ==
  /\ pc = "start"
  /\ \/ pc' = "loop"
     \/ "socket" \in Faults /\ pc' = "failed"
  /\ UNCHANGED <<server_running, rx, current, response, counts, history, callVars>>

\* Mutant: the loop relies on EINTR alone to notice the signal.
TestRunning_Never ==
  /\ pc = "loop"
  /\ pc' = "recv"
  /\ UNCHANGED <<server_running, rx, current, response, counts, history, callVars>>

TestRunning ==
  /\ pc = "loop"
  /\ pc' = IF server_running THEN "recv" ELSE "shutdown"
  /\ UNCHANGED <<server_running, rx, current, response, counts, history, callVars>>

\* The datagram is settled without a reply and the loop continues.
Drop(d) ==
  /\ error_count' = error_count + 1
  /\ log' = Append(log, [query |-> d, reply |-> NULL, sent |-> FALSE])
  /\ current' = NULL
  /\ pc' = "loop"
  /\ UNCHANGED <<response, blocked_count, forwarded_count>>

\* Mutant: the query is counted before its length is checked.
ReceiveShort_Counted ==
  /\ pc = "recv" /\ rx # << >>
  /\ Head(rx).form = "short"
  /\ Drop(Head(rx))
  /\ rx' = Tail(rx)
  /\ query_count' = query_count + 1
  /\ UNCHANGED <<server_running, recv_errors, arrivals, callVars>>

ReceiveShort ==
  /\ pc = "recv" /\ rx # << >>
  /\ Head(rx).form = "short"
  /\ Drop(Head(rx))
  /\ rx' = Tail(rx)
  /\ UNCHANGED <<server_running, query_count, recv_errors, arrivals, callVars>>

ReceiveQuery ==
  /\ pc = "recv" /\ rx # << >>
  /\ Head(rx).form # "short"
  /\ current' = Head(rx)
  /\ rx' = Tail(rx)
  /\ query_count' = query_count + 1
  /\ pc' = "process"
  /\ UNCHANGED <<server_running, response, blocked_count, forwarded_count,
                 error_count, history, callVars>>

\* EAGAIN after one second without a datagram.
ReceiveTimeout ==
  /\ pc = "recv" /\ rx = << >>
  /\ pc' = "loop"
  /\ UNCHANGED <<server_running, rx, current, response, counts, history, callVars>>

\* EINTR: a signal was handled, or the process was stopped and continued.
ReceiveInterrupted ==
  /\ pc = "recv" /\ rx = << >>
  /\ pc' = IF server_running THEN "loop" ELSE "shutdown"
  /\ UNCHANGED <<server_running, rx, current, response, counts, history, callVars>>

ReceiveError ==
  /\ pc = "recv" /\ "recv" \in Faults
  /\ recv_errors < MaxRecvErrors
  /\ recv_errors' = recv_errors + 1
  /\ error_count' = error_count + 1
  /\ pc' = "loop"
  /\ UNCHANGED <<server_running, rx, current, response, query_count,
                 blocked_count, forwarded_count, arrivals, log, callVars>>

-----------------------------------------------------------------------------
(* process_dns_query.  Running out of memory is a choice wherever it can    *)
(* happen; it ends in the same error path as a datagram that is refused.    *)

Fail ==
  /\ Drop(current)
  /\ UNCHANGED <<server_running, rx, query_count, recv_errors, arrivals>>

\* build_error_response for the query being processed.
Reply(rcode) ==
  \/ /\ Buildable(current)
     /\ response' = [re |-> current, relayed |-> FALSE, rcode |-> rcode]
     /\ pc' = "reply"
     /\ UNCHANGED <<server_running, rx, current, counts, history>>
  \/ /\ ~Buildable(current) \/ "memory" \in Faults
     /\ Fail

ParseFails ==
  /\ pc = "process"
  /\ ~Parses(current) \/ "memory" \in Faults
  /\ Fail
  /\ UNCHANGED callVars

NoQuestion ==
  /\ pc = "process"
  /\ Parses(current) /\ NoQuestions(current)
  /\ Reply("FORMERR")
  /\ UNCHANGED callVars

UnsupportedType ==
  /\ pc = "process"
  /\ Parses(current) /\ ~NoQuestions(current) /\ ~current.typeA
  /\ Reply("NOTIMPL")
  /\ UNCHANGED callVars

\* Mutant: the list is asked before the type.
BlockedDomain_AnyType ==
  /\ pc = "process"
  /\ Parses(current) /\ ~NoQuestions(current)
  /\ Listed(current)
  /\ Reply("NXDOMAIN")
  /\ UNCHANGED callVars

BlockedDomain ==
  /\ pc = "process"
  /\ Parses(current) /\ ~NoQuestions(current) /\ current.typeA
  /\ Listed(current)
  /\ Reply("NXDOMAIN")
  /\ UNCHANGED callVars

\* Mutant: the answer of the list is ignored.
Forward_Unfiltered ==
  /\ pc = "process"
  /\ Parses(current) /\ ~NoQuestions(current) /\ current.typeA
  /\ R!forward_query(current)
  /\ pc' = "forward"
  /\ UNCHANGED <<server_running, rx, current, response, counts, history>>

\* is_domain_blocked says no for a listed name only when it cannot allocate
\* its label array.
Forward ==
  /\ pc = "process"
  /\ Parses(current) /\ ~NoQuestions(current) /\ current.typeA
  /\ ~Listed(current) \/ "lookup" \in Faults
  /\ R!forward_query(current)
  /\ pc' = "forward"
  /\ UNCHANGED <<server_running, rx, current, response, counts, history>>

\* forward_query returned 0: its buffer becomes the response.
ForwardSucceeds ==
  /\ pc = "forward" /\ fpc = "ok"
  /\ response' = [re |-> resp_buffer.re, relayed |-> TRUE, rcode |-> resp_buffer.rcode]
  /\ R!Release
  /\ pc' = "reply"
  /\ UNCHANGED <<server_running, rx, current, counts, history>>

ForwardFails ==
  /\ pc = "forward" /\ fpc = "fail"
  /\ R!Release
  /\ Reply("SERVFAIL")

-----------------------------------------------------------------------------
\* Mutant: the response is freed only when it was sent.
SendReply_Leaks ==
  /\ pc = "reply"
  /\ blocked_count' = blocked_count + (IF response.rcode = "NXDOMAIN" THEN 1 ELSE 0)
  /\ forwarded_count' = forwarded_count + (IF response.rcode = "NOERROR" THEN 1 ELSE 0)
  /\ \E sent \in {TRUE} \cup (IF "send" \in Faults THEN {FALSE} ELSE {}) :
       /\ error_count' = error_count + (IF sent THEN 0 ELSE 1)
       /\ response' = (IF sent THEN NULL ELSE response)
       /\ log' = Append(log, [query |-> current, reply |-> response, sent |-> sent])
  /\ current' = NULL
  /\ pc' = "loop"
  /\ UNCHANGED <<server_running, rx, query_count, recv_errors, arrivals, callVars>>

\* The statistics are taken from the response's RCODE before sendto, whose
\* failure is counted as an error as well; the response is freed either way.
SendReply ==
  /\ pc = "reply"
  /\ blocked_count' = blocked_count + (IF response.rcode = "NXDOMAIN" THEN 1 ELSE 0)
  /\ forwarded_count' = forwarded_count + (IF response.rcode = "NOERROR" THEN 1 ELSE 0)
  /\ \E sent \in {TRUE} \cup (IF "send" \in Faults THEN {FALSE} ELSE {}) :
       /\ error_count' = error_count + (IF sent THEN 0 ELSE 1)
       /\ log' = Append(log, [query |-> current, reply |-> response, sent |-> sent])
  /\ response' = NULL
  /\ current' = NULL
  /\ pc' = "loop"
  /\ UNCHANGED <<server_running, rx, query_count, recv_errors, arrivals, callVars>>

Shutdown ==
  /\ pc = "shutdown"
  /\ pc' = "stopped"
  /\ UNCHANGED <<server_running, rx, current, response, counts, history, callVars>>

-----------------------------------------------------------------------------
(* The environment: clients, signals, and the network of Resolver. *)

\* A datagram for a full queue is lost.
ClientSends(d) ==
  /\ pc \notin {"start", "stopped", "failed"}
  /\ arrivals < MaxDatagrams
  /\ arrivals' = arrivals + 1
  /\ rx' = IF Len(rx) < RxCapacity THEN Append(rx, d) ELSE rx
  /\ UNCHANGED <<pc, server_running, current, response, counts, recv_errors, log, callVars>>

\* SIGINT or SIGTERM after run_server has installed its handler.
signal_handler ==
  /\ pc \notin {"start", "stopped", "failed"}
  /\ server_running /\ server_running' = FALSE
  /\ UNCHANGED <<pc, rx, current, response, counts, history, callVars>>

Terminated ==
  /\ pc \in {"stopped", "failed"}
  /\ UNCHANGED vars

-----------------------------------------------------------------------------
Receiving == ReceiveShort \/ ReceiveQuery \/ ReceiveTimeout \/ ReceiveInterrupted
               \/ ReceiveError

Processing == ParseFails \/ NoQuestion \/ UnsupportedType \/ BlockedDomain \/ Forward
                \/ ForwardSucceeds \/ ForwardFails

Upstream == R!Forwarding /\ UNCHANGED serverVars

Environment ==
  \/ \E d \in Datagram : ClientSends(d)
  \/ signal_handler
  \/ R!Network /\ UNCHANGED serverVars

\* What the one thread does.
Thread == init_udp_server \/ TestRunning \/ Receiving \/ Processing \/ Upstream
            \/ SendReply \/ Shutdown

Next == Thread \/ Environment \/ Terminated

Spec == Init /\ [][Next]_vars

\* The thread is scheduled, and its two blocking receives return because both
\* sockets have SO_RCVTIMEO, and getaddrinfo by the resolver's own time-outs.  Clients, signals and the upstream are free.
FairSpec == Spec /\ WF_vars(Thread)

-----------------------------------------------------------------------------
\* No query for a listed name, and none of a type but A, ever leaves for the
\* upstream server, whatever was queued, retried or forwarded before; only a
\* lookup that runs out of memory would let a listed name out.
BlockedNeverLeaves ==
  \A s \in upstream :
    /\ s.query.typeA /\ Parses(s.query)
    /\ "lookup" \notin Faults => ~Listed(s.query)

Count(P(_)) == Cardinality({i \in DOMAIN log : P(log[i])})

\* When the loop comes round, the four counters account for every datagram
\* taken from the socket: none is lost on an error path or counted twice.
StatsAddUp ==
  pc \in {"loop", "shutdown", "stopped"} =>
    /\ query_count = Count(LAMBDA e : e.query.form # "short")
    /\ error_count = recv_errors + Count(LAMBDA e : ~e.sent)
    /\ blocked_count = Count(LAMBDA e : e.reply # NULL /\ e.reply.rcode = "NXDOMAIN")
    /\ forwarded_count = Count(LAMBDA e : e.reply # NULL /\ e.reply.rcode = "NOERROR")

\* A reply reaches the client with the transaction ID of that client's query
\* even when the response is a late answer to somebody else's.
RepliesMatchQueries ==
  \A i \in DOMAIN log :
    log[i].reply # NULL =>
      /\ log[i].reply.re.id = log[i].query.id
      /\ ~log[i].reply.relayed => log[i].reply.re = log[i].query

\* Between two datagrams the thread owns no response and no upstream socket,
\* whichever of the error paths it came back on.
NothingHeldBetweenQueries ==
  /\ response # NULL => pc = "reply"
  /\ pc # "forward" => sockfd = NULL /\ resp_buffer = NULL /\ fpc = "idle"

Outcome(e) ==
  IF ~e.sent THEN "none" ELSE IF e.reply.relayed THEN "relayed" ELSE e.reply.rcode

\* The program keeps the promises of FilterService: in order, at most one
\* reply each, and the reply named for that kind of query.
Service ==
  INSTANCE FilterService WITH
    waiting <- (IF current = NULL THEN << >> ELSE <<current>>) \o rx,
    settled <- [i \in DOMAIN log |-> [query |-> log[i].query, outcome |-> Outcome(log[i])]],
    open <- pc \notin {"stopped", "failed"},
    MayServeListed <- "lookup" \in Faults

ImplementsService == Service!Spec

\* Every query taken from the socket is settled, however the upstream server
\* behaves and whatever fails.
QueriesAreSettled == (current # NULL) ~> (current = NULL)

\* After a signal the server stops, also when the signal fell between the
\* test of the flag and recvfrom, or into the wait for the upstream server.
SignalStopsServer == (~server_running) ~> (pc = "stopped")

=============================================================================
