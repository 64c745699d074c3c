---------------------------- MODULE ServerProofs ----------------------------
(***************************************************************************)
(* For every set of datagrams and names, every list, and every queue size: *)
(* what the loop of run_server and process_dns_query keep true, and that   *)
(* the program implements FilterService.  The call of forward_query is     *)
(* covered by the lemmas of ResolverProofs.                                *)
(***************************************************************************)
EXTENDS Server, SequenceTheorems, FiniteSetTheorems, TLAPS

RP == INSTANCE ResolverProofs WITH Query <- Datagram

Entry == [query : Datagram, reply : Response \cup {NULL}, sent : BOOLEAN]

\* A query that process_dns_query may send upstream.
Forwardable(d) ==
  /\ Parses(d) /\ ~NoQuestions(d) /\ d.typeA
  /\ ~Listed(d) \/ "lookup" \in Faults

\* What a response is to the query it settles.
Answers(r, d) ==
  /\ r.re.id = d.id
  /\ ~r.relayed => r.re = d
  /\ (IF r.relayed THEN "relayed" ELSE r.rcode) \in Service!Replies(d)

\* What the thread knows at each place of the loop.
ThreadState ==
  /\ pc \in {"process", "forward", "reply"} <=> current # NULL
  /\ current # NULL => current.form # "short"
  /\ pc = "forward" => fpc # "idle" /\ query = current /\ Forwardable(current)
  /\ pc = "reply" => response \in Response /\ Answers(response, current)

\* The places of the log each counter counts.
Queries == {i \in DOMAIN log : log[i].query.form # "short"}
Unsent == {i \in DOMAIN log : ~log[i].sent}
Blocked == {i \in DOMAIN log : log[i].reply # NULL /\ log[i].reply.rcode = "NXDOMAIN"}
Forwarded == {i \in DOMAIN log : log[i].reply # NULL /\ log[i].reply.rcode = "NOERROR"}

\* StatsAddUp, at every place of the loop: only the query in the buffer is
\* counted before it is settled.
CountersAddUp ==
  /\ query_count = Cardinality(Queries) + (IF current = NULL THEN 0 ELSE 1)
  /\ error_count = recv_errors + Cardinality(Unsent)
  /\ blocked_count = Cardinality(Blocked)
  /\ forwarded_count = Cardinality(Forwarded)

IInv == /\ TypeOK /\ RP!IInv
        /\ ThreadState /\ CountersAddUp
        /\ NothingHeldBetweenQueries /\ BlockedNeverLeaves /\ RepliesMatchQueries

-----------------------------------------------------------------------------
(* The resolver's call, seen from the server. *)

CallStep ==
  \/ \E q \in Datagram : R!forward_query(q)
  \/ R!Release \/ R!Forwarding \/ R!Network \/ UNCHANGED callVars

\* The two instances of Resolver have the same steps: those of forward_query,
LEMMA SameForwarding == R!Forwarding <=> RP!Forwarding
BY DEF R!network, RP!network,
       R!Forwarding, R!OpenSocket, R!OpenFails, R!AllocateBuffer, R!AllocateFails,
       R!Send, R!SendFails, R!Receive, R!ReceiveFails, R!GiveUp, R!Accept, R!Reject,
       R!CloseAndFail, R!Retry, R!Acceptable,
       RP!Forwarding, RP!OpenSocket, RP!OpenFails, RP!AllocateBuffer, RP!AllocateFails,
       RP!Send, RP!SendFails, RP!Receive, RP!ReceiveFails, RP!GiveUp, RP!Accept, RP!Reject,
       RP!CloseAndFail, RP!Retry, RP!Acceptable

\* and all others.
LEMMA SameCall == CallStep <=> [RP!Next]_RP!vars
<1> USE DEF callVars, R!network, RP!network
<1>1. R!Forwarding <=> RP!Forwarding
  BY SameForwarding
<1>2. R!Network <=> RP!Network
  <2>1. \A S : R!Cardinality(S) = RP!Cardinality(S)
    BY DEF R!Cardinality, RP!Cardinality
  <2>2. \A m : R!Arrives(m) <=> RP!Arrives(m)
    BY <2>1 DEF R!Arrives, RP!Arrives
  <2>3. \A s, r : R!Answer(s, r) = RP!Answer(s, r)
    BY DEF R!Answer, RP!Answer
  <2>4. QED
    BY <2>2, <2>3, Zenon DEF R!Network, R!UpstreamAnswers, R!UpstreamMisbehaves,
         RP!Network, RP!UpstreamAnswers, RP!UpstreamMisbehaves
<1>3. R!Release <=> RP!Release
  BY DEF R!Release, RP!Release
<1>4. \A q : R!forward_query(q) <=> RP!forward_query(q)
  BY DEF R!forward_query, RP!forward_query
<1>5. UNCHANGED callVars <=> UNCHANGED RP!vars
  BY DEF RP!vars
<1>6. QED
  BY <1>1, <1>2, <1>3, <1>4, <1>5 DEF CallStep, RP!Next

\* Whatever the server does with the call, its invariant is kept.
LEMMA CallInvariant == RP!IInv /\ CallStep => RP!IInv'
BY SameCall, RP!ResolverStep, Bounds

\* The two readings of forward_query's state, by its module and by its proof,
\* agree on the types.
LEMMA CallTyped == (RP!IInv => R!TypeOK) /\ (RP!IInv' => R!TypeOK')
BY DEF RP!IInv, RP!TypeOK, R!TypeOK, RP!Message, R!Message

\* While forward_query runs it is not idle, keeps its argument, and sends
\* nothing but that.
LEMMA ForwardingFrame ==
  ASSUME R!Forwarding
  PROVE  /\ fpc # "idle" /\ fpc' # "idle" /\ query' = query
         /\ upstream' \subseteq upstream \cup {[port |-> sockfd, query |-> query]}
BY DEF R!Forwarding, R!OpenSocket, R!OpenFails, R!AllocateBuffer, R!AllocateFails,
       R!Send, R!SendFails, R!Receive, R!ReceiveFails, R!GiveUp, R!Accept, R!Reject,
       R!CloseAndFail, R!Retry, R!network

\* The network only moves datagrams; it sees nothing of forward_query.
LEMMA NetworkFrame ==
  ASSUME R!Network
  PROVE  UNCHANGED <<fpc, query, attempt, sockfd, resp_buffer, upstream>>
BY DEF R!Network, R!UpstreamAnswers, R!UpstreamMisbehaves, R!Arrives

-----------------------------------------------------------------------------
(* The log. *)

\* A set of places of a sequence that has grown by one.
LEMMA CountOneMore ==
  ASSUME NEW n \in Nat, NEW X \in SUBSET (1..n), NEW Y \in SUBSET (1..(n + 1)),
         \A i \in 1..n : i \in Y <=> i \in X
  PROVE  /\ Cardinality(X) \in Nat
         /\ Cardinality(Y) = Cardinality(X) + (IF n + 1 \in Y THEN 1 ELSE 0)
<1>1. IsFiniteSet(X)
  <2>1. IsFiniteSet(1..n)
    BY FS_Interval
  <2>2. QED
    BY <2>1, FS_Subset
<1>2. Cardinality(X) \in Nat
  BY <1>1, FS_CardinalityType
<1>0. /\ n + 1 \notin 1..n
      /\ \A i \in 1..(n + 1) : i \in 1..n \/ i = n + 1
      /\ \A i \in 1..n : i \in 1..(n + 1)
  OBVIOUS
<1>3. CASE n + 1 \in Y
  <2>1. Y = X \cup {n + 1} /\ n + 1 \notin X
    BY <1>0, <1>3, Zenon
  <2>2. QED
    BY <1>1, <1>2, <1>3, <2>1, FS_AddElement
<1>4. CASE n + 1 \notin Y
  <2>1. Y = X
    BY <1>0, <1>4, Zenon
  <2>2. QED
    BY <1>2, <1>4, <2>1
<1>5. QED
  BY <1>3, <1>4

\* The counts of what the log holds are numbers.
LEMMA LogCounted ==
  log \in Seq(Entry) =>
    /\ Cardinality(Queries) \in Nat /\ Cardinality(Unsent) \in Nat
    /\ Cardinality(Blocked) \in Nat /\ Cardinality(Forwarded) \in Nat
<1> SUFFICES ASSUME log \in Seq(Entry)
             PROVE  \A X \in SUBSET (1..Len(log)) : Cardinality(X) \in Nat
  BY DEF Queries, Unsent, Blocked, Forwarded
<1>1. IsFiniteSet(1..Len(log))
  BY FS_Interval
<1>2. QED
  BY <1>1, FS_Subset, FS_CardinalityType

\* Settling a datagram counts it under the headings its entry has.
LEMMA LogGrows ==
  ASSUME log \in Seq(Entry), NEW e \in Entry, log' = Append(log, e)
  PROVE  /\ Cardinality(Queries') =
              Cardinality(Queries) + (IF e.query.form # "short" THEN 1 ELSE 0)
         /\ Cardinality(Unsent') = Cardinality(Unsent) + (IF e.sent THEN 0 ELSE 1)
         /\ Cardinality(Blocked') = Cardinality(Blocked)
              + (IF e.reply # NULL /\ e.reply.rcode = "NXDOMAIN" THEN 1 ELSE 0)
         /\ Cardinality(Forwarded') = Cardinality(Forwarded)
              + (IF e.reply # NULL /\ e.reply.rcode = "NOERROR" THEN 1 ELSE 0)
<1> DEFINE n == Len(log)
<1>1. /\ n \in Nat /\ DOMAIN log = 1..n
      /\ DOMAIN (log') = 1..(n + 1)
      /\ log'[n + 1] = e
      /\ \A i \in 1..n : log'[i] = log[i]
  OBVIOUS
<1> HIDE DEF n
<1>2. /\ Queries \in SUBSET (1..n) /\ Queries' \in SUBSET (1..(n + 1))
      /\ \A i \in 1..n : i \in Queries' <=> i \in Queries
      /\ n + 1 \in Queries' <=> e.query.form # "short"
  BY <1>1 DEF Queries
<1>3. /\ Unsent \in SUBSET (1..n) /\ Unsent' \in SUBSET (1..(n + 1))
      /\ \A i \in 1..n : i \in Unsent' <=> i \in Unsent
      /\ n + 1 \in Unsent' <=> ~e.sent
  BY <1>1 DEF Unsent
<1>4. /\ Blocked \in SUBSET (1..n) /\ Blocked' \in SUBSET (1..(n + 1))
      /\ \A i \in 1..n : i \in Blocked' <=> i \in Blocked
      /\ n + 1 \in Blocked' <=> e.reply # NULL /\ e.reply.rcode = "NXDOMAIN"
  BY <1>1 DEF Blocked
<1>5. /\ Forwarded \in SUBSET (1..n) /\ Forwarded' \in SUBSET (1..(n + 1))
      /\ \A i \in 1..n : i \in Forwarded' <=> i \in Forwarded
      /\ n + 1 \in Forwarded' <=> e.reply # NULL /\ e.reply.rcode = "NOERROR"
  BY <1>1 DEF Forwarded
<1>6. Cardinality(Queries') = Cardinality(Queries) + (IF e.query.form # "short" THEN 1 ELSE 0)
  BY <1>1, <1>2, CountOneMore
<1>7. Cardinality(Unsent') = Cardinality(Unsent) + (IF e.sent THEN 0 ELSE 1)
  BY <1>1, <1>3, CountOneMore
<1>8. Cardinality(Blocked') = Cardinality(Blocked)
        + (IF e.reply # NULL /\ e.reply.rcode = "NXDOMAIN" THEN 1 ELSE 0)
  BY <1>1, <1>4, CountOneMore
<1>9. Cardinality(Forwarded') = Cardinality(Forwarded)
        + (IF e.reply # NULL /\ e.reply.rcode = "NOERROR" THEN 1 ELSE 0)
  BY <1>1, <1>5, CountOneMore
<1>10. QED
  BY <1>6, <1>7, <1>8, <1>9

\* What a settled datagram leaves behind is an entry of the log.
LEMMA EntryMatches ==
  ASSUME log \in Seq(Entry), RepliesMatchQueries,
         NEW e \in Entry, log' = Append(log, e),
         e.reply # NULL => /\ e.reply.re.id = e.query.id
                           /\ ~e.reply.relayed => e.reply.re = e.query
  PROVE  log' \in Seq(Entry) /\ RepliesMatchQueries'
<1>1. log' \in Seq(Entry)
  OBVIOUS
<1>2. /\ DOMAIN log = 1..Len(log)
      /\ DOMAIN (log') = 1..(Len(log) + 1)
      /\ Len(log) \in Nat
      /\ log'[Len(log) + 1] = e
      /\ \A i \in 1..Len(log) : log'[i] = log[i]
  OBVIOUS
<1>3. ASSUME NEW i \in 1..(Len(log) + 1), log'[i].reply # NULL
      PROVE  /\ log'[i].reply.re.id = log'[i].query.id
             /\ ~log'[i].reply.relayed => log'[i].reply.re = log'[i].query
  <2>1. CASE i = Len(log) + 1
    BY <1>2, <1>3, <2>1
  <2>2. CASE i \in 1..Len(log)
    BY <1>2, <1>3, <2>2 DEF RepliesMatchQueries
  <2>3. QED
    BY <1>2, <2>1, <2>2
<1>4. QED
  BY <1>1, <1>2, <1>3 DEF RepliesMatchQueries

-----------------------------------------------------------------------------
\* The invariant holds before init_udp_server.
LEMMA ServerInit == Init => IInv
<1> SUFFICES ASSUME Init
             PROVE  IInv
  OBVIOUS
<1>1. RP!IInv
  <2>1. RP!Init
    BY DEF Init, R!Init, RP!Init
  <2>2. QED
    BY <2>1, RP!ResolverInit, Bounds
<1>2. TypeOK
  BY <1>1, CallTyped, Bounds DEF Init, TypeOK
<1>3. Queries = {} /\ Unsent = {} /\ Blocked = {} /\ Forwarded = {}
  BY DEF Init, Queries, Unsent, Blocked, Forwarded
<1>4. CountersAddUp
  BY <1>3, FS_EmptySet DEF Init, CountersAddUp
<1>5. ThreadState /\ NothingHeldBetweenQueries
  BY DEF Init, R!Init, ThreadState, NothingHeldBetweenQueries
<1>6. BlockedNeverLeaves /\ RepliesMatchQueries
  BY DEF Init, R!Init, BlockedNeverLeaves, RepliesMatchQueries
<1>7. QED
  BY <1>1, <1>2, <1>4, <1>5, <1>6 DEF IInv

\* Steps of the resolver's call and of its network leave the server alone.
LEMMA CallKeepsInvariant ==
  ASSUME IInv, Upstream \/ (R!Network /\ UNCHANGED serverVars)
  PROVE  IInv'
<1> USE DEF IInv, serverVars, counts, history
<1>1. RP!IInv'
  BY CallInvariant DEF CallStep, Upstream
<1>2. UNCHANGED serverVars
  BY DEF Upstream
<1>3. TypeOK'
  BY <1>1, <1>2, CallTyped DEF TypeOK
<1>4. CountersAddUp' /\ RepliesMatchQueries'
  BY <1>2 DEF CountersAddUp, Queries, Unsent, Blocked, Forwarded, RepliesMatchQueries
<1>5. CASE R!Network
  <2>1. UNCHANGED <<fpc, query, attempt, sockfd, resp_buffer, upstream>>
    BY <1>5, NetworkFrame
  <2>2. QED
    BY <1>1, <1>2, <1>3, <1>4, <2>1
    DEF ThreadState, NothingHeldBetweenQueries, BlockedNeverLeaves
<1>6. CASE R!Forwarding
  <2>1. /\ fpc # "idle" /\ fpc' # "idle" /\ query' = query
        /\ upstream' \subseteq upstream \cup {[port |-> sockfd, query |-> query]}
    BY <1>6, ForwardingFrame
  <2>2. pc = "forward" /\ query = current /\ Forwardable(current)
    BY <2>1 DEF NothingHeldBetweenQueries, ThreadState
  <2>3. BlockedNeverLeaves'
    BY <2>1, <2>2 DEF BlockedNeverLeaves, Forwardable
  <2>4. ThreadState' /\ NothingHeldBetweenQueries'
    BY <1>2, <2>1, <2>2 DEF ThreadState, NothingHeldBetweenQueries
  <2>5. QED
    BY <1>1, <1>3, <1>4, <2>3, <2>4
<1>7. QED
  BY <1>5, <1>6 DEF Upstream

\* A step of the loop between two datagrams, or one of the environment.
Idle == {"start", "loop", "recv", "shutdown", "stopped", "failed"}

\* Such a step keeps the invariant.
LEMMA QuietStepKeepsInvariant ==
  ASSUME IInv,
         UNCHANGED <<current, response, log, query_count, blocked_count, forwarded_count>>,
         UNCHANGED callVars,
         pc' = pc \/ (pc \in Idle /\ pc' \in Idle),
         server_running' \in BOOLEAN, arrivals' \in 0..MaxDatagrams,
         rx' \in Seq(Datagram), Len(rx') <= RxCapacity,
         \/ UNCHANGED <<error_count, recv_errors>>
         \/ /\ recv_errors < MaxRecvErrors
            /\ recv_errors' = recv_errors + 1 /\ error_count' = error_count + 1
  PROVE  IInv'
<1> USE DEF IInv
<1>1. RP!IInv'
  BY CallInvariant DEF CallStep
<1>2. /\ error_count' \in Nat /\ recv_errors' \in 0..MaxRecvErrors
  BY Bounds DEF TypeOK
<1>3. TypeOK'
  BY <1>1, <1>2, CallTyped DEF TypeOK, Idle
<1>4. CountersAddUp' /\ RepliesMatchQueries'
  <2>1. UNCHANGED <<Queries, Unsent, Blocked, Forwarded>>
    BY DEF Queries, Unsent, Blocked, Forwarded
  <2>2. Cardinality(Unsent) \in Nat /\ recv_errors \in Nat
    BY LogCounted DEF TypeOK, Entry
  <2>3. QED
    BY <2>1, <2>2 DEF CountersAddUp, RepliesMatchQueries
<1>5. ThreadState' /\ NothingHeldBetweenQueries' /\ BlockedNeverLeaves'
  BY DEF ThreadState, Idle, NothingHeldBetweenQueries, BlockedNeverLeaves, callVars
<1>6. QED
  BY <1>1, <1>3, <1>4, <1>5

\* What the loop does between two datagrams, signal_handler and the clients
\* are such steps.
LEMMA QuietSteps ==
  ASSUME IInv,
         \/ init_udp_server \/ TestRunning \/ ReceiveTimeout \/ ReceiveInterrupted
         \/ ReceiveError \/ Shutdown \/ signal_handler
         \/ \E d \in Datagram : ClientSends(d)
  PROVE  IInv'
<1> USE DEF counts, history, Idle
<1>1. /\ TypeOK
      /\ server_running \in BOOLEAN /\ arrivals \in 0..MaxDatagrams
      /\ rx \in Seq(Datagram) /\ Len(rx) <= RxCapacity
  BY DEF IInv, TypeOK
<1>2. CASE init_udp_server
  BY <1>1, <1>2, QuietStepKeepsInvariant DEF init_udp_server
<1>3. CASE TestRunning
  BY <1>1, <1>3, QuietStepKeepsInvariant DEF TestRunning
<1>4. CASE ReceiveTimeout
  BY <1>1, <1>4, QuietStepKeepsInvariant DEF ReceiveTimeout
<1>5. CASE ReceiveInterrupted
  BY <1>1, <1>5, QuietStepKeepsInvariant DEF ReceiveInterrupted
<1>6. CASE ReceiveError
  BY <1>1, <1>6, QuietStepKeepsInvariant DEF ReceiveError
<1>7. CASE Shutdown
  BY <1>1, <1>7, QuietStepKeepsInvariant DEF Shutdown
<1>8. CASE signal_handler
  BY <1>1, <1>8, QuietStepKeepsInvariant DEF signal_handler
<1>9. ASSUME NEW d \in Datagram, ClientSends(d)
      PROVE  IInv'
  <2>1. rx' \in Seq(Datagram) /\ Len(rx') <= RxCapacity
    BY <1>1, <1>9, Bounds DEF ClientSends
  <2>2. arrivals' \in 0..MaxDatagrams
    BY <1>1, <1>9, Bounds DEF ClientSends
  <2>3. QED
    BY <1>1, <1>9, <2>1, <2>2, QuietStepKeepsInvariant DEF ClientSends
<1>10. QED
  BY <1>2, <1>3, <1>4, <1>5, <1>6, <1>7, <1>8, <1>9

-----------------------------------------------------------------------------
(* The steps that settle a datagram. *)

\* The thread makes no call, or takes back what the call holds.
NoCall == (UNCHANGED callVars /\ pc # "forward") \/ R!Release

\* After that nothing of forward_query is left.
LEMMA NothingHeldAfterwards ==
  ASSUME IInv, NoCall
  PROVE  /\ RP!IInv' /\ R!TypeOK'
         /\ fpc' = "idle" /\ sockfd' = NULL /\ resp_buffer' = NULL /\ upstream' = upstream
<1>1. RP!IInv' /\ R!TypeOK'
  BY CallInvariant, CallTyped DEF IInv, CallStep, NoCall
<1>2. CASE UNCHANGED callVars /\ pc # "forward"
  BY <1>1, <1>2 DEF IInv, NothingHeldBetweenQueries, callVars
<1>3. CASE R!Release
  BY <1>1, <1>3 DEF IInv, RP!IInv, RP!NothingLeaks, RP!Returned, R!Release, R!network
<1>4. QED
  BY <1>2, <1>3 DEF NoCall

\* A datagram is dropped: a short one before it is counted, or the query in
\* the buffer.
LEMMA DropKeepsInvariant ==
  ASSUME IInv, NEW d \in Datagram, Drop(d), NoCall, pc # "reply",
         d.form # "short" <=> current # NULL,
         UNCHANGED <<server_running, query_count, recv_errors, arrivals>>,
         rx' \in Seq(Datagram), Len(rx') <= RxCapacity
  PROVE  IInv'
<1> DEFINE e == [query |-> d, reply |-> NULL, sent |-> FALSE]
<1> USE DEF IInv
<1>1. e \in Entry /\ log \in Seq(Entry) /\ log' = Append(log, e)
  BY DEF Entry, TypeOK, Drop
<1>2. e.query = d /\ e.reply = NULL /\ e.sent = FALSE
  OBVIOUS
<1> HIDE DEF e
<1>3. log' \in Seq(Entry) /\ RepliesMatchQueries'
  BY <1>1, <1>2, EntryMatches
<1>4. /\ Cardinality(Queries') = Cardinality(Queries) + (IF d.form # "short" THEN 1 ELSE 0)
      /\ Cardinality(Unsent') = Cardinality(Unsent) + 1
      /\ Cardinality(Blocked') = Cardinality(Blocked)
      /\ Cardinality(Forwarded') = Cardinality(Forwarded)
  BY <1>1, <1>2, LogGrows, LogCounted
<1>5. CountersAddUp'
  <2>1. /\ Cardinality(Queries) \in Nat /\ Cardinality(Unsent) \in Nat
        /\ recv_errors \in Nat
    BY <1>1, LogCounted DEF TypeOK
  <2>2. current' = NULL /\ error_count' = error_count + 1
        /\ UNCHANGED <<query_count, blocked_count, forwarded_count, recv_errors>>
    BY DEF Drop
  <2>3. QED
    BY <1>4, <2>1, <2>2 DEF CountersAddUp
<1>6. /\ RP!IInv' /\ R!TypeOK' /\ fpc' = "idle" /\ sockfd' = NULL /\ resp_buffer' = NULL
      /\ upstream' = upstream
  BY NothingHeldAfterwards
<1>7. TypeOK'
  BY <1>3, <1>6 DEF TypeOK, Drop, Entry
<1>8. ThreadState' /\ NothingHeldBetweenQueries' /\ BlockedNeverLeaves'
  BY <1>6 DEF ThreadState, NothingHeldBetweenQueries, BlockedNeverLeaves, Drop
<1>9. QED
  BY <1>3, <1>5, <1>6, <1>7, <1>8

\* The query is answered with an error code of the server's own, or dropped
\* when its reply cannot be built.
LEMMA ReplyKeepsInvariant ==
  ASSUME IInv, NEW rcode \in {"FORMERR", "NOTIMPL", "NXDOMAIN", "SERVFAIL"},
         Reply(rcode), NoCall, pc \in {"process", "forward"},
         rcode \in Service!Replies(current)
  PROVE  IInv'
<1>1. current \in Datagram /\ current # NULL /\ current.form # "short"
  BY DEF IInv, TypeOK, ThreadState
<1>2. CASE Fail
  BY <1>1, <1>2, DropKeepsInvariant DEF Fail, IInv, TypeOK
<1>3. CASE /\ response' = [re |-> current, relayed |-> FALSE, rcode |-> rcode]
           /\ pc' = "reply"
           /\ UNCHANGED <<server_running, rx, current, counts, history>>
  <2> USE DEF IInv, counts, history
  <2>1. response' \in Response
    BY <1>1, <1>3 DEF Response
  <2>2. Answers(response, current)'
    <3>1. Answers(response', current)
      BY <1>3 DEF Answers
    <3>2. QED
      BY <1>3, <3>1 DEF Answers, Service!Replies, Service!Unusable, Service!NoQuestions, Listed
  <2>3. /\ RP!IInv' /\ R!TypeOK' /\ fpc' = "idle" /\ sockfd' = NULL /\ resp_buffer' = NULL
        /\ upstream' = upstream
    BY NothingHeldAfterwards
  <2>4. TypeOK'
    BY <1>3, <2>1, <2>3 DEF TypeOK
  <2>5. CountersAddUp' /\ RepliesMatchQueries'
    BY <1>3 DEF CountersAddUp, Queries, Unsent, Blocked, Forwarded, RepliesMatchQueries
  <2>6. ThreadState' /\ NothingHeldBetweenQueries' /\ BlockedNeverLeaves'
    BY <1>1, <1>3, <2>1, <2>2, <2>3 DEF ThreadState, NothingHeldBetweenQueries, BlockedNeverLeaves
  <2>7. QED
    BY <2>3, <2>4, <2>5, <2>6
<1>4. QED
  BY <1>2, <1>3 DEF Reply

\* recvfrom: a datagram too short for a header is counted and dropped, any
\* other becomes the current query.
LEMMA ReceiveKeepsInvariant ==
  ASSUME IInv, ReceiveShort \/ ReceiveQuery
  PROVE  IInv'
<1> DEFINE d == Head(rx)
<1>1. /\ d \in Datagram /\ pc = "recv" /\ current = NULL
      /\ rx' \in Seq(Datagram) /\ Len(rx') <= RxCapacity
  <2>1. rx \in Seq(Datagram) /\ Len(rx) <= RxCapacity /\ RxCapacity \in Nat /\ rx # << >>
    BY Bounds DEF IInv, TypeOK, ReceiveShort, ReceiveQuery
  <2>2. rx' = Tail(rx) /\ pc = "recv"
    BY DEF ReceiveShort, ReceiveQuery
  <2>3. current = NULL
    BY <2>2 DEF IInv, ThreadState
  <2>4. QED
    BY <2>1, <2>2, <2>3, HeadTailProperties
<1> HIDE DEF d
<1>2. CASE ReceiveShort
  <2>1. d.form = "short" /\ Drop(d) /\ NoCall
    BY <1>1, <1>2 DEF ReceiveShort, NoCall, d
  <2>2. QED
    BY <1>1, <1>2, <2>1, DropKeepsInvariant DEF ReceiveShort
<1>3. CASE ReceiveQuery
  <2> USE DEF IInv, history
  <2>1. d.form # "short" /\ current' = d /\ pc' = "process" /\ current' # NULL
    BY <1>1, <1>3, NullIsNothing DEF ReceiveQuery, d
  <2>2. RP!IInv' /\ R!TypeOK'
    BY <1>3, CallInvariant, CallTyped DEF CallStep, ReceiveQuery
  <2>3. TypeOK'
    BY <1>1, <1>3, <2>1, <2>2 DEF ReceiveQuery, TypeOK
  <2>4. CountersAddUp' /\ RepliesMatchQueries'
    <3>1. UNCHANGED <<Queries, Unsent, Blocked, Forwarded>>
      BY <1>3 DEF Queries, Unsent, Blocked, Forwarded, ReceiveQuery
    <3>2. Cardinality(Queries) \in Nat
      BY LogCounted DEF TypeOK, Entry
    <3>3. QED
      BY <1>1, <1>3, <2>1, <3>1, <3>2 DEF ReceiveQuery, CountersAddUp, RepliesMatchQueries
  <2>5. ThreadState' /\ NothingHeldBetweenQueries' /\ BlockedNeverLeaves'
    BY <1>1, <1>3, <2>1
    DEF ReceiveQuery, callVars, ThreadState, NothingHeldBetweenQueries, BlockedNeverLeaves
  <2>6. QED
    BY <2>2, <2>3, <2>4, <2>5
<1>4. QED
  BY <1>2, <1>3

\* process_dns_query up to the call of forward_query, one step per decision.
LEMMA DecideKeepsInvariant ==
  ASSUME IInv, ParseFails \/ NoQuestion \/ UnsupportedType \/ BlockedDomain \/ Forward
  PROVE  IInv'
<1>1. /\ pc = "process" /\ current \in Datagram /\ current # NULL /\ current.form # "short"
      /\ rx \in Seq(Datagram) /\ Len(rx) <= RxCapacity
  BY DEF IInv, TypeOK, ThreadState, ParseFails, NoQuestion, UnsupportedType, BlockedDomain, Forward
<1> USE DEF Service!Replies, Service!Unusable, Service!NoQuestions, NoCall, Parses, NoQuestions
<1>2. CASE ParseFails
  BY <1>1, <1>2, DropKeepsInvariant DEF ParseFails, Fail
<1>3. CASE NoQuestion
  BY <1>1, <1>3, ReplyKeepsInvariant DEF NoQuestion
<1>4. CASE UnsupportedType
  BY <1>1, <1>4, ReplyKeepsInvariant DEF UnsupportedType
<1>5. CASE BlockedDomain
  BY <1>1, <1>5, ReplyKeepsInvariant DEF BlockedDomain
<1>6. CASE Forward
  <2> USE DEF IInv, counts, history
  <2>1. RP!IInv' /\ R!TypeOK'
    BY <1>1, <1>6, CallInvariant, CallTyped DEF CallStep, Forward
  <2>2. /\ fpc' = "setup" /\ query' = current /\ upstream' = upstream /\ pc' = "forward"
        /\ UNCHANGED <<server_running, rx, current, response, counts, history>>
    BY <1>6 DEF Forward, R!forward_query, R!network
  <2>3. Forwardable(current)
    BY <1>6 DEF Forward, Forwardable
  <2>4. TypeOK'
    BY <2>1, <2>2 DEF TypeOK
  <2>5. CountersAddUp' /\ RepliesMatchQueries' /\ BlockedNeverLeaves'
    BY <2>2 DEF CountersAddUp, Queries, Unsent, Blocked, Forwarded, RepliesMatchQueries,
                BlockedNeverLeaves
  <2>6. ThreadState' /\ NothingHeldBetweenQueries'
    BY <1>1, <2>2, <2>3 DEF ThreadState, NothingHeldBetweenQueries, Forwardable
  <2>7. QED
    BY <2>1, <2>4, <2>5, <2>6
<1>7. QED
  BY <1>2, <1>3, <1>4, <1>5, <1>6

\* forward_query returns: its response answers the query in the buffer, or
\* one with the same ID.
LEMMA ReturnKeepsInvariant ==
  ASSUME IInv, ForwardSucceeds \/ ForwardFails
  PROVE  IInv'
<1>1. /\ pc = "forward" /\ query = current /\ Forwardable(current)
      /\ current \in Datagram /\ current # NULL /\ current.form # "short" /\ response = NULL
  BY DEF IInv, TypeOK, ThreadState, ForwardSucceeds, ForwardFails, NothingHeldBetweenQueries
<1>2. {"relayed", "SERVFAIL"} \subseteq Service!Replies(current)
  BY <1>1 DEF Forwardable, Service!Replies, Service!Unusable, Service!NoQuestions,
              Parses, NoQuestions
<1>3. CASE ForwardFails
  BY <1>1, <1>2, <1>3, ReplyKeepsInvariant DEF ForwardFails, NoCall
<1>4. CASE ForwardSucceeds
  <2> USE DEF IInv, counts, history
  <2>1. /\ RP!IInv' /\ R!TypeOK' /\ fpc' = "idle" /\ sockfd' = NULL /\ resp_buffer' = NULL
        /\ upstream' = upstream
    BY <1>4, NothingHeldAfterwards DEF NoCall, ForwardSucceeds
  <2>2. /\ response' = [re |-> resp_buffer.re, relayed |-> TRUE, rcode |-> resp_buffer.rcode]
        /\ pc' = "reply" /\ UNCHANGED <<server_running, rx, current, counts, history>>
    BY <1>4 DEF ForwardSucceeds
  <2>3. resp_buffer \in R!Message /\ resp_buffer.re.id = current.id
    BY <1>1, <1>4 DEF ForwardSucceeds, RP!IInv, RP!TypeOK, RP!Message, R!Message,
                      RP!NothingLeaks, RP!AnswersQueryOrItsTwin
  <2>4. response' \in Response
    BY <2>2, <2>3 DEF Response, R!Message
  <2>5. Answers(response', current)
    BY <1>2, <2>2, <2>3 DEF Answers
  <2>6. Answers(response, current)'
    BY <2>2, <2>5 DEF Answers, Service!Replies, Service!Unusable, Service!NoQuestions, Listed
  <2>7. TypeOK'
    BY <2>1, <2>2, <2>4 DEF TypeOK
  <2>8. CountersAddUp' /\ RepliesMatchQueries'
    BY <2>2 DEF CountersAddUp, Queries, Unsent, Blocked, Forwarded, RepliesMatchQueries
  <2>9. ThreadState' /\ NothingHeldBetweenQueries' /\ BlockedNeverLeaves'
    BY <1>1, <2>1, <2>2, <2>4, <2>6
    DEF ThreadState, NothingHeldBetweenQueries, BlockedNeverLeaves
  <2>10. QED
    BY <2>1, <2>7, <2>8, <2>9
<1>5. QED
  BY <1>3, <1>4

\* sendto settles the current query, whether it succeeds or not.
LEMMA SendKeepsInvariant ==
  ASSUME IInv, SendReply
  PROVE  IInv'
<1> USE DEF IInv
<1>1. /\ pc = "reply" /\ current \in Datagram /\ current.form # "short" /\ current # NULL
      /\ response \in Response /\ Answers(response, current) /\ response # NULL
  BY NullIsNothing DEF SendReply, TypeOK, ThreadState
<1>2. PICK sent \in BOOLEAN :
        /\ error_count' = error_count + (IF sent THEN 0 ELSE 1)
        /\ log' = Append(log, [query |-> current, reply |-> response, sent |-> sent])
  BY DEF SendReply
<1>3. /\ blocked_count' = blocked_count + (IF response.rcode = "NXDOMAIN" THEN 1 ELSE 0)
      /\ forwarded_count' = forwarded_count + (IF response.rcode = "NOERROR" THEN 1 ELSE 0)
      /\ response' = NULL /\ current' = NULL /\ pc' = "loop"
      /\ UNCHANGED <<server_running, rx, query_count, recv_errors, arrivals, callVars>>
  BY DEF SendReply
<1> DEFINE e == [query |-> current, reply |-> response, sent |-> sent]
<1>4. /\ e \in Entry /\ log \in Seq(Entry) /\ log' = Append(log, e)
      /\ e.query = current /\ e.reply = response /\ e.sent = sent
  BY <1>1, <1>2 DEF Entry, TypeOK
<1> HIDE DEF e
<1>5. log' \in Seq(Entry) /\ RepliesMatchQueries'
  BY <1>1, <1>4, EntryMatches DEF Answers
<1>6. /\ Cardinality(Queries') = Cardinality(Queries) + 1
      /\ Cardinality(Unsent') = Cardinality(Unsent) + (IF sent THEN 0 ELSE 1)
      /\ Cardinality(Blocked') = Cardinality(Blocked)
           + (IF response.rcode = "NXDOMAIN" THEN 1 ELSE 0)
      /\ Cardinality(Forwarded') = Cardinality(Forwarded)
           + (IF response.rcode = "NOERROR" THEN 1 ELSE 0)
  BY <1>1, <1>4, LogGrows
<1>7. /\ Cardinality(Queries) \in Nat /\ Cardinality(Unsent) \in Nat
      /\ Cardinality(Blocked) \in Nat /\ Cardinality(Forwarded) \in Nat /\ recv_errors \in Nat
  BY <1>4, LogCounted DEF TypeOK
<1>8. CountersAddUp'
  BY <1>1, <1>2, <1>3, <1>6, <1>7 DEF CountersAddUp
<1>9. RP!IInv' /\ R!TypeOK'
  BY <1>3, CallInvariant, CallTyped DEF CallStep
<1>10. TypeOK'
  BY <1>2, <1>3, <1>5, <1>9 DEF TypeOK, Entry
<1>11. ThreadState' /\ NothingHeldBetweenQueries' /\ BlockedNeverLeaves'
  BY <1>1, <1>3 DEF callVars, ThreadState, NothingHeldBetweenQueries, BlockedNeverLeaves
<1>12. QED
  BY <1>5, <1>8, <1>9, <1>10, <1>11

\* The inductive step.
LEMMA ServerStep == IInv /\ [Next]_vars => IInv'
<1> SUFFICES ASSUME IInv, [Next]_vars
             PROVE  IInv'
  OBVIOUS
<1>1. CASE UNCHANGED vars
  <2>1. UNCHANGED <<serverVars, counts, history, callVars>>
    BY <1>1 DEF vars, serverVars, counts, history
  <2>2. /\ server_running' \in BOOLEAN /\ arrivals' \in 0..MaxDatagrams
        /\ rx' \in Seq(Datagram) /\ Len(rx') <= RxCapacity
    BY <2>1 DEF IInv, TypeOK, serverVars, history
  <2>3. QED
    BY <2>1, <2>2, QuietStepKeepsInvariant DEF serverVars, counts, history
<1>2. CASE Thread
  BY <1>2, QuietSteps, ReceiveKeepsInvariant, DecideKeepsInvariant, ReturnKeepsInvariant,
     SendKeepsInvariant, CallKeepsInvariant
  DEF Thread, Receiving, Processing
<1>3. CASE Environment
  BY <1>3, QuietSteps, CallKeepsInvariant DEF Environment
<1>4. CASE Terminated
  BY <1>1, <1>4 DEF Terminated
<1>5. QED
  BY <1>1, <1>2, <1>3, <1>4 DEF Next

-----------------------------------------------------------------------------
\* The strengthened invariant holds in every reachable state.
THEOREM ServerInvariant == Spec => []IInv
<1>1. Init => IInv
  BY ServerInit
<1>2. IInv /\ [Next]_vars => IInv'
  BY ServerStep
<1>3. QED
  BY <1>1, <1>2, PTL DEF Spec

\* Type correctness.
THEOREM ServerTypeCorrect == Spec => []TypeOK
<1>1. IInv => TypeOK
  BY DEF IInv
<1>2. QED
  BY <1>1, ServerInvariant, PTL

\* On whichever path the loop comes round, it holds no response, no socket
\* and no buffer.
THEOREM LoopHoldsNothing == Spec => []NothingHeldBetweenQueries
<1>1. IInv => NothingHeldBetweenQueries
  BY DEF IInv
<1>2. QED
  BY <1>1, ServerInvariant, PTL

\* The list is obeyed: no listed name, and no type but A, reaches upstream.
THEOREM BlockedStaysInside == Spec => []BlockedNeverLeaves
<1>1. IInv => BlockedNeverLeaves
  BY DEF IInv
<1>2. QED
  BY <1>1, ServerInvariant, PTL

\* Every reply carries the ID of the query it settles.
THEOREM RepliesCarryTheirQuery == Spec => []RepliesMatchQueries
<1>1. IInv => RepliesMatchQueries
  BY DEF IInv
<1>2. QED
  BY <1>1, ServerInvariant, PTL

\* The four counters account for every datagram.
THEOREM StatisticsAreExact == Spec => []StatsAddUp
<1>1. IInv => StatsAddUp
  <2> SUFFICES ASSUME IInv, pc \in {"loop", "shutdown", "stopped"}
               PROVE  /\ query_count = Cardinality(Queries)
                      /\ error_count = recv_errors + Cardinality(Unsent)
                      /\ blocked_count = Cardinality(Blocked)
                      /\ forwarded_count = Cardinality(Forwarded)
    BY DEF StatsAddUp, Count, Queries, Unsent, Blocked, Forwarded
  <2>1. current = NULL
    BY DEF IInv, ThreadState
  <2>2. Cardinality(Queries) \in Nat
    BY LogCounted DEF IInv, TypeOK, Entry
  <2>3. QED
    BY <2>1, <2>2 DEF IInv, CountersAddUp
<1>2. QED
  BY <1>1, ServerInvariant, PTL

\* If clients never share a transaction ID, every reply is about the very
\* query it settles, the relayed ones included.
RepliesAreTheirs == \A i \in DOMAIN log : log[i].reply # NULL => log[i].reply.re = log[i].query

\* When no two datagrams share an id, each reply answers the query it settles.
THEOREM DistinctIdsReplies ==
  ASSUME \A d, e \in Datagram : d.id = e.id => d = e
  PROVE  Spec => []RepliesAreTheirs
<1>1. ASSUME IInv
      PROVE  RepliesAreTheirs
  <2> SUFFICES ASSUME NEW i \in DOMAIN log, log[i].reply # NULL
               PROVE  log[i].reply.re = log[i].query
    BY DEF RepliesAreTheirs
  <2>1. log[i] \in Entry
    <3>1. log \in Seq(Entry)
      BY <1>1 DEF IInv, TypeOK, Entry
    <3>2. QED
      BY <3>1
  <2>2. log[i].reply.re \in Datagram /\ log[i].query \in Datagram
    BY <2>1 DEF Entry, Response
  <2>3. log[i].reply.re.id = log[i].query.id
    BY <1>1 DEF IInv, RepliesMatchQueries
  <2>4. QED
    BY <2>2, <2>3
<1>2. QED
  BY <1>1, ServerInvariant, PTL

-----------------------------------------------------------------------------
(* The program implements FilterService. *)

\* What the refinement mapping makes of the state.
Waiting == (IF current = NULL THEN << >> ELSE <<current>>) \o rx
Outcomes == [i \in DOMAIN log |-> [query |-> log[i].query, outcome |-> Outcome(log[i])]]
Open == pc \notin {"stopped", "failed"}

\* An entry more in the log is an outcome more of the service.
LEMMA OutcomesGrow ==
  ASSUME log \in Seq(Entry), NEW e \in Entry, log' = Append(log, e)
  PROVE  Outcomes' = Append(Outcomes, [query |-> e.query, outcome |-> Outcome(e)])
<1> DEFINE O(x) == [query |-> x.query, outcome |-> Outcome(x)]
<1>1. /\ Len(log) \in Nat /\ DOMAIN log = 1..Len(log)
      /\ DOMAIN (log') = 1..(Len(log) + 1)
      /\ log'[Len(log) + 1] = e
      /\ \A i \in 1..Len(log) : log'[i] = log[i]
  OBVIOUS
<1>2. Outcomes = [i \in 1..Len(log) |-> O(log[i])]
  BY <1>1 DEF Outcomes
<1>3. Outcomes' = [i \in 1..(Len(log) + 1) |-> O(log'[i])]
  BY <1>1 DEF Outcomes, Outcome
<1> HIDE DEF O
<1>4. Outcomes' = Append(Outcomes, O(e))
  BY <1>1, <1>2, <1>3
<1>5. QED
  BY <1>4 DEF O

\* Settling the oldest datagram that waits is a step of the service.
LEMMA SettleRefines ==
  ASSUME IInv, NEW e \in Entry, log' = Append(log, e),
         Waiting # << >>, e.query = Head(Waiting), Waiting' = Tail(Waiting),
         Outcome(e) \in Service!Replies(e.query) \cup {"none"},
         Open, Open'
  PROVE  Service!Settle
<1>1. Outcomes' = Append(Outcomes, [query |-> e.query, outcome |-> Outcome(e)])
  BY OutcomesGrow DEF IInv, TypeOK, Entry
<1>2. QED
  BY <1>1 DEF Service!Settle, Waiting, Outcomes, Open

\* What changes neither the queue nor the log is a stutter of the service.
LEMMA StutterRefines ==
  ASSUME UNCHANGED <<Waiting, log, Open>>
  PROVE  UNCHANGED Service!vars
BY DEF Service!vars, Waiting, Open, Outcome

\* A datagram that is dropped is settled without a reply.
LEMMA DropRefines ==
  ASSUME IInv, NEW d \in Datagram, Drop(d), Open, Waiting # << >>,
         d = Head(Waiting), Waiting' = Tail(Waiting)
  PROVE  Service!Settle
<1> DEFINE e == [query |-> d, reply |-> NULL, sent |-> FALSE]
<1>1. e \in Entry /\ log' = Append(log, e)
  BY DEF Entry, Drop
<1>2. e.query = d /\ Outcome(e) = "none"
  BY DEF Outcome
<1>3. Open'
  BY DEF Drop, Open
<1> HIDE DEF e
<1>4. QED
  BY <1>1, <1>2, <1>3, SettleRefines

\* While a query is in the buffer it is the oldest one that waits.
LEMMA WaitingInProcess ==
  ASSUME IInv, current # NULL
  PROVE  /\ current \in Datagram /\ rx \in Seq(Datagram)
         /\ Waiting # << >> /\ Head(Waiting) = current /\ Tail(Waiting) = rx
         /\ (current' = NULL /\ rx' = rx => Waiting' = Tail(Waiting))
<1>1. current \in Datagram /\ rx \in Seq(Datagram)
  BY DEF IInv, TypeOK
<1>2. Waiting = <<current>> \o rx
  BY DEF Waiting
<1>3. Waiting # << >> /\ Head(Waiting) = current /\ Tail(Waiting) = rx
  BY <1>1, <1>2
<1>4. current' = NULL /\ rx' = rx => Waiting' = << >> \o rx
  BY DEF Waiting
<1>5. << >> \o rx = rx
  BY <1>1, ConcatEmptySeq
<1>6. QED
  BY <1>1, <1>3, <1>4, <1>5

\* An error reply is only built, or the query is dropped.
LEMMA ReplyRefines ==
  ASSUME IInv, NEW rcode, Reply(rcode), pc \in {"process", "forward"}
  PROVE  [Service!Next]_Service!vars
<1>1. current # NULL /\ Open
  BY DEF IInv, ThreadState, Open
<1>2. CASE Fail
  <2>1. rx' = rx /\ current' = NULL /\ Drop(current)
    BY <1>2 DEF Fail, Drop
  <2>2. QED
    BY <1>1, <2>1, WaitingInProcess, DropRefines DEF Service!Next
<1>3. CASE pc' = "reply" /\ UNCHANGED <<server_running, rx, current, counts, history>>
  BY <1>1, <1>3, StutterRefines DEF Waiting, Open, history
<1>4. QED
  BY <1>2, <1>3 DEF Reply

\* Every step of the program is a step of the service, or changes nothing
\* the service speaks of.
LEMMA ServerRefines == IInv /\ [Next]_vars => [Service!Next]_Service!vars
<1> SUFFICES ASSUME IInv, [Next]_vars
             PROVE  [Service!Next]_Service!vars
  OBVIOUS
<1> USE DEF counts, history
<1>1. CASE init_udp_server \/ Shutdown
  <2>1. UNCHANGED <<Waiting, log, Outcomes>> /\ Open
    BY <1>1 DEF init_udp_server, Shutdown, Waiting, Outcomes, Outcome, Open
  <2>2. CASE Open'
    BY <2>1, <2>2, StutterRefines DEF Open
  <2>3. CASE ~Open'
    BY <2>1, <2>3 DEF Service!Next, Service!Stop, Waiting, Outcomes, Open
  <2>4. QED
    BY <2>2, <2>3
<1>2. CASE TestRunning \/ ReceiveTimeout \/ ReceiveInterrupted \/ ReceiveError \/ signal_handler
  BY <1>2, StutterRefines
  DEF TestRunning, ReceiveTimeout, ReceiveInterrupted, ReceiveError, signal_handler, Waiting, Open
<1>3. ASSUME NEW d \in Datagram, ClientSends(d)
      PROVE  [Service!Next]_Service!vars
  <2>1. rx \in Seq(Datagram) /\ current \in Datagram \cup {NULL}
    BY DEF IInv, TypeOK
  <2>2. CASE rx' = rx
    BY <1>3, <2>2, StutterRefines DEF ClientSends, Waiting, Open
  <2>3. CASE rx' = Append(rx, d)
    <3>1. Waiting' = Append(Waiting, d)
      <4>1. Waiting' = (IF current = NULL THEN << >> ELSE <<current>>) \o Append(rx, d)
        BY <1>3, <2>3 DEF ClientSends, Waiting
      <4>2. CASE current = NULL
        BY <2>1, <4>1, <4>2, ConcatEmptySeq, Append(rx, d) \in Seq(Datagram) DEF Waiting
      <4>3. CASE current # NULL
        <5>1. <<current>> \o Append(rx, d) = Append(<<current>> \o rx, d)
          BY <2>1, <4>3
        <5>2. QED
          BY <4>1, <4>3, <5>1 DEF Waiting
      <4>4. QED
        BY <4>2, <4>3
    <3>2. Open /\ UNCHANGED <<Open, Outcomes>>
      BY <1>3 DEF ClientSends, Open, Outcomes, Outcome
    <3>3. Service!Take(d)
      BY <3>1, <3>2 DEF Service!Take, Waiting, Open, Outcomes
    <3>4. QED
      BY <3>3 DEF Service!Next
  <2>4. QED
    BY <1>3, <2>2, <2>3 DEF ClientSends
<1>4. CASE ReceiveShort
  <2>1. rx \in Seq(Datagram) /\ rx # << >> /\ rx' = Tail(rx) /\ Drop(Head(rx)) /\ Open
    BY <1>4 DEF IInv, TypeOK, ReceiveShort, Open
  <2>2. current = NULL /\ current' = NULL
    BY <1>4 DEF IInv, ThreadState, ReceiveShort, Drop
  <2>3. Waiting = rx /\ Waiting' = Tail(rx) /\ Head(rx) \in Datagram
    BY <2>1, <2>2, ConcatEmptySeq, HeadTailProperties DEF Waiting
  <2>4. QED
    BY <2>1, <2>3, DropRefines DEF Service!Next
<1>5. CASE ReceiveQuery
  <2>1. /\ rx \in Seq(Datagram) /\ rx # << >> /\ rx' = Tail(rx) /\ current' = Head(rx)
        /\ UNCHANGED <<Open, log>>
    BY <1>5 DEF IInv, TypeOK, ReceiveQuery, Open
  <2>2. current = NULL /\ current' # NULL /\ Head(rx) \in Datagram
    BY <1>5, <2>1, HeadTailProperties, NullIsNothing DEF IInv, ThreadState, ReceiveQuery
  <2>3. Waiting = rx /\ Waiting' = <<Head(rx)>> \o Tail(rx)
    BY <2>1, <2>2, ConcatEmptySeq DEF Waiting
  <2>4. <<Head(rx)>> \o Tail(rx) = rx
    BY <2>1, <2>2
  <2>5. QED
    BY <2>1, <2>3, <2>4, StutterRefines
<1>6. CASE ParseFails
  <2>1. current # NULL /\ rx' = rx /\ current' = NULL /\ Drop(current) /\ Open
    BY <1>6 DEF IInv, ThreadState, ParseFails, Fail, Drop, Open
  <2>2. QED
    BY <2>1, WaitingInProcess, DropRefines DEF Service!Next
<1>7. CASE NoQuestion \/ UnsupportedType \/ BlockedDomain \/ ForwardFails
  BY <1>7, ReplyRefines DEF NoQuestion, UnsupportedType, BlockedDomain, ForwardFails
<1>8. CASE Forward \/ ForwardSucceeds
  BY <1>8, StutterRefines DEF Forward, ForwardSucceeds, Waiting, Open
<1>9. CASE SendReply
  <2>1. /\ current # NULL /\ current' = NULL /\ rx' = rx /\ Open /\ Open'
        /\ response \in Response /\ Answers(response, current)
    BY <1>9 DEF SendReply, IInv, ThreadState, Open
  <2>2. PICK sent \in BOOLEAN :
          log' = Append(log, [query |-> current, reply |-> response, sent |-> sent])
    BY <1>9 DEF SendReply
  <2> DEFINE e == [query |-> current, reply |-> response, sent |-> sent]
  <2>3. e \in Entry /\ e.query = current
    BY <2>1, WaitingInProcess DEF Entry
  <2>4. Outcome(e) \in Service!Replies(current) \cup {"none"}
    BY <2>1 DEF Outcome, Answers
  <2>5. log' = Append(log, e)
    BY <2>2
  <2> HIDE DEF e
  <2>6. QED
    BY <2>1, <2>3, <2>4, <2>5, WaitingInProcess, SettleRefines DEF Service!Next
<1>10. CASE Upstream \/ (R!Network /\ UNCHANGED serverVars) \/ UNCHANGED vars
  BY <1>10, StutterRefines DEF Upstream, vars, serverVars, Waiting, Open
<1>11. QED
  BY <1>1, <1>2, <1>3, <1>4, <1>5, <1>6, <1>7, <1>8, <1>9, <1>10
  DEF Next, Thread, Receiving, Processing, Environment, Terminated

\* Whatever the upstream server, the kernel and the allocator do, clients see
\* a behaviour of FilterService.
THEOREM ServerImplementsService == Spec => ImplementsService
<1>1. Init => Service!Init
  BY DEF Init, Service!Init
<1>2. IInv /\ [Next]_vars => [Service!Next]_Service!vars
  BY ServerRefines
<1>3. QED
  BY <1>1, <1>2, ServerInvariant, PTL DEF Spec, Service!Spec, ImplementsService
-----------------------------------------------------------------------------
(* The work runs out. *)

\* A bound on the thread's own steps until the query in its buffer is settled.
QueryLeft ==
  CASE pc = "process" -> 2 * UPSTREAM_RETRIES + 7
    [] pc = "forward" -> RP!StepsLeft + 2
    [] pc = "reply"   -> 1
    [] OTHER          -> 0

\* Each step of the thread counts down, and nothing a client, a signal or the
\* network does gives it more to do.
QueryRunsDown ==
  /\ QueryLeft \in 0..(2 * UPSTREAM_RETRIES + 7)
  /\ QueryLeft = 0 <=> current = NULL
  /\ Thread /\ current # NULL => QueryLeft' < QueryLeft
  /\ Environment => QueryLeft' = QueryLeft

\* A bound on its steps until it has stopped, once a signal was handled: that
\* may be while it is on its way into recvfrom, with datagrams in the queue.
StopLeft ==
  CASE pc = "recv"                            -> 2 * UPSTREAM_RETRIES + 10
    [] pc \in {"process", "forward", "reply"} -> QueryLeft + 2
    [] pc = "loop"                            -> 2
    [] pc = "shutdown"                        -> 1
    [] OTHER                                  -> 0

\* It counts down, whatever else arrives.
StopRunsDown ==
  ~server_running =>
    /\ StopLeft \in 0..(2 * UPSTREAM_RETRIES + 10)
    /\ StopLeft = 0 <=> pc = "stopped"
    /\ Thread => StopLeft' < StopLeft
    /\ Environment => StopLeft' = StopLeft

\* Before the handlers are installed no signal is handled.
HandledLater == pc \in {"start", "failed"} => server_running

\* Only a signal clears the flag, and only while the server is up.
LEMMA FlagIsKept == HandledLater /\ [Next]_vars => HandledLater'
<1> SUFFICES ASSUME HandledLater, [Next]_vars, pc' \in {"start", "failed"}
             PROVE  server_running'
  BY DEF HandledLater
<1>1. CASE init_udp_server
  BY <1>1 DEF init_udp_server, HandledLater
<1>2. CASE TestRunning \/ Receiving \/ SendReply \/ Shutdown
  BY <1>2 DEF TestRunning, Receiving, ReceiveShort, ReceiveQuery, ReceiveTimeout,
     ReceiveInterrupted, ReceiveError, Drop, SendReply, Shutdown
<1>3. CASE Processing
  BY <1>3 DEF Processing, ParseFails, NoQuestion, UnsupportedType, BlockedDomain, Forward,
     ForwardSucceeds, ForwardFails, Reply, Fail, Drop
<1>4. CASE (\E d \in Datagram : ClientSends(d)) \/ signal_handler
  BY <1>4 DEF ClientSends, signal_handler
<1>5. CASE UNCHANGED serverVars
  BY <1>5 DEF serverVars, HandledLater
<1>6. CASE UNCHANGED vars
  BY <1>6 DEF vars, serverVars, HandledLater
<1>7. QED
  BY <1>1, <1>2, <1>3, <1>4, <1>5, <1>6 DEF Next, Thread, Environment, Upstream, Terminated

\* Where the server's own actions lead.
LEMMA ThreadMoves ==
  ASSUME Thread
  PROVE  \/ pc = "start" /\ pc' \in {"loop", "failed"}
         \/ pc = "loop" /\ pc' = (IF server_running THEN "recv" ELSE "shutdown")
         \/ pc = "recv" /\ pc' = "loop"
         \/ pc = "recv" /\ pc' = "process"
         \/ pc = "recv" /\ pc' = "shutdown"
         \/ pc = "process" /\ pc' \in {"reply", "loop"}
         \/ pc = "process" /\ pc' = "forward" /\ fpc' = "setup"
         \/ pc = "forward" /\ pc' \in {"reply", "loop"}
         \/ pc' = pc /\ R!Forwarding
         \/ pc = "reply" /\ pc' = "loop"
         \/ pc = "shutdown" /\ pc' = "stopped"
<1>1. CASE init_udp_server \/ TestRunning \/ SendReply \/ Shutdown
  BY <1>1 DEF init_udp_server, TestRunning, SendReply, Shutdown
<1>2. CASE Receiving
  BY <1>2 DEF Receiving, ReceiveShort, ReceiveQuery, ReceiveTimeout,
     ReceiveInterrupted, ReceiveError, Drop
<1>3. CASE Processing
  BY <1>3 DEF Processing, ParseFails, NoQuestion, UnsupportedType, BlockedDomain, Forward,
     ForwardSucceeds, ForwardFails, Reply, Fail, Drop, R!forward_query
<1>4. CASE Upstream
  BY <1>4 DEF Upstream, serverVars
<1>5. QED
  BY <1>1, <1>2, <1>3, <1>4 DEF Thread

\* The environment moves neither the loop nor the call.
LEMMA EnvironmentMoves ==
  ASSUME Environment
  PROVE  pc' = pc /\ fpc' = fpc /\ attempt' = attempt
<1>1. CASE (\E d \in Datagram : ClientSends(d)) \/ signal_handler
  BY <1>1 DEF ClientSends, signal_handler, callVars
<1>2. CASE R!Network /\ UNCHANGED serverVars
  BY <1>2, NetworkFrame DEF serverVars
<1>3. QED
  BY <1>1, <1>2 DEF Environment

\* What is left of a query, and of the way to the end, where the server is.
LEMMA WorkIsBounded ==
  ASSUME IInv
  PROVE  /\ QueryLeft \in 0..(2 * UPSTREAM_RETRIES + 7)
         /\ QueryLeft = 0 <=> current = NULL
         /\ pc = "forward" => RP!StepsLeft \in 0..(2 * UPSTREAM_RETRIES + 4)
<1>1. /\ pc \in {"process", "forward", "reply"} <=> current # NULL
      /\ UPSTREAM_RETRIES \in Nat \ {0}
  BY Bounds DEF IInv, ThreadState
<1>2. RP!StepsLeft \in 0..(2 * UPSTREAM_RETRIES + 4)
  BY <1>1, RP!CallIsBounded DEF IInv, RP!StepsBounded
<1>3. QED
  BY <1>1, <1>2 DEF QueryLeft

\* A step of forward_query is one of those its own theorem counts.
LEMMA CallCountsDown ==
  ASSUME IInv, R!Forwarding
  PROVE  RP!StepsLeft' < RP!StepsLeft
<1>1. RP!Forwarding /\ RP!Next /\ RP!IInv /\ UPSTREAM_RETRIES \in Nat \ {0}
  BY SameForwarding, Bounds DEF RP!Next, IInv
<1>2. QED
  BY <1>1, RP!CallRunsDown DEF RP!RunsDown

\* Each step of the thread gets on.
LEMMA WorkCountsDown ==
  ASSUME IInv, HandledLater, Next
  PROVE  QueryRunsDown /\ StopRunsDown
<1> DEFINE U == UPSTREAM_RETRIES
           left == RP!StepsLeft
<1>1. /\ U \in Nat \ {0}
      /\ QueryLeft \in 0..(2 * U + 7)
      /\ QueryLeft = 0 <=> current = NULL
      /\ pc = "forward" => left \in 0..(2 * U + 4)
      /\ pc \in {"process", "forward", "reply"} <=> current # NULL
      /\ pc \in {"start", "loop", "recv", "process", "forward", "reply",
                 "shutdown", "stopped", "failed"}
      /\ pc \in {"start", "failed"} => server_running
  BY Bounds, WorkIsBounded DEF IInv, ThreadState, TypeOK, HandledLater
<1>2. ASSUME R!Forwarding, IInv
      PROVE  left' < left /\ fpc # "idle"
  BY <1>2, CallCountsDown, ForwardingFrame
<1>3. fpc # "idle" => pc = "forward"
  BY DEF IInv, NothingHeldBetweenQueries
<1>4. fpc' = "setup" => left' = 2 * U + 4
  BY DEF RP!StepsLeft
<1>5. Environment => pc' = pc /\ left' = left
  BY EnvironmentMoves DEF RP!StepsLeft
<1>6. left' \in Int
  <2>1. IInv'
    BY ServerStep
  <2>2. RP!StepsBounded'
    BY <1>1, <2>1, RP!CallIsBounded DEF IInv
  <2>3. QED
    BY <1>1, <2>2 DEF RP!StepsBounded
<1> HIDE DEF left
<1>7. QueryRunsDown
  <2>1. ASSUME Thread, current # NULL
        PROVE  QueryLeft' < QueryLeft
    <3>1. \/ pc = "process" /\ pc' \in {"reply", "loop"}
          \/ pc = "process" /\ pc' = "forward" /\ fpc' = "setup"
          \/ pc = "forward" /\ pc' \in {"reply", "loop"}
          \/ pc' = pc /\ pc = "forward" /\ left' < left
          \/ pc = "reply" /\ pc' = "loop"
      BY <1>1, <1>2, <1>3, <2>1, ThreadMoves
    <3>2. QED
      BY <1>1, <1>4, <1>6, <3>1 DEF QueryLeft, left
  <2>2. Environment => QueryLeft' = QueryLeft
    BY <1>5 DEF QueryLeft, left
  <2>3. QED
    BY <1>1, <2>1, <2>2 DEF QueryRunsDown
<1>8. ASSUME ~server_running
      PROVE  /\ StopLeft \in 0..(2 * U + 10)
             /\ StopLeft = 0 <=> pc = "stopped"
             /\ Thread => StopLeft' < StopLeft
             /\ Environment => StopLeft' = StopLeft
  <2>1. StopLeft \in 0..(2 * U + 10) /\ (StopLeft = 0 <=> pc = "stopped")
    BY <1>1, <1>8 DEF StopLeft
  <2>2. ASSUME Thread
        PROVE  StopLeft' < StopLeft
    <3>1. CASE pc \in {"process", "forward", "reply"}
      <4>1. QueryLeft' < QueryLeft
        BY <1>1, <1>7, <2>2, <3>1 DEF QueryRunsDown
      <4>2. pc' \in {"process", "forward", "reply", "loop"}
        BY <3>1, <2>2, ThreadMoves
      <4>3. QueryLeft' = 0 \/ QueryLeft' \in Int
        BY <1>1, <1>6 DEF QueryLeft, left
      <4>4. QueryLeft >= 1
        BY <1>1, <3>1
      <4> HIDE DEF QueryLeft
      <4>5. QED
        BY <1>1, <3>1, <4>1, <4>2, <4>3, <4>4 DEF StopLeft
    <3>2. CASE pc \notin {"process", "forward", "reply"}
      <4>1. \/ pc = "loop" /\ pc' = "shutdown"
            \/ pc = "recv" /\ pc' \in {"loop", "process", "shutdown"}
            \/ pc = "shutdown" /\ pc' = "stopped"
        BY <1>1, <1>2, <1>3, <1>8, <2>2, <3>2, ThreadMoves
      <4>2. QED
        BY <1>1, <4>1 DEF StopLeft, QueryLeft
    <3>3. QED
      BY <3>1, <3>2
  <2>3. Environment => StopLeft' = StopLeft
    BY <1>5 DEF StopLeft, QueryLeft, left
  <2>4. QED
    BY <2>1, <2>2, <2>3
<1>9. QED
  BY <1>7, <1>8 DEF StopRunsDown

\* A query taken from the socket is settled after at most
\* 2 * UPSTREAM_RETRIES + 7 steps of the thread.
THEOREM QueriesRunDown == Spec => [][QueryRunsDown]_vars
<1>1. Init => HandledLater
  BY DEF Init, HandledLater
<1>2. IInv /\ HandledLater /\ [Next]_vars => [QueryRunsDown]_vars
  BY WorkCountsDown
<1>3. QED
  BY <1>1, <1>2, FlagIsKept, ServerInvariant, PTL DEF Spec

\* After a signal the server stops after at most 2 * UPSTREAM_RETRIES + 10 steps
\* of the thread, one more query included.
THEOREM StoppingRunsDown == Spec => [][StopRunsDown]_vars
<1>1. Init => HandledLater
  BY DEF Init, HandledLater
<1>2. IInv /\ HandledLater /\ [Next]_vars => [StopRunsDown]_vars
  BY WorkCountsDown
<1>3. QED
  BY <1>1, <1>2, FlagIsKept, ServerInvariant, PTL DEF Spec
=============================================================================
