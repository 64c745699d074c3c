--------------------------- MODULE ResolverProofs ---------------------------
(***************************************************************************)
(* For every set of queries, ports and faults and any number of retries:   *)
(* forward_query leaks nothing, and what it returns is an answer to the    *)
(* caller's query or to one with the same ID that left through that port.  *)
(***************************************************************************)
EXTENDS Resolver, TLAPS

\* Nothing arrives that answers no query; the network keeps its promises
\* across calls, which is what lets a late answer reach a later call.
AnswersWereAsked ==
  \A m \in inflight : [port |-> m.port, query |-> m.re] \in upstream

\* What the code knows at each place of the call.
CallState ==
  /\ fpc # "idle" => query \in Query
  /\ fpc \in {"opened", "send", "recv", "check"} => sockfd \in Port
  /\ fpc \in {"recv", "check"} => [port |-> sockfd, query |-> query] \in upstream
  /\ fpc = "recv" => attempt < UPSTREAM_RETRIES
  /\ fpc = "check" => resp_buffer \in inflight /\ resp_buffer.port = sockfd

IInv == TypeOK /\ NothingLeaks /\ AnswersQueryOrItsTwin
          /\ AnswersWereAsked /\ CallState

\* The invariant holds before forward_query is called.
LEMMA ResolverInit == Init => IInv
BY RetriesPositive DEF Init, IInv, TypeOK, NothingLeaks, AnswersQueryOrItsTwin,
       AnswersWereAsked, CallState, Returned

\* A datagram that arrives answers some query already sent.
LEMMA ArrivalKeepsInvariant ==
  ASSUME IInv, NEW m \in Message, Arrives(m),
         [port |-> m.port, query |-> m.re] \in upstream
  PROVE  IInv'
<1>1. /\ inflight' = inflight \cup {m}
      /\ UNCHANGED <<fpc, query, attempt, sockfd, resp_buffer, upstream>>
  BY DEF Arrives
<1>2. TypeOK'
  BY <1>1 DEF IInv, TypeOK
<1>3. NothingLeaks' /\ AnswersQueryOrItsTwin'
  BY <1>1 DEF IInv, NothingLeaks, AnswersQueryOrItsTwin, Returned
<1>4. AnswersWereAsked' /\ CallState'
  BY <1>1 DEF IInv, AnswersWereAsked, CallState
<1>5. QED
  BY <1>2, <1>3, <1>4 DEF IInv

\* The inductive step, one step per action.
LEMMA ResolverStep == IInv /\ [Next]_vars => IInv'
<1> SUFFICES ASSUME IInv, [Next]_vars
             PROVE  IInv'
  OBVIOUS
<1> USE RetriesPositive DEF IInv, TypeOK, NothingLeaks, AnswersQueryOrItsTwin, AnswersWereAsked,
            CallState, Returned, network
<1>1. ASSUME NEW q \in Query, forward_query(q)
      PROVE  IInv'
  BY <1>1 DEF forward_query
<1>2. CASE Release
  BY <1>2 DEF Release
<1>3. CASE OpenSocket
  BY <1>3 DEF OpenSocket
<1>4. CASE OpenFails
  BY <1>4 DEF OpenFails
<1>5. CASE AllocateBuffer
  BY <1>5 DEF AllocateBuffer
<1>6. CASE AllocateFails
  BY <1>6 DEF AllocateFails
<1>7. CASE Send
  <2>1. sockfd \in Port /\ query \in Query
    BY <1>7 DEF Send
  <2>2. upstream' \subseteq [port : Port, query : Query] /\ upstream \subseteq upstream'
    BY <1>7, <2>1 DEF Send
  <2>3. AnswersWereAsked'
    BY <1>7, <2>2 DEF Send
  <2>4. TypeOK' /\ NothingLeaks' /\ AnswersQueryOrItsTwin' /\ CallState'
    BY <1>7, <2>1, <2>2 DEF Send
  <2>5. QED
    BY <2>3, <2>4
<1>8. CASE SendFails
  BY <1>8 DEF SendFails, Retry
<1>9. CASE Receive
  <2>1. PICK m \in inflight : m.port = sockfd /\ resp_buffer' = m
    BY <1>9 DEF Receive
  <2>2. QED
    BY <1>9, <2>1 DEF Receive
<1>10. CASE ReceiveFails
  BY <1>10 DEF ReceiveFails, Retry
<1>11. CASE GiveUp
  BY <1>11 DEF GiveUp, CloseAndFail
<1>12. CASE Accept
  BY <1>12 DEF Accept, Acceptable
<1>13. CASE Reject
  BY <1>13 DEF Reject, CloseAndFail
<1>14. CASE Network
  <2>1. PICK m \in Message : /\ Arrives(m)
                             /\ [port |-> m.port, query |-> m.re] \in upstream
    <3>1. \A x \in upstream, r \in Rcode :
            /\ Answer(x, r) \in Message
            /\ [Answer(x, r) EXCEPT !.short = TRUE] \in Message
            /\ [Answer(x, r) EXCEPT !.qr = FALSE] \in Message
      BY DEF Answer, Message
    <3>2. \A x \in upstream : [port |-> x.port, query |-> x.query] = x
      OBVIOUS
    <3>3. PICK x \in upstream, r \in Rcode :
            \/ Arrives(Answer(x, r))
            \/ Arrives([Answer(x, r) EXCEPT !.short = TRUE])
            \/ Arrives([Answer(x, r) EXCEPT !.qr = FALSE])
      BY <1>14 DEF Network, UpstreamAnswers, UpstreamMisbehaves
    <3>4. /\ \A y \in {Answer(x, r), [Answer(x, r) EXCEPT !.short = TRUE],
                        [Answer(x, r) EXCEPT !.qr = FALSE]} :
               y \in Message /\ y.port = x.port /\ y.re = x.query
      BY <3>1 DEF Answer
    <3>5. [port |-> x.port, query |-> x.query] \in upstream
      BY <3>2
    <3>6. QED
      BY <3>3, <3>4, <3>5
  <2>2. QED
    BY <2>1, ArrivalKeepsInvariant
<1>15. CASE UNCHANGED vars
  BY <1>15 DEF vars
<1>16. QED
  BY <1>1, <1>2, <1>3, <1>4, <1>5, <1>6, <1>7, <1>8, <1>9, <1>10, <1>11,
     <1>12, <1>13, <1>14, <1>15 DEF Next, Forwarding

-----------------------------------------------------------------------------
\* The strengthened invariant holds in every reachable state.
THEOREM ResolverInvariant == Spec => []IInv
<1>1. Init => IInv
  BY ResolverInit
<1>2. IInv /\ [Next]_vars => IInv'
  BY ResolverStep
<1>3. QED
  BY <1>1, <1>2, PTL DEF Spec

\* Type correctness.
THEOREM ResolverTypeCorrect == Spec => []TypeOK
<1>1. IInv => TypeOK
  BY DEF IInv
<1>2. QED
  BY <1>1, ResolverInvariant, PTL

\* Every return of forward_query leaves no socket open and no buffer without
\* an owner.
THEOREM CallsLeakNothing == Spec => []NothingLeaks
<1>1. IInv => NothingLeaks
  BY DEF IInv
<1>2. QED
  BY <1>1, ResolverInvariant, PTL

\* A returned response answers the query, or its twin with the same ID.
THEOREM AnswerProvenance == Spec => []AnswersQueryOrItsTwin
<1>1. IInv => AnswersQueryOrItsTwin
  BY DEF IInv
<1>2. QED
  BY <1>1, ResolverInvariant, PTL

\* If clients never share a transaction ID, a returned response answers the
\* caller's own question, late, repeated and overtaken datagrams included.
AnswersOwnQuestion == fpc = "ok" => resp_buffer.re = query

\* When no two queries share an id, forward_query returns answers to its own
\* question only.
THEOREM DistinctIdsSuffice ==
  ASSUME \A q, r \in Query : q.id = r.id => q = r
  PROVE  Spec => []AnswersOwnQuestion
<1>1. ASSUME IInv
      PROVE  AnswersOwnQuestion
  <2> SUFFICES ASSUME fpc = "ok"
               PROVE  resp_buffer.re = query
    BY DEF AnswersOwnQuestion
  <2>1. query \in Query
    BY <1>1 DEF IInv, CallState
  <2>2. resp_buffer \in Message
    BY <1>1 DEF IInv, NothingLeaks, TypeOK
  <2>3. resp_buffer.re \in Query
    BY <2>2 DEF Message
  <2>4. resp_buffer.re.id = query.id
    BY <1>1 DEF IInv, AnswersQueryOrItsTwin
  <2>5. QED
    BY <2>1, <2>3, <2>4
<1>2. QED
  BY <1>1, ResolverInvariant, PTL

-----------------------------------------------------------------------------
(* The retries run out. *)

\* A bound on the steps forward_query still takes: two for each attempt left.
StepsLeft ==
  LET attempts == UPSTREAM_RETRIES - attempt
  IN  CASE fpc = "setup"  -> 2 * UPSTREAM_RETRIES + 4
        [] fpc = "opened" -> 2 * UPSTREAM_RETRIES + 3
        [] fpc = "send"   -> 2 * attempts + 2
        [] fpc = "recv"   -> 2 * attempts + 1
        [] fpc = "check"  -> 1
        [] OTHER          -> 0

\* It is a number, and nothing is left where no call runs.
StepsBounded ==
  /\ StepsLeft \in 0..(2 * UPSTREAM_RETRIES + 4)
  /\ StepsLeft = 0 <=> fpc = "idle" \/ Returned

\* No step of a call, whatever fails or is lost, and nothing the network does
\* gives it more steps to take.
RunsDown ==
  /\ StepsBounded
  /\ Forwarding => StepsLeft' < StepsLeft
  /\ Network => StepsLeft' = StepsLeft

\* The bound holds wherever the call is.
LEMMA CallIsBounded == (IInv => StepsBounded) /\ (IInv' => StepsBounded')
<1>1. IInv => StepsBounded
  BY RetriesPositive DEF IInv, TypeOK, CallState, StepsBounded, StepsLeft, Returned
<1>2. IInv' => StepsBounded'
  BY <1>1, PTL
<1>3. QED
  BY <1>1, <1>2

\* Each step counts down, or is none of the call's.
LEMMA CallRunsDown == IInv /\ Next => RunsDown
<1> SUFFICES ASSUME IInv, Next
             PROVE  RunsDown
  OBVIOUS
<1>1. /\ UPSTREAM_RETRIES \in Nat \ {0} /\ attempt \in 0..UPSTREAM_RETRIES
      /\ fpc \in {"idle", "setup", "opened", "send", "recv", "check", "ok", "fail"}
      /\ fpc = "recv" => attempt < UPSTREAM_RETRIES
  BY RetriesPositive DEF IInv, TypeOK, CallState
<1>2. StepsBounded
  BY CallIsBounded
<1>3. ASSUME Forwarding
      PROVE  StepsLeft' < StepsLeft
  <2>1. CASE OpenSocket \/ OpenFails \/ AllocateBuffer \/ AllocateFails
    <3>1. \/ fpc = "setup" /\ fpc' \in {"opened", "fail"}
          \/ fpc = "opened" /\ fpc' \in {"send", "fail"}
      BY <2>1 DEF OpenSocket, OpenFails, AllocateBuffer, AllocateFails
    <3>2. attempt' = attempt
      BY <2>1 DEF OpenSocket, OpenFails, AllocateBuffer, AllocateFails
    <3>3. QED
      BY <1>1, <3>1, <3>2 DEF StepsLeft
  <2>2. CASE Send \/ SendFails
    BY <1>1, <2>2 DEF Send, SendFails, Retry, StepsLeft
  <2>3. CASE Receive \/ ReceiveFails
    BY <1>1, <2>3 DEF Receive, ReceiveFails, Retry, StepsLeft
  <2>4. CASE GiveUp \/ Accept \/ Reject
    BY <1>1, <2>4 DEF GiveUp, Accept, Reject, CloseAndFail, StepsLeft
  <2>5. QED
    BY <1>3, <2>1, <2>2, <2>3, <2>4 DEF Forwarding
<1>4. Network => StepsLeft' = StepsLeft
  <2>1. Network => fpc' = fpc /\ attempt' = attempt
    BY DEF Network, UpstreamAnswers, UpstreamMisbehaves, Arrives
  <2>2. QED
    BY <2>1 DEF StepsLeft
<1>5. QED
  BY <1>2, <1>3, <1>4 DEF RunsDown

\* A call of forward_query returns after at most 2 * UPSTREAM_RETRIES + 4 steps
\* of its own, and it is at an end only where it has returned.
THEOREM CallsRunDown == Spec => [][RunsDown]_vars
<1>1. [Next]_vars /\ IInv => [RunsDown]_vars
  BY CallRunsDown
<1>2. QED
  BY <1>1, ResolverInvariant, PTL DEF Spec
=============================================================================
