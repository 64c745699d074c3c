------------------------------ MODULE Datagram ------------------------------
(***************************************************************************)
(* One datagram from the client's bytes to the verdict: what recvfrom      *)
(* leaves of it, Parser, process_dns_query of dns_server.c with the text   *)
(* conversions of DomainName and the replies of Builder.  The other two    *)
(* callers of the parser, the wrappers dns_parse_query and                 *)
(* dns_build_error_response, are here as well.                             *)
(***************************************************************************)
EXTENDS Builder, TLC

CONSTANTS DNS_UDP_MAX_SIZE,
          Blocked,        \* the trie: label sequences of the listed names, from the root
          TestPacket,     \* datagrams given to the wrappers
          Domain,         \* texts that are encoded into queries, sequences of bytes
          Room,           \* sizes of the buffers the wrappers and encode_dns_name are given
          None            \* nothing was encoded

ASSUME SizesAndTests == /\ DNS_UDP_MAX_SIZE \in Nat
                        /\ TestPacket \subseteq Seq(Octet)

\* A text is a C string.
ASSUME TextsAndRooms == Domain \subseteq Seq(Octet \ {0}) /\ Room \subseteq Nat

\* A listed name is a sequence of labels, a label one of characters.
ASSUME ListedNames == Blocked \subseteq Seq(Seq(STRING))

N == INSTANCE DomainName

VARIABLES caller,     \* on whose behalf the parser runs
          sent,       \* the datagram as the client sent it
          encoded,    \* the text and buffer size its name was encoded from, or None
          outcome,    \* what became of the datagram
          response,   \* response_buffer, if it was built here
          starved     \* history: is_domain_blocked could not allocate

handled == <<caller, sent, encoded, outcome, response, starved>>
handleVars == <<vars, handled>>

FORMERR == 1
SERVFAIL == 2
NXDOMAIN == 3
NOTIMPL == 4
TYPE_A == 1

HandleTypeOK ==
  /\ TypeOK
  /\ caller \in {"nobody", "run_server", "dns_parse_query", "dns_build_error_response"}
  /\ sent \in Seq(Octet) /\ response \in Seq(Octet)
  /\ outcome \in {"pending", "dropped", "error", "relayed", "returned", "nomem"}
  /\ starved \in BOOLEAN

HandleInit ==
  /\ Init
  /\ caller = "nobody" /\ sent = << >> /\ encoded = None
  /\ outcome = "pending" /\ response = << >> /\ starved = FALSE

-----------------------------------------------------------------------------
(* The callers of parse_dns_message. *)

Call(by, bytes, seen) ==
  /\ parse_dns_message(seen)
  /\ caller' = by
  /\ sent' = bytes
  /\ UNCHANGED <<outcome, response, starved>>

\* recvfrom drops without notice what does not fit query_buffer.
Received(bytes) ==
  SubSeq(bytes, 1, IF Len(bytes) > DNS_UDP_MAX_SIZE THEN DNS_UDP_MAX_SIZE ELSE Len(bytes))

\* A datagram shorter than a header is settled before (Server's ReceiveShort).
Receive(bytes) ==
  /\ Len(Received(bytes)) >= DNS_HEADER_SIZE
  /\ Call("run_server", bytes, Received(bytes))
  /\ encoded' = None

dns_parse_query(bytes) ==
  /\ Len(bytes) >= DNS_HEADER_SIZE
  /\ Call("dns_parse_query", bytes, bytes)
  /\ encoded' = None

dns_build_error_response(bytes) ==
  /\ Call("dns_build_error_response", bytes, bytes)
  /\ encoded' = None

\* A query put together with encode_dns_name and read with dns_parse_query.
QueryFor(qname) == << 0, 7, 1, 0, 0, 1, 0, 0, 0, 0, 0, 0 >> \o qname \o << 0, TYPE_A, 0, 1 >>

EncodeAndParse(domain, buf_len) ==
  LET qname == encode_dns_name(domain, buf_len)
  IN  /\ qname # Refused
      /\ Call("dns_parse_query", QueryFor(qname), QueryFor(qname))
      /\ encoded' = [domain |-> domain, buf_len |-> buf_len]

ParseFailed ==
  /\ ppc \in {"fail", "nomem"} /\ outcome = "pending"
  /\ outcome' = "dropped"
  /\ UNCHANGED <<vars, caller, sent, encoded, response, starved>>

-----------------------------------------------------------------------------
(* process_dns_query, once the datagram is parsed. *)

\* The filter's characters for bytes; those it tells apart have one of their own.
Char == [b \in Octet |-> CASE b = 46 -> "."
                           [] b = 32 -> " "
                           [] b \in 9..13 -> "\t"
                           [] b = 65 -> "A"
                           [] b = 66 -> "B"
                           [] b = 97 -> "a"
                           [] b = 98 -> "b"
                           [] OTHER -> ToString(b)]

Text(bytes) == [i \in DOMAIN bytes |-> Char[bytes[i]]]

\* The walk down the trie meets a blocked node: a listed name is the name or
\* one of its parents (module Filter).  An invalid name has no labels.
is_domain_blocked(domain) ==
  LET labels == N!LabelsOfText(Text(domain))
  IN  \E b \in Blocked : Len(b) <= Len(labels) /\ b = SubSeq(labels, 1, Len(b))

Deciding == caller = "run_server" /\ ppc = "ok" /\ outcome = "pending"

\* Mutant: the last question is looked at.
question_Last == questions[Len(questions)]

\* Only the first question is looked at.
question == questions[1]

\* build_error_response, for which there may be no memory.
Reply(rcode) ==
  LET reply == build_error_response(rcode)
  IN  \/ /\ reply # Refused
         /\ outcome' = "error" /\ response' = reply
      \/ /\ outcome' = (IF reply = Refused THEN "dropped" ELSE "nomem")
         /\ UNCHANGED response

NoQuestion ==
  /\ Deciding /\ qdcount = 0
  /\ Reply(FORMERR)
  /\ UNCHANGED <<vars, caller, sent, encoded, starved>>

UnsupportedType ==
  /\ Deciding /\ qdcount > 0
  /\ question.qtype # TYPE_A
  /\ Reply(NOTIMPL)
  /\ UNCHANGED <<vars, caller, sent, encoded, starved>>

BlockedDomain ==
  /\ Deciding /\ qdcount > 0
  /\ question.qtype = TYPE_A
  /\ is_domain_blocked(question.qname)
  /\ Reply(NXDOMAIN)
  /\ UNCHANGED <<vars, caller, sent, encoded, starved>>

\* forward_query returns the upstream server's answer, or fails.
AllowedDomain ==
  /\ Deciding /\ qdcount > 0
  /\ question.qtype = TYPE_A
  /\ starved' = is_domain_blocked(question.qname)
  /\ \/ outcome' = "relayed" /\ UNCHANGED response
     \/ Reply(SERVFAIL)
  /\ UNCHANGED <<vars, caller, sent, encoded>>

-----------------------------------------------------------------------------
(* The wrappers, once the datagram is parsed. *)

\* dns_parse_query hands out the first question, whose name fits its qname.
ReturnQuestion ==
  /\ caller = "dns_parse_query" /\ ppc = "ok" /\ outcome = "pending"
  /\ outcome' = (IF qdcount = 0 THEN "dropped" ELSE "returned")
  /\ UNCHANGED <<vars, caller, sent, encoded, response, starved>>

\* dns_build_error_response, for any RCODE and room.
ReturnErrorResponse ==
  /\ caller = "dns_build_error_response" /\ ppc = "ok" /\ outcome = "pending"
  /\ \E rcode \in {NXDOMAIN, 6}, room \in Room :
       \/ /\ Len(build_error_response(rcode)) <= room
          /\ Reply(rcode)
       \/ /\ Len(build_error_response(rcode)) > room
          /\ outcome' = "dropped"
          /\ UNCHANGED response
  /\ UNCHANGED <<vars, caller, sent, encoded, starved>>

\* The caller frees the message and the response and takes the next datagram.
Finish ==
  /\ outcome # "pending"
  /\ free_dns_message
  /\ caller' = "nobody" /\ sent' = << >> /\ encoded' = None
  /\ outcome' = "pending" /\ response' = << >> /\ starved' = FALSE

-----------------------------------------------------------------------------
Arrival ==
  /\ ppc = "idle"
  /\ \/ \E bytes \in Packet : Receive(bytes)
     \/ \E bytes \in TestPacket : dns_parse_query(bytes) \/ dns_build_error_response(bytes)
     \/ \E domain \in Domain, buf_len \in Room : EncodeAndParse(domain, buf_len)

ParserRuns == Parsing /\ UNCHANGED handled

Decision == ParseFailed \/ NoQuestion \/ UnsupportedType \/ BlockedDomain \/ AllowedDomain
              \/ ReturnQuestion \/ ReturnErrorResponse

HandleNext == Arrival \/ ParserRuns \/ Decision \/ Finish

HandleSpec == HandleInit /\ [][HandleNext]_handleVars

\* The parser is scheduled.
HandleFairSpec == HandleSpec /\ WF_handleVars(ParserRuns)
=============================================================================
