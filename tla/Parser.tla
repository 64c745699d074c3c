------------------------------- MODULE Parser -------------------------------
(***************************************************************************)
(* parse_dns_message of dns_parser.c, with parse_dns_question and the loop *)
(* of parse_dns_name inside it, one step for each turn of the loop.  Bytes *)
(* are numbered from 0 as in C.  Beyond the datagram the receive buffer    *)
(* holds bytes of earlier ones, which the parser must not look at.         *)
(***************************************************************************)
EXTENDS Integers, Sequences

CONSTANTS Packet,                 \* datagrams, sequences of bytes
          DNS_HEADER_SIZE, DNS_MAX_NAME_LEN, DNS_MAX_LABEL_LEN,
          MAX_COMPRESSION_JUMPS,
          Stale                   \* the byte left over beyond a datagram

Octet == 0..255

ASSUME PacketType == Packet \subseteq Seq(Octet)

ASSUME ParserLimits == /\ DNS_HEADER_SIZE \in Nat /\ DNS_HEADER_SIZE >= 6
                       /\ DNS_MAX_NAME_LEN \in Nat \ {0}
                       /\ DNS_MAX_LABEL_LEN \in 1..63
                       /\ MAX_COMPRESSION_JUMPS \in Nat
                       /\ Stale \in Octet

VARIABLES ppc,         \* where the parser is
          packet,      \* buffer and len
          offset,      \* where the next part of the question section starts
          pos,         \* where parse_dns_name reads
          name,        \* name[0 .. name_pos - 1]
          jump_count, jumped,
          questions,   \* the questions parsed, each owning its qname
          array,       \* message->questions is allocated
          raw_data,    \* message->raw_data is allocated
          furthest,    \* history: largest index read in buffer, -1 at first
          filled       \* history: largest index written in name, -1 at first

message == <<questions, array, raw_data>>
cursor == <<offset, pos, name, jump_count, jumped>>
extent == <<furthest, filled>>
vars == <<ppc, packet, cursor, message, extent>>

len == Len(packet)
name_len == DNS_MAX_NAME_LEN + 1
Dot == 46

Byte(i) == IF i < len THEN packet[i + 1] ELSE Stale
UInt16(i) == 256 * Byte(i) + Byte(i + 1)
qdcount == UInt16(4)

Question == [qname : Seq(Octet), qtype : Nat, qclass : Nat]

TypeOK ==
  /\ ppc \in {"idle", "header", "question", "name", "fields", "store",
             "ok", "fail", "nomem"}
  /\ packet \in Seq(Octet)
  /\ offset \in Nat /\ pos \in Nat
  /\ name \in Seq(Octet)
  /\ jump_count \in 0..MAX_COMPRESSION_JUMPS /\ jumped \in BOOLEAN
  /\ questions \in Seq(Question)
  /\ array \in BOOLEAN /\ raw_data \in BOOLEAN
  /\ furthest \in Int /\ filled \in Int

\* Refused datagrams and those no memory was left for both return -1.
Returned == {"ok", "fail", "nomem"}

Reads(i) == furthest' = IF i > furthest THEN i ELSE furthest
Writes(i) == filled' = IF i > filled THEN i ELSE filled

Init ==
  /\ ppc = "idle"
  /\ packet = << >>
  /\ offset = 0 /\ pos = 0 /\ name = << >> /\ jump_count = 0 /\ jumped = FALSE
  /\ questions = << >> /\ array = FALSE /\ raw_data = FALSE
  /\ furthest = -1 /\ filled = -1

-----------------------------------------------------------------------------
(* parse_dns_message: call, header, and what the caller does afterwards. *)

parse_dns_message(p) ==
  /\ ppc = "idle"
  /\ packet' = p
  /\ ppc' = "header"
  /\ UNCHANGED <<cursor, message, extent>>

free_dns_message ==
  /\ ppc \in Returned
  /\ ppc' = "idle"
  /\ packet' = << >>
  /\ questions' = << >> /\ array' = FALSE /\ raw_data' = FALSE
  /\ offset' = 0 /\ pos' = 0 /\ name' = << >> /\ jump_count' = 0 /\ jumped' = FALSE
  /\ furthest' = -1 /\ filled' = -1

TooShort ==
  /\ ppc = "header" /\ len < DNS_HEADER_SIZE
  /\ ppc' = "fail"
  /\ UNCHANGED <<packet, cursor, message, extent>>

HeaderOnly ==
  /\ ppc = "header" /\ len >= DNS_HEADER_SIZE
  /\ qdcount = 0
  /\ ppc' = "store"
  /\ Reads(DNS_HEADER_SIZE - 1)
  /\ UNCHANGED <<packet, cursor, message, filled>>

\* calloc of the question array, which may fail.
HasQuestions ==
  /\ ppc = "header" /\ len >= DNS_HEADER_SIZE
  /\ qdcount > 0
  /\ Reads(DNS_HEADER_SIZE - 1)
  /\ \/ /\ array' = TRUE
        /\ offset' = DNS_HEADER_SIZE
        /\ ppc' = "question"
     \/ /\ ppc' = "nomem"
        /\ UNCHANGED <<array, offset>>
  /\ UNCHANGED <<packet, pos, name, jump_count, jumped, questions, raw_data, filled>>

\* Mutant: the array outlives the message.
Abandon_Leaks(reason) ==
  /\ questions' = << >>
  /\ ppc' = reason
  /\ UNCHANGED <<packet, cursor, array, raw_data, filled>>

\* A question fails: the names of those before it and the array are freed.
Abandon(reason) ==
  /\ questions' = << >>
  /\ array' = FALSE
  /\ ppc' = reason
  /\ UNCHANGED <<packet, cursor, raw_data, filled>>

-----------------------------------------------------------------------------
(* parse_dns_question up to the name. *)

BeginName ==
  /\ ppc = "question" /\ Len(questions) < qdcount
  /\ offset < len
  /\ pos' = offset
  /\ name' = << >> /\ jump_count' = 0 /\ jumped' = FALSE
  /\ ppc' = "name"
  /\ UNCHANGED <<packet, offset, message, extent>>

NoRoomForName ==
  /\ ppc = "question" /\ Len(questions) < qdcount
  /\ offset >= len
  /\ Abandon("fail")
  /\ UNCHANGED furthest

-----------------------------------------------------------------------------
(* parse_dns_name: one turn of its loop. *)

AtByte(kind) ==
  /\ ppc = "name" /\ pos < len
  /\ Byte(pos) \in kind

Pointer == 192..255
LabelLength == 1..DNS_MAX_LABEL_LEN
Target == UInt16(pos) % 16384

Backwards == pos + 1 < len /\ Target < pos

\* Mutant: pointers are not counted against the limit.
FollowPointer_NoLimit ==
  /\ AtByte(Pointer)
  /\ Backwards
  /\ jump_count' = jump_count + 1
  /\ offset' = IF jumped THEN offset ELSE pos + 2
  /\ jumped' = TRUE
  /\ pos' = Target
  /\ Reads(pos + 1)
  /\ UNCHANGED <<ppc, packet, name, message, filled>>

\* Mutant: no test for loops of pointers.
FollowPointer_Trusting ==
  /\ AtByte(Pointer)
  /\ pos + 1 < len
  /\ offset' = IF jumped THEN offset ELSE pos + 2
  /\ jumped' = TRUE
  /\ pos' = Target
  /\ Reads(pos + 1)
  /\ UNCHANGED <<ppc, packet, name, jump_count, message, filled>>

FollowPointer ==
  /\ AtByte(Pointer)
  /\ Backwards
  /\ jump_count < MAX_COMPRESSION_JUMPS
  /\ jump_count' = jump_count + 1
  /\ offset' = IF jumped THEN offset ELSE pos + 2
  /\ jumped' = TRUE
  /\ pos' = Target
  /\ Reads(pos + 1)
  /\ UNCHANGED <<ppc, packet, name, message, filled>>

\* The second byte is missing, the target is not before the pointer, or
\* there were too many pointers.
BadPointer ==
  /\ AtByte(Pointer)
  /\ ~Backwards \/ jump_count = MAX_COMPRESSION_JUMPS
  /\ Abandon("fail")
  /\ Reads(IF pos + 1 < len THEN pos + 1 ELSE pos)

BadLength ==
  /\ AtByte((DNS_MAX_LABEL_LEN + 1)..191)
  /\ Abandon("fail")
  /\ Reads(pos)

\* Mutant: one byte too many may be read.
Fits_ReadsBeyond == /\ pos + Byte(pos) <= len
                    /\ Len(name) + Byte(pos) + 1 < name_len

\* Mutant: the room left in name is not tested.
Fits_NoRoom == pos + 1 + Byte(pos) <= len

\* The label and its dot, with room left for the final NUL.  The test for
\* name_pos > DNS_MAX_NAME_LEN after the copy can no longer succeed then.
Fits == /\ pos + 1 + Byte(pos) <= len
        /\ Len(name) + Byte(pos) + 1 < name_len

CopyLabel ==
  /\ AtByte(LabelLength)
  /\ Fits
  /\ name' = name \o [k \in 1..Byte(pos) |-> Byte(pos + k)] \o <<Dot>>
  /\ pos' = pos + 1 + Byte(pos)
  /\ Reads(pos + Byte(pos))
  /\ Writes(Len(name) + Byte(pos))
  /\ UNCHANGED <<ppc, packet, offset, jump_count, jumped, message>>

BadLabel ==
  /\ AtByte(LabelLength)
  /\ ~Fits
  /\ Abandon("fail")
  /\ Reads(pos)

\* Mutant: after a pointer the question goes on where the name was read last.
EndName_ForgetsJump ==
  /\ AtByte({0})
  /\ offset' = pos + 1
  /\ name' = IF name # << >> /\ name[Len(name)] = Dot
             THEN SubSeq(name, 1, Len(name) - 1) ELSE name
  /\ Writes(Len(name'))
  /\ Reads(pos)
  /\ ppc' = "fields"
  /\ UNCHANGED <<packet, pos, jump_count, jumped, message>>

\* The last dot becomes the terminator.
EndName ==
  /\ AtByte({0})
  /\ offset' = IF jumped THEN offset ELSE pos + 1
  /\ name' = IF name # << >> /\ name[Len(name)] = Dot
             THEN SubSeq(name, 1, Len(name) - 1) ELSE name
  /\ Writes(Len(name'))
  /\ Reads(pos)
  /\ ppc' = "fields"
  /\ UNCHANGED <<packet, pos, jump_count, jumped, message>>

RunsOff ==
  /\ ppc = "name" /\ pos >= len
  /\ Abandon("fail")
  /\ UNCHANGED furthest

-----------------------------------------------------------------------------
(* The rest of parse_dns_question and of parse_dns_message. *)

FirstNul(text, k) == text[k] = 0 /\ \A j \in 1..(k - 1) : text[j] # 0

\* strdup copies up to the first NUL, which a label may contain.
strdup(text) ==
  IF \E k \in DOMAIN text : FirstNul(text, k)
  THEN SubSeq(text, 1, (CHOOSE k \in DOMAIN text : FirstNul(text, k)) - 1)
  ELSE text

KeepQuestion ==
  /\ ppc = "fields" /\ offset + 4 <= len
  /\ questions' = Append(questions, [qname |-> strdup(name), qtype |-> UInt16(offset),
                                     qclass |-> UInt16(offset + 2)])
  /\ Reads(offset + 3)
  /\ offset' = offset + 4
  /\ ppc' = IF Len(questions') = qdcount THEN "store" ELSE "question"
  /\ UNCHANGED <<packet, pos, name, jump_count, jumped, array, raw_data, filled>>

NoRoomForFields ==
  /\ ppc = "fields" /\ offset + 4 > len
  /\ Abandon("fail")
  /\ UNCHANGED furthest

\* strdup has no memory for the name.
NoMemoryForName ==
  /\ ppc = "fields" /\ offset + 4 <= len
  /\ Abandon("nomem")
  /\ Reads(offset + 3)

\* The copy of the datagram for forwarding.
StoreRaw ==
  /\ ppc = "store"
  /\ raw_data' = TRUE
  /\ Reads(len - 1)
  /\ ppc' = "ok"
  /\ UNCHANGED <<packet, cursor, questions, array, filled>>

NoMemoryForRaw ==
  /\ ppc = "store"
  /\ Abandon("nomem")
  /\ UNCHANGED furthest

-----------------------------------------------------------------------------
NameStep == FollowPointer \/ BadPointer \/ BadLength \/ CopyLabel \/ BadLabel
              \/ EndName \/ RunsOff

Parsing ==
  \/ TooShort \/ HeaderOnly \/ HasQuestions \/ BeginName \/ NoRoomForName
  \/ NameStep \/ KeepQuestion \/ NoRoomForFields \/ NoMemoryForName
  \/ StoreRaw \/ NoMemoryForRaw

Next == (\E p \in Packet : parse_dns_message(p)) \/ free_dns_message \/ Parsing

Spec == Init /\ [][Next]_vars

FairSpec == Spec /\ WF_vars(Parsing)

-----------------------------------------------------------------------------
\* Whatever lengths and pointers the datagram holds, no byte beyond it is
\* read: what earlier datagrams left in query_buffer never reaches a name.
ReadsInBounds == furthest < len

\* Whatever labels are chained by pointers, the name and its terminator stay
\* inside char qname[DNS_MAX_NAME_LEN + 1].
WritesInBounds == filled < name_len

\* A message that failed owns nothing; one that succeeded owns the array, one
\* name for each announced question, and the raw copy.
OwnershipIsClear ==
  /\ ppc \in {"fail", "nomem", "idle", "header"} => questions = << >> /\ ~array /\ ~raw_data
  /\ ppc = "ok" => /\ raw_data
                   /\ Len(questions) = qdcount
                   /\ array <=> qdcount > 0

\* However pointers are chained, even back to labels that lead to the same
\* pointer again, the parser returns.
ParserReturns == (ppc # "idle") ~> (ppc \in Returned)
=============================================================================
