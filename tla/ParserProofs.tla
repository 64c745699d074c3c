---------------------------- MODULE ParserProofs ----------------------------
(***************************************************************************)
(* For every datagram, every name length and every limit on pointers: the  *)
(* parser stays inside its two buffers and never leaks or half-owns a      *)
(* message.                                                                *)
(***************************************************************************)
EXTENDS Parser, SequenceTheorems, TLAPS

\* What holds while the question section is walked: the length tests that
\* precede a read or a write are what these conjuncts hand on to it.
Walking ==
  /\ ppc \in {"question", "name", "fields", "store"} => DNS_HEADER_SIZE <= len
  /\ ppc \in {"name", "fields"} => Len(name) <= DNS_MAX_NAME_LEN
  /\ ppc \in {"question", "name", "fields"} => array /\ Len(questions) < qdcount
  /\ ppc = "store" => Len(questions) = qdcount /\ (array <=> qdcount > 0)
  /\ raw_data => ppc = "ok"
  /\ ppc \in {"idle", "header"} => furthest = -1

IInv == TypeOK /\ Walking /\ ReadsInBounds /\ WritesInBounds /\ OwnershipIsClear

\* A byte of the buffer is a byte, in the datagram or beyond it.
LEMMA ByteType ==
  ASSUME TypeOK, NEW i \in Nat
  PROVE  Byte(i) \in Octet /\ UInt16(i) \in Nat
<1>1. \A j \in Nat : Byte(j) \in Octet
  <2> SUFFICES ASSUME NEW j \in Nat
               PROVE  Byte(j) \in Octet
    OBVIOUS
  <2>1. CASE j < len
    <3>1. packet \in Seq(Octet) /\ j + 1 \in 1..Len(packet)
      BY <2>1 DEF TypeOK, len
    <3>2. packet[j + 1] \in Octet
      BY <3>1
    <3>3. QED
      BY <2>1, <3>2 DEF Byte
  <2>2. CASE ~(j < len)
    BY <2>2, ParserLimits DEF Byte
  <2>3. QED
    BY <2>1, <2>2
<1>2. \A j \in Nat : Byte(j) \in Nat
  BY <1>1 DEF Octet
<1>3. UInt16(i) \in Nat
  BY <1>2 DEF UInt16
<1>4. QED
  BY <1>1, <1>3

\* What strdup returns is a sequence of bytes.
LEMMA StrdupType ==
  ASSUME NEW text \in Seq(Octet)
  PROVE  strdup(text) \in Seq(Octet)
<1>1. CASE \E k \in DOMAIN text : FirstNul(text, k)
  <2> DEFINE k0 == CHOOSE k \in DOMAIN text : FirstNul(text, k)
  <2>1. k0 \in 1..Len(text)
    BY <1>1
  <2> HIDE DEF k0
  <2>2. SubSeq(text, 1, k0 - 1) \in Seq(Octet)
    BY <2>1
  <2>3. QED
    BY <1>1, <2>2 DEF strdup, k0
<1>2. CASE ~ \E k \in DOMAIN text : FirstNul(text, k)
  BY <1>2 DEF strdup
<1>3. QED
  BY <1>1, <1>2

\* The length is a natural number, and the announced count of questions too.
LEMMA LenType == ASSUME TypeOK PROVE len \in Nat /\ qdcount \in Nat
<1>1. len \in Nat
  BY DEF TypeOK, len
<1>2. qdcount \in Nat
  BY ByteType DEF qdcount
<1>3. QED
  BY <1>1, <1>2

\* A failed step leaves a message that owns nothing.
LEMMA AbandonKeepsInvariant ==
  ASSUME IInv, NEW reason \in {"fail", "nomem"}, Abandon(reason), raw_data = FALSE,
         furthest' \in Int, furthest' < len
  PROVE  IInv'
<1>1. /\ questions' = << >> /\ array' = FALSE /\ ppc' = reason
      /\ UNCHANGED <<packet, offset, pos, name, jump_count, jumped, raw_data, filled>>
  BY DEF Abandon, cursor
<1>2. TypeOK'
  <2>1. << >> \in Seq(Question)
    OBVIOUS
  <2>2. questions' \in Seq(Question) /\ array' \in BOOLEAN
    BY <1>1, <2>1
  <2>3. /\ ppc' \in {"fail", "nomem"}
        /\ packet' = packet /\ offset' = offset /\ pos' = pos /\ name' = name
        /\ jump_count' = jump_count /\ jumped' = jumped /\ raw_data' = raw_data
        /\ filled' = filled
    BY <1>1
  <2>4. QED
    BY <2>2, <2>3 DEF IInv, TypeOK
<1>3. Walking'
  BY <1>1 DEF IInv, Walking
<1>4. ReadsInBounds' /\ WritesInBounds'
  BY <1>1 DEF IInv, ReadsInBounds, WritesInBounds, len, name_len
<1>5. OwnershipIsClear'
  BY <1>1 DEF OwnershipIsClear
<1>6. QED
  BY <1>2, <1>3, <1>4, <1>5 DEF IInv

\* One turn of the loop of parse_dns_name.
LEMMA NameStepKeepsInvariant == IInv /\ NameStep => IInv'
<1> SUFFICES ASSUME IInv, NameStep
             PROVE  IInv'
  OBVIOUS
<1>1. /\ ppc = "name" /\ raw_data = FALSE /\ len \in Nat /\ pos \in Nat /\ furthest \in Int
      /\ furthest < len
  BY LenType DEF IInv, TypeOK, Walking, ReadsInBounds, NameStep, FollowPointer, BadPointer,
     BadLength, CopyLabel, BadLabel, EndName, RunsOff, AtByte
<1>2. ASSUME NEW i \in Nat, i < len, Reads(i)
      PROVE  furthest' \in Int /\ furthest' < len
  BY <1>1, <1>2 DEF Reads
<1>3. CASE BadPointer \/ BadLength \/ BadLabel \/ RunsOff
  <2>1. Abandon("fail")
    BY <1>3 DEF BadPointer, BadLength, BadLabel, RunsOff
  <2>2. furthest' \in Int /\ furthest' < len
    <3>1. CASE BadPointer
      BY <1>1, <1>2, <3>1 DEF BadPointer, AtByte
    <3>2. CASE BadLength \/ BadLabel
      BY <1>1, <1>2, <3>2 DEF BadLength, BadLabel, AtByte
    <3>3. CASE RunsOff
      BY <1>1, <3>3 DEF RunsOff
    <3>4. QED
      BY <1>3, <3>1, <3>2, <3>3
  <2>3. QED
    BY <1>1, <2>1, <2>2, AbandonKeepsInvariant
<1>4. CASE FollowPointer
  <2>1. pos + 1 < len /\ Target \in Nat
    <3>1. UInt16(pos) \in Nat
      BY <1>1, ByteType DEF IInv
    <3>2. QED
      BY <1>4, <3>1 DEF FollowPointer, Backwards, Target
  <2>2. furthest' \in Int /\ furthest' < len
    BY <1>1, <1>2, <1>4, <2>1 DEF FollowPointer
  <2>3. TypeOK'
    <3>1. UNCHANGED <<ppc, packet, name, questions, array, raw_data, filled>>
      BY <1>4 DEF FollowPointer, message
    <3>2. pos' \in Nat /\ offset' \in Nat /\ jumped' \in BOOLEAN
      BY <1>1, <1>4, <2>1 DEF IInv, TypeOK, FollowPointer
    <3>3. jump_count' \in 0..MAX_COMPRESSION_JUMPS
      BY <1>4, ParserLimits DEF IInv, TypeOK, FollowPointer
    <3>4. QED
      BY <2>2, <3>1, <3>2, <3>3 DEF IInv, TypeOK
  <2>4. Walking' /\ OwnershipIsClear'
    BY <1>1, <1>4 DEF IInv, Walking, OwnershipIsClear, FollowPointer, message, len, qdcount,
       UInt16, Byte
  <2>5. ReadsInBounds' /\ WritesInBounds'
    BY <1>4, <2>2 DEF IInv, ReadsInBounds, WritesInBounds, FollowPointer, len, name_len
  <2>6. QED
    BY <2>3, <2>4, <2>5 DEF IInv
<1>5. CASE CopyLabel
  <2> DEFINE b == Byte(pos)
             label == [k \in 1..b |-> Byte(pos + k)]
  <2>1. b \in Nat /\ b > 0 /\ pos + b < len
    BY <1>1, <1>5, ParserLimits DEF CopyLabel, AtByte, LabelLength, Fits
  <2>2. label \in Seq(Octet) /\ Len(label) = b
    <3>1. \A k \in 1..b : Byte(pos + k) \in Octet
      BY <1>1, <2>1, ByteType DEF IInv
    <3>2. QED
      BY <2>1, <3>1
  <2>3. name \in Seq(Octet) /\ <<Dot>> \in Seq(Octet) /\ Len(<<Dot>>) = 1
    BY DEF IInv, TypeOK, Dot, Octet
  <2>4. /\ name' \in Seq(Octet)
        /\ Len(name') = Len(name) + b + 1
    <3> HIDE DEF label, b
    <3>1. name' = name \o label \o <<Dot>>
      BY <1>5 DEF CopyLabel, label, b
    <3>2. name \o label \in Seq(Octet) /\ Len(name \o label) = Len(name) + b
      BY <2>2, <2>3, <2>1
    <3>3. QED
      BY <2>3, <3>1, <3>2
  <2>5. Len(name) + b + 1 < name_len
    BY <1>5 DEF CopyLabel, Fits
  <2>6. furthest' \in Int /\ furthest' < len
    BY <1>1, <1>2, <1>5, <2>1 DEF CopyLabel
  <2> HIDE DEF label, b
  <2>7. UNCHANGED <<ppc, packet, offset, jump_count, jumped, questions, array, raw_data>>
    BY <1>5 DEF CopyLabel, message
  <2>8. pos' \in Nat
    BY <1>1, <1>5, <2>1 DEF CopyLabel, b
  <2>9. filled' \in Int /\ filled' < name_len
    BY <1>5, <2>1, <2>3, <2>5, ParserLimits
      DEF IInv, TypeOK, WritesInBounds, CopyLabel, Writes, b, name_len
  <2>10. TypeOK'
    BY <2>4, <2>6, <2>7, <2>8, <2>9 DEF IInv, TypeOK
  <2>11. Walking' /\ OwnershipIsClear'
    BY <1>1, <2>1, <2>3, <2>4, <2>5, <2>7, ParserLimits
      DEF IInv, Walking, OwnershipIsClear, len, qdcount, UInt16, Byte, name_len
  <2>12. ReadsInBounds' /\ WritesInBounds'
    BY <2>6, <2>7, <2>9 DEF ReadsInBounds, WritesInBounds, len, name_len
  <2>13. QED
    BY <2>10, <2>11, <2>12 DEF IInv
<1>6. CASE EndName
  <2>1. /\ ppc' = "fields"
        /\ UNCHANGED <<packet, pos, jump_count, jumped, questions, array, raw_data>>
    BY <1>6 DEF EndName, message
  <2>2. name \in Seq(Octet) /\ Len(name) <= DNS_MAX_NAME_LEN
    BY <1>1 DEF IInv, TypeOK, Walking
  <2>3. name' \in Seq(Octet) /\ Len(name') <= DNS_MAX_NAME_LEN
    <3>1. CASE name # << >> /\ name[Len(name)] = Dot
      <4>1. name' = SubSeq(name, 1, Len(name) - 1)
        BY <1>6, <3>1 DEF EndName
      <4>2. Len(name) \in Nat /\ Len(name) # 0
        BY <2>2, <3>1
      <4>3. QED
        BY <2>2, <4>1, <4>2, ParserLimits
    <3>2. CASE ~(name # << >> /\ name[Len(name)] = Dot)
      BY <1>6, <2>2, <3>2 DEF EndName
    <3>3. QED
      BY <3>1, <3>2
  <2>4. furthest' \in Int /\ furthest' < len
    BY <1>1, <1>2, <1>6 DEF EndName, AtByte
  <2>5. filled' \in Int /\ filled' < name_len
    BY <1>6, <2>3, ParserLimits DEF IInv, TypeOK, WritesInBounds, EndName, Writes, name_len
  <2>6. offset' \in Nat
    BY <1>1, <1>6 DEF IInv, TypeOK, EndName
  <2>7. TypeOK'
    BY <2>1, <2>3, <2>4, <2>5, <2>6 DEF IInv, TypeOK
  <2>8. Walking' /\ OwnershipIsClear'
    BY <1>1, <2>1, <2>3 DEF IInv, Walking, OwnershipIsClear, len, qdcount, UInt16, Byte
  <2>9. ReadsInBounds' /\ WritesInBounds'
    BY <2>1, <2>4, <2>5 DEF ReadsInBounds, WritesInBounds, len, name_len
  <2>10. QED
    BY <2>7, <2>8, <2>9 DEF IInv
<1>7. QED
  BY <1>3, <1>4, <1>5, <1>6 DEF NameStep

\* The invariant holds of a parser that has not been called.
LEMMA ParserInit == Init => IInv
<1> SUFFICES ASSUME Init
             PROVE  IInv
  OBVIOUS
<1>1. << >> \in Seq(Octet) /\ << >> \in Seq(Question) /\ Len(<< >>) = 0
  OBVIOUS
<1>2. TypeOK
  <2>1. /\ ppc = "idle" /\ offset = 0 /\ pos = 0 /\ jump_count = 0
        /\ furthest = -1 /\ filled = -1
        /\ jumped \in BOOLEAN /\ array \in BOOLEAN /\ raw_data \in BOOLEAN
    BY DEF Init
  <2>2. packet = << >> /\ name = << >> /\ questions = << >>
    BY DEF Init
  <2>3. jump_count \in 0..MAX_COMPRESSION_JUMPS
    BY <2>1, ParserLimits
  <2>4. packet \in Seq(Octet) /\ name \in Seq(Octet) /\ questions \in Seq(Question)
    BY <1>1, <2>2
  <2>5. /\ ppc \in {"idle", "header", "question", "name", "fields", "store",
                   "ok", "fail", "nomem"}
        /\ offset \in Nat /\ pos \in Nat /\ furthest \in Int /\ filled \in Int
    BY <2>1
  <2>6. QED
    BY <2>1, <2>3, <2>4, <2>5 DEF TypeOK
<1>3. Walking /\ OwnershipIsClear /\ ReadsInBounds /\ WritesInBounds
  BY <1>1, ParserLimits DEF Init, Walking, OwnershipIsClear, ReadsInBounds, WritesInBounds,
     len, name_len
<1>4. QED
  BY <1>2, <1>3 DEF IInv

\* The parser may be called with any bytes.
LEMMA ParseCallKeepsInvariant ==
  ASSUME IInv, NEW p \in Seq(Octet), parse_dns_message(p)
  PROVE  IInv'
<1>1. Len(p) \in Nat
  OBVIOUS
<1>2. furthest = -1
  BY DEF parse_dns_message, IInv, Walking
<1>3. TypeOK'
  BY DEF parse_dns_message, IInv, TypeOK, cursor, message, extent
<1>4. Walking' /\ OwnershipIsClear'
  BY DEF parse_dns_message, IInv, Walking, OwnershipIsClear, cursor, message, extent
<1>5. ReadsInBounds' /\ WritesInBounds'
  BY <1>1, <1>2 DEF parse_dns_message, IInv, ReadsInBounds, WritesInBounds, extent,
     len, name_len
<1>6. QED
  BY <1>3, <1>4, <1>5 DEF IInv

\* The inductive step, one step per action.
LEMMA ParserStep == IInv /\ [Next]_vars => IInv'
<1> SUFFICES ASSUME IInv, [Next]_vars
             PROVE  IInv'
  OBVIOUS
<1>1. len \in Nat /\ qdcount \in Nat /\ furthest \in Int /\ furthest < len
  BY LenType DEF IInv, TypeOK, ReadsInBounds
<1>2. ASSUME NEW i \in Nat, i < len, Reads(i)
      PROVE  furthest' \in Int /\ furthest' < len
  BY <1>1, <1>2 DEF Reads
<1>3. << >> \in Seq(Octet) /\ << >> \in Seq(Question) /\ Len(<< >>) = 0
  OBVIOUS
<1>4. ASSUME NEW p \in Packet, parse_dns_message(p)
      PROVE  IInv'
  <2>1. p \in Seq(Octet)
    BY PacketType
  <2>2. QED
    BY <1>4, <2>1, ParseCallKeepsInvariant
<1>5. CASE free_dns_message
  <2>1. TypeOK'
    <3>1. /\ ppc' = "idle" /\ offset' = 0 /\ pos' = 0 /\ jump_count' = 0
          /\ furthest' = -1 /\ filled' = -1
          /\ jumped' \in BOOLEAN /\ array' \in BOOLEAN /\ raw_data' \in BOOLEAN
      BY <1>5 DEF free_dns_message
    <3>2. packet' = << >> /\ name' = << >> /\ questions' = << >>
      BY <1>5 DEF free_dns_message
    <3>3. jump_count' \in 0..MAX_COMPRESSION_JUMPS
      BY <3>1, ParserLimits
    <3>4. packet' \in Seq(Octet) /\ name' \in Seq(Octet) /\ questions' \in Seq(Question)
      BY <1>3, <3>2
    <3>5. /\ ppc' \in {"idle", "header", "question", "name", "fields", "store",
                       "ok", "fail", "nomem"}
          /\ offset' \in Nat /\ pos' \in Nat /\ furthest' \in Int /\ filled' \in Int
      BY <3>1
    <3>6. QED
      BY <3>1, <3>3, <3>4, <3>5 DEF TypeOK
  <2>2. Walking' /\ OwnershipIsClear' /\ ReadsInBounds' /\ WritesInBounds'
    BY <1>3, <1>5, ParserLimits DEF free_dns_message, Walking, OwnershipIsClear,
       ReadsInBounds, WritesInBounds, len, name_len
  <2>3. QED
    BY <2>1, <2>2 DEF IInv
<1>6. CASE TooShort
  BY <1>6 DEF TooShort, IInv, TypeOK, Walking, OwnershipIsClear, ReadsInBounds,
     WritesInBounds, cursor, message, extent, len, name_len
<1>7. CASE HeaderOnly
  <2>1. /\ ppc = "header" /\ ppc' = "store" /\ DNS_HEADER_SIZE <= len /\ qdcount = 0
        /\ UNCHANGED <<packet, offset, pos, name, jump_count, jumped, questions, array,
                      raw_data, filled>>
    BY <1>1, <1>7, ParserLimits DEF HeaderOnly, cursor, message
  <2>2. furthest' \in Int /\ furthest' < len
    BY <1>1, <1>2, <1>7, <2>1, ParserLimits DEF HeaderOnly
  <2>3. TypeOK'
    BY <2>1, <2>2 DEF IInv, TypeOK
  <2>4. Walking' /\ OwnershipIsClear'
    BY <1>3, <2>1 DEF IInv, TypeOK, Walking, OwnershipIsClear, len, qdcount, UInt16, Byte
  <2>5. ReadsInBounds' /\ WritesInBounds'
    BY <2>1, <2>2 DEF IInv, ReadsInBounds, WritesInBounds, len, name_len
  <2>6. QED
    BY <2>3, <2>4, <2>5 DEF IInv
<1>8. CASE HasQuestions
  <2>1. /\ ppc = "header" /\ DNS_HEADER_SIZE <= len /\ qdcount > 0
        /\ UNCHANGED <<packet, pos, name, jump_count, jumped, questions, raw_data, filled>>
        /\ \/ array' = TRUE /\ offset' = DNS_HEADER_SIZE /\ ppc' = "question"
           \/ array' = array /\ offset' = offset /\ ppc' = "nomem"
    BY <1>1, <1>8, ParserLimits DEF HasQuestions
  <2>2. furthest' \in Int /\ furthest' < len
    BY <1>1, <1>2, <1>8, <2>1, ParserLimits DEF HasQuestions
  <2>3. TypeOK'
    BY <2>1, <2>2, ParserLimits DEF IInv, TypeOK
  <2>4. Walking' /\ OwnershipIsClear'
    BY <1>1, <1>3, <2>1 DEF IInv, TypeOK, Walking, OwnershipIsClear, len, qdcount, UInt16, Byte
  <2>5. ReadsInBounds' /\ WritesInBounds'
    BY <2>1, <2>2 DEF IInv, ReadsInBounds, WritesInBounds, len, name_len
  <2>6. QED
    BY <2>3, <2>4, <2>5 DEF IInv
<1>9. CASE BeginName
  <2>1. /\ ppc = "question" /\ ppc' = "name" /\ pos' = offset /\ name' = << >>
        /\ jump_count' = 0 /\ jumped' = FALSE
        /\ UNCHANGED <<packet, offset, questions, array, raw_data, furthest, filled>>
    BY <1>9 DEF BeginName, message, extent
  <2>2. jump_count' \in 0..MAX_COMPRESSION_JUMPS /\ name' \in Seq(Octet)
    BY <1>3, <2>1, ParserLimits
  <2>3. TypeOK'
    BY <2>1, <2>2 DEF IInv, TypeOK
  <2>4. Walking' /\ OwnershipIsClear'
    BY <1>3, <2>1, ParserLimits
      DEF IInv, Walking, OwnershipIsClear, len, qdcount, UInt16, Byte
  <2>5. ReadsInBounds' /\ WritesInBounds'
    BY <2>1 DEF IInv, ReadsInBounds, WritesInBounds, len, name_len
  <2>6. QED
    BY <2>3, <2>4, <2>5 DEF IInv
<1>10. CASE NoRoomForName \/ NoRoomForFields \/ NoMemoryForName \/ NoMemoryForRaw
  <2>1. raw_data = FALSE
    BY <1>10 DEF IInv, TypeOK, Walking, NoRoomForName, NoRoomForFields, NoMemoryForName,
       NoMemoryForRaw
  <2>2. furthest' \in Int /\ furthest' < len
    <3>1. CASE NoMemoryForName
      <4>1. offset + 3 \in Nat /\ offset + 3 < len
        BY <1>1, <3>1 DEF NoMemoryForName, IInv, TypeOK
      <4>2. QED
        BY <1>2, <3>1, <4>1 DEF NoMemoryForName
    <3>2. CASE NoRoomForName \/ NoRoomForFields \/ NoMemoryForRaw
      BY <1>1, <3>2 DEF NoRoomForName, NoRoomForFields, NoMemoryForRaw
    <3>3. QED
      BY <1>10, <3>1, <3>2
  <2>3. Abandon("fail") \/ Abandon("nomem")
    BY <1>10 DEF NoRoomForName, NoRoomForFields, NoMemoryForName, NoMemoryForRaw
  <2>4. QED
    BY <2>1, <2>2, <2>3, AbandonKeepsInvariant
<1>11. CASE NameStep
  BY <1>11, NameStepKeepsInvariant
<1>12. CASE KeepQuestion
  <2> DEFINE q == [qname |-> strdup(name), qtype |-> UInt16(offset),
                   qclass |-> UInt16(offset + 2)]
  <2>1. /\ ppc = "fields" /\ offset \in Nat /\ offset + 3 < len /\ offset' = offset + 4
        /\ questions' = Append(questions, q)
        /\ ppc' = IF Len(questions') = qdcount THEN "store" ELSE "question"
        /\ UNCHANGED <<packet, pos, name, jump_count, jumped, array, raw_data, filled>>
    BY <1>1, <1>12 DEF KeepQuestion, IInv, TypeOK
  <2>2. q \in Question
    <3>1. strdup(name) \in Seq(Octet)
      BY StrdupType DEF IInv, TypeOK
    <3>2. UInt16(offset) \in Nat /\ UInt16(offset + 2) \in Nat
      BY <2>1, ByteType DEF IInv
    <3>3. QED
      BY <3>1, <3>2 DEF Question
  <2> HIDE DEF q
  <2>3. questions \in Seq(Question) /\ Len(questions) < qdcount /\ array /\ ~raw_data
    BY <2>1 DEF IInv, TypeOK, Walking
  <2>4. questions' \in Seq(Question) /\ Len(questions') = Len(questions) + 1
    BY <2>1, <2>2, <2>3, AppendProperties
  <2>5. furthest' \in Int /\ furthest' < len
    BY <1>1, <1>2, <1>12, <2>1 DEF KeepQuestion
  <2>6. TypeOK'
    BY <2>1, <2>4, <2>5 DEF IInv, TypeOK
  <2>7. len' = len /\ qdcount' = qdcount /\ Len(questions) \in Nat
    BY <2>1, <2>3 DEF len, qdcount, UInt16, Byte
  <2>8. Walking' /\ OwnershipIsClear'
    BY <1>1, <2>1, <2>3, <2>4, <2>7 DEF IInv, Walking, OwnershipIsClear
  <2>9. ReadsInBounds' /\ WritesInBounds'
    BY <2>1, <2>5, <2>7 DEF IInv, ReadsInBounds, WritesInBounds, name_len
  <2>10. QED
    BY <2>6, <2>8, <2>9 DEF IInv
<1>13. CASE StoreRaw
  <2>1. /\ ppc = "store" /\ ppc' = "ok" /\ raw_data' = TRUE
        /\ UNCHANGED <<packet, offset, pos, name, jump_count, jumped, questions, array, filled>>
    BY <1>13 DEF StoreRaw, cursor
  <2>2. len - 1 \in Nat /\ len - 1 < len
    BY <1>1, <2>1, ParserLimits DEF IInv, Walking
  <2>3. furthest' \in Int /\ furthest' < len
    BY <1>2, <1>13, <2>2 DEF StoreRaw
  <2>4. TypeOK'
    BY <2>1, <2>3 DEF IInv, TypeOK
  <2>5. len' = len /\ qdcount' = qdcount
    BY <2>1 DEF len, qdcount, UInt16, Byte
  <2>6. Walking' /\ OwnershipIsClear'
    BY <2>1, <2>5 DEF IInv, Walking, OwnershipIsClear
  <2>7. ReadsInBounds' /\ WritesInBounds'
    BY <2>1, <2>3, <2>5 DEF IInv, ReadsInBounds, WritesInBounds, name_len
  <2>8. QED
    BY <2>4, <2>6, <2>7 DEF IInv
<1>14. CASE UNCHANGED vars
  BY <1>14 DEF vars, cursor, message, extent, IInv, TypeOK, Walking, OwnershipIsClear,
     ReadsInBounds, WritesInBounds, len, name_len, qdcount, UInt16, Byte
<1>15. QED
  BY <1>4, <1>5, <1>6, <1>7, <1>8, <1>9, <1>10, <1>11, <1>12, <1>13, <1>14
    DEF Next, Parsing

\* The invariant holds in every state of the parser.
LEMMA ParserInvariant == Spec => []IInv
<1>1. QED
  BY ParserInit, ParserStep, PTL DEF Spec

\* The parser's state has its types; the pointers followed in one name never
\* exceed MAX_COMPRESSION_JUMPS.
THEOREM ParserTypeCorrect == Spec => []TypeOK
<1>1. IInv => TypeOK
  BY DEF IInv
<1>2. QED
  BY <1>1, ParserInvariant, PTL

\* parse_dns_message and parse_dns_name read no byte beyond the datagram.
THEOREM ParserReadsInBounds == Spec => []ReadsInBounds
<1>1. IInv => ReadsInBounds
  BY DEF IInv
<1>2. QED
  BY <1>1, ParserInvariant, PTL

\* parse_dns_name writes no byte beyond the caller's name buffer, for every
\* DNS_MAX_NAME_LEN and whatever labels pointers chain.
THEOREM ParserWritesInBounds == Spec => []WritesInBounds
<1>1. IInv => WritesInBounds
  BY DEF IInv
<1>2. QED
  BY <1>1, ParserInvariant, PTL

\* A failed parse_dns_message owns nothing; a successful one owns the raw copy
\* and as many questions as the header announces.
THEOREM ParserOwnsAllOrNothing == Spec => []OwnershipIsClear
<1>1. IInv => OwnershipIsClear
  BY DEF IInv
<1>2. QED
  BY <1>1, ParserInvariant, PTL

-----------------------------------------------------------------------------
(* The parser runs down. *)

\* The part of the work the parser is at: the header, the questions, the copy.
Stage == CASE ppc = "header"                        -> 3
           [] ppc \in {"question", "name", "fields"} -> 2
           [] ppc = "store"                          -> 1
           [] OTHER                                  -> 0

QuestionsLeft == qdcount - Len(questions)

\* The part of a question.
Part == CASE ppc = "question" -> 2 [] ppc = "name" -> 1 [] OTHER -> 0

PointersLeft == MAX_COMPRESSION_JUMPS - jump_count

BytesLeft == len - pos

\* Each step gets on with the work, in this order: a stage, a question, a part
\* of it, a pointer, a label.  A pointer may lead back and give bytes to read
\* again, a new question gives new pointers.
GetsOn ==
  \/ Stage' < Stage
  \/ /\ Stage' = Stage
     /\ \/ QuestionsLeft' < QuestionsLeft
        \/ /\ QuestionsLeft' = QuestionsLeft
           /\ \/ Part' < Part
              \/ /\ Part' = Part
                 /\ \/ PointersLeft' < PointersLeft
                    \/ PointersLeft' = PointersLeft /\ BytesLeft' < BytesLeft

\* Each of the five is a number that bounds what is left.
Bounded ==
  /\ Stage \in 0..3 /\ Part \in 0..2
  /\ PointersLeft \in 0..MAX_COMPRESSION_JUMPS
  /\ Stage > 0 => QuestionsLeft \in 0..qdcount
  /\ ppc = "name" => BytesLeft \in 0..len

\* Inside a name the parser is inside the datagram or just behind it.
InDatagram == ppc = "name" => pos <= len

\* It stays there: a label was tested against the length and a pointer leads
\* backwards.
LEMMA StaysInDatagram == IInv /\ InDatagram /\ [Next]_vars => InDatagram'
<1> SUFFICES ASSUME IInv, InDatagram, [Next]_vars, ppc' = "name"
             PROVE  pos' <= len'
  BY DEF InDatagram
<1>1. len \in Nat /\ pos \in Nat /\ offset \in Nat
  BY LenType DEF IInv, TypeOK
<1>2. CASE BeginName
  BY <1>1, <1>2 DEF BeginName, len
<1>3. CASE FollowPointer
  <2>1. UInt16(pos) \in Nat
    BY <1>1, ByteType DEF IInv
  <2>2. Target \in Nat /\ Target < pos /\ pos + 1 < len /\ pos' = Target /\ packet' = packet
    BY <1>3, <2>1 DEF FollowPointer, Backwards, Target
  <2>3. QED
    BY <1>1, <2>2 DEF len
<1>4. CASE CopyLabel
  BY <1>1, <1>4 DEF CopyLabel, Fits, len
<1>5. CASE UNCHANGED vars
  BY <1>5 DEF vars, cursor, InDatagram, len
<1>6. QED
  <2>1. ~free_dns_message /\ \A p \in Packet : ~parse_dns_message(p)
    BY DEF free_dns_message, parse_dns_message
  <2>2. ~(TooShort \/ HeaderOnly \/ HasQuestions \/ EndName \/ KeepQuestion \/ StoreRaw)
    BY DEF TooShort, HeaderOnly, HasQuestions, EndName, KeepQuestion, StoreRaw
  <2>3. ~(\/ NoRoomForName \/ BadPointer \/ BadLength \/ BadLabel \/ RunsOff \/ NoRoomForFields
          \/ NoMemoryForName \/ NoMemoryForRaw)
    BY DEF NoRoomForName, BadPointer, BadLength, BadLabel, RunsOff, NoRoomForFields,
       NoMemoryForName, NoMemoryForRaw, Abandon
  <2>4. QED
    BY <1>2, <1>3, <1>4, <1>5, <2>1, <2>2, <2>3 DEF Next, Parsing, NameStep

\* parse_dns_message terminates on every datagram, whatever questions it
\* announces and however its pointers are chained: every step decreases five
\* numbers in lexicographic order.
THEOREM ParserRunsDown == Spec => [][Parsing => Bounded /\ GetsOn]_vars
<1> DEFINE J == MAX_COMPRESSION_JUMPS
<1>1. ASSUME IInv, InDatagram, Parsing
      PROVE  Bounded /\ GetsOn
  <2>1. /\ len \in Nat /\ qdcount \in Nat /\ pos \in Nat /\ offset \in Nat /\ J \in Nat
        /\ jump_count \in 0..J /\ Len(questions) \in Nat
    BY <1>1, LenType, ParserLimits DEF IInv, TypeOK
  <2>2. /\ ppc \in {"header", "question", "name", "fields", "store"}
        /\ packet' = packet
    BY <1>1 DEF Parsing, TooShort, HeaderOnly, HasQuestions, BeginName, NoRoomForName, NameStep,
       FollowPointer, BadPointer, BadLength, CopyLabel, BadLabel, EndName, RunsOff, KeepQuestion,
       NoRoomForFields, NoMemoryForName, StoreRaw, NoMemoryForRaw, AtByte, Abandon
  <2>3. /\ ppc = "header" => Len(questions) = 0
        /\ ppc \in {"question", "name", "fields"} => Len(questions) < qdcount
        /\ ppc = "store" => Len(questions) = qdcount
        /\ ppc = "name" => pos <= len
    <3>1. Len(<< >>) = 0
      OBVIOUS
    <3>2. QED
      BY <1>1, <3>1 DEF IInv, Walking, OwnershipIsClear, InDatagram
  <2>4. Bounded
    BY <2>1, <2>2, <2>3 DEF Bounded, Stage, Part, PointersLeft, QuestionsLeft, BytesLeft
  <2> SUFFICES GetsOn
    BY <2>4
  <2>5. len' = len /\ qdcount' = qdcount
    BY <2>2 DEF len, qdcount, UInt16, Byte
  <2>6. ASSUME ppc' \in Returned
        PROVE  GetsOn
    BY <2>2, <2>6 DEF GetsOn, Stage, Returned
  <2>7. CASE HeaderOnly \/ HasQuestions
    BY <2>7 DEF HeaderOnly, HasQuestions, GetsOn, Stage
  <2>8. CASE BeginName
    BY <2>1, <2>5, <2>8 DEF BeginName, message, GetsOn, Stage, QuestionsLeft, Part
  <2>9. CASE FollowPointer
    BY <2>1, <2>5, <2>9
      DEF FollowPointer, message, AtByte, GetsOn, Stage, QuestionsLeft, Part, PointersLeft
  <2>10. CASE CopyLabel
    <3>1. Byte(pos) \in Nat
      <4>1. Byte(pos) \in Octet
        BY <1>1, <2>1, ByteType DEF IInv
      <4>2. QED
        BY <4>1 DEF Octet
    <3>2. /\ ppc = "name" /\ ppc' = ppc /\ questions' = questions /\ jump_count' = jump_count
          /\ pos' = pos + 1 + Byte(pos)
      BY <2>10 DEF CopyLabel, AtByte, message
    <3>3. BytesLeft' < BytesLeft
      BY <2>1, <2>5, <3>1, <3>2 DEF BytesLeft
    <3>4. /\ Stage' = Stage /\ QuestionsLeft' = QuestionsLeft /\ Part' = Part
          /\ PointersLeft' = PointersLeft
      BY <2>5, <3>2 DEF Stage, QuestionsLeft, Part, PointersLeft
    <3>5. QED
      BY <3>3, <3>4 DEF GetsOn
  <2>11. CASE EndName
    BY <2>1, <2>5, <2>11 DEF EndName, AtByte, message, GetsOn, Stage, QuestionsLeft, Part
  <2>12. CASE KeepQuestion
    <3>1. Len(questions') = Len(questions) + 1
      <4>1. questions \in Seq(Question)
        BY <1>1 DEF IInv, TypeOK
      <4>2. QED
        BY <2>12, <4>1 DEF KeepQuestion
    <3>2. QED
      BY <2>1, <2>5, <2>12, <3>1 DEF KeepQuestion, GetsOn, Stage, QuestionsLeft
  <2>13. CASE \/ TooShort \/ StoreRaw \/ NoRoomForName \/ BadPointer \/ BadLength \/ BadLabel
              \/ RunsOff \/ NoRoomForFields \/ NoMemoryForName \/ NoMemoryForRaw
    BY <2>6, <2>13 DEF TooShort, StoreRaw, NoRoomForName, BadPointer, BadLength, BadLabel, RunsOff,
       NoRoomForFields, NoMemoryForName, NoMemoryForRaw, Abandon, Returned
  <2>14. QED
    BY <1>1, <2>7, <2>8, <2>9, <2>10, <2>11, <2>12, <2>13 DEF Parsing, NameStep
<1>2. Init => InDatagram
  BY DEF Init, InDatagram
<1>3. Spec => []InDatagram
  BY <1>2, StaysInDatagram, ParserInvariant, PTL DEF Spec
<1>4. [Next]_vars /\ IInv /\ InDatagram => [Parsing => Bounded /\ GetsOn]_vars
  BY <1>1
<1>5. QED
  BY <1>3, <1>4, ParserInvariant, PTL DEF Spec
=============================================================================
