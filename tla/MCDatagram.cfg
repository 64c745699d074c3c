CONSTANTS
  Packet <- MCPacket
  TestPacket <- MCTestPacket
  Domain <- MCDomain
  Blocked <- MCBlocked
  Room = {13, 20, 7, 8, 9}
  DNS_HEADER_SIZE = 12
  DNS_UDP_MAX_SIZE = 27
  DNS_MAX_NAME_LEN = 6
  DNS_MAX_LABEL_LEN = 3
  MAX_COMPRESSION_JUMPS = 2
  Stale = 0
  Bad = Bad
  None = None
  MaxFragments = 3
  MaxTestFragments = 2
  MaxQuestions = 2
  MaxText = 7
SPECIFICATION HandleFairSpec
INVARIANTS HandleTypeOK ReadsInBounds WritesInBounds OwnershipIsClear AcceptsExactlyWellFormed
  ReplyCarriesQuestion PolicyOnTheWire EncodedNamesParse
PROPERTY ParserReturns
