CONSTANTS
  Datagram <- EveryKind
  BlockedNames = {"bad"}
  Port = {5001}
  Rcode = {"NOERROR", "NXDOMAIN"}
  Faults = {"memory", "socket", "send", "upstream", "recv"}
  UPSTREAM_RETRIES = 2
  MaxInFlight = 2
  RxCapacity = 2
  MaxDatagrams = 2
  MaxRecvErrors = 1
  NULL = NULL
  Unfilled = Unfilled
SPECIFICATION Spec
INVARIANTS TypeOK BlockedNeverLeaves StatsAddUp RepliesMatchQueries NothingHeldBetweenQueries
PROPERTY ImplementsService
