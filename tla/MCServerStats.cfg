CONSTANTS
  Datagram <- Ordinary
  BlockedNames = {"bad"}
  Port = {5001}
  Rcode = {"NOERROR", "NXDOMAIN"}
  Faults = {}
  UPSTREAM_RETRIES = 1
  MaxInFlight = 1
  RxCapacity = 1
  MaxDatagrams = 2
  MaxRecvErrors = 0
  NULL = NULL
  Unfilled = Unfilled
SPECIFICATION Spec
INVARIANT BlockedCountIsBlockedQueries
