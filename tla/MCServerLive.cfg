CONSTANTS
  Datagram <- Rivals
  BlockedNames = {"bad"}
  Port = {5001}
  Rcode = {"NOERROR", "NXDOMAIN"}
  Faults = {"memory", "socket", "send", "upstream", "recv", "lookup"}
  UPSTREAM_RETRIES = 2
  MaxInFlight = 1
  RxCapacity = 1
  MaxDatagrams = 2
  MaxRecvErrors = 1
  NULL = NULL
  Unfilled = Unfilled
SPECIFICATION FairSpec
PROPERTIES QueriesAreSettled SignalStopsServer
