CONSTANTS
  Query <- MCQuery
  Port = {5001, 5002}
  Rcode = {0}
  Faults = {"memory", "socket", "send", "upstream"}
  UPSTREAM_RETRIES = 3
  MaxInFlight = 2
  NULL = NULL
  Unfilled = Unfilled
SPECIFICATION FairSpec
INVARIANTS TypeOK AnswersQueryOrItsTwin NothingLeaks
PROPERTY CallReturns
