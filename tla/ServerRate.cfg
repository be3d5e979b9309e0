SPECIFICATION ServerSpec
CONSTANTS
  Clients = {a, b}
  Sockets = {s1, s2}
  Limit = 2
  Window = 1
  Grace = 1
  Ttl = 1
  Period = 1
  MaxThreads = 1
  MaxClock = 4
  None = None
INVARIANT RateAsPromised
CHECK_DEADLOCK FALSE
