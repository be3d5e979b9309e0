SPECIFICATION NodeSpec
CONSTANTS
    c1 = c1
    c2 = c2
    a = a
    Conns = {c1, c2}
    MaxConnections = 1
    MaxSessions = 1
    IdleTtl = 1
    Directions = {"past", "future"}
    None = None
    Links = {c1, c2}
    Ips = {a}
    IpOf <- OneAddress
    Sec = 2
    rate_limit_rps = 1
    rate_limit_burst = 1
    ip_rate_limit_rps = 1
    ip_rate_limit_burst = 2
    ip_ttl = 4
    MaxInstant = 5
    Peers = {c1, c2}
    Keys = {k1, k2}
    NoKey = NoKey
    Modes = {"none", "api_key", "jwt"}
    EnvKeys = {k1}
    Unreadable = Unreadable
    MaxEdits = 2
INVARIANTS
    SessionsGaugeAccounts
    AdmittedWithinCapacity
    ConnectionsNeverUndercounted
    RouteNeverStale
    IpRateBounded
    ConnRateBounded
    OnlyListedKeysAdmitted
PROPERTIES
    DrainedNodeForgetsSessions
    ClosesOnlyExcess
    RotationTakesEffect
