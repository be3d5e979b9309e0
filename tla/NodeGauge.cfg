SPECIFICATION Spec
CONSTANTS
    Conns = {c1, c2}
    MaxConnections = 1
    MaxSessions = 1
    IdleTtl = 1
    Directions = {"past"}
    None = None
INVARIANT GaugeIsCurrent
