SPECIFICATION Spec
CONSTANTS
    Clients = {c1, c2}
    MaxSubs = 2
    Requests = {r1, r2}
    Workers = {w1, w2}
    Conns = {k1}
    BufferSize = 1
    ErrorSize = 1
    MaxSent = 3
    Calls = {k1, k2}
    Sessions = {s1, s2}
    Ids = {7}
    Servers = {a, b}
    Tools = {a}
    Callers = {r1}
    SSEServers = {}
    StreamServers = {}
    MaxChanges = 2
INVARIANTS
    NotificationsReach
    ReviewDecides
    ProtocolIsKept
PROPERTIES
    InitializeOpensNothing
    RoutesConverge
    
CHECK_DEADLOCK FALSE
