SPECIFICATION ServicesSpec
CONSTANTS
    Conns = {k1, k2}
    MaxAsked = 1
    Callers = {t1, t2}
    Names = {e1, e2}
    PoolSize = 3
    MaxCalls = 2
    Loggers = {l1, l2}
    MaxEntries = 4
    MaxFailures = 2
    BufferSize = 1
    FileSize = 2
    MaxBackups = 1
    near = near
    far = far
    Providers = {d, near, far}
    Default = d
    Fallbacks <- MCFallbacks
    Malformed = {d}
    Claudes = {near}
    Ollamas = {far}
    ChannelSize = 2
    Chunks = {"text", "open", "close", "tool", "arguments"}
    MaxTurns = 3
    MaxTools = 3
INVARIANTS
    GraphIsWhole
    AcknowledgedIsKept
    
    ModelIsToldTheTruth
PROPERTIES
    
    OutagesHeal
CHECK_DEADLOCK FALSE
