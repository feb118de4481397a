SPECIFICATION Spec
CONSTANTS
    Servers = {s1}
    Urls = {u1, u2}
    Protocols = {"http", "sse"}
    Relabels = TRUE
    LosesDeletes = FALSE
    MaxRetries = 1
    MaxConsecutiveFailures = 2
    MaxChanges = 2
    MaxInits = 2
    None = None
INVARIANT
    ModifiedAddsService
CHECK_DEADLOCK FALSE
