SPECIFICATION FairSpec
CONSTANTS
    Servers = {s1}
    Urls = {u1, u2}
    Protocols = {"http", "other"}
    Relabels = FALSE
    LosesDeletes = FALSE
    MaxRetries = 1
    MaxConsecutiveFailures = 1
    MaxChanges = 2
    MaxInits = 1
    None = None
PROPERTIES
    EventuallyUsable
    
CHECK_DEADLOCK FALSE
