SPECIFICATION MCSpec
CONSTANTS
    JobIDs = {j1, j2}
    Specs = {p1, p2}
    None = None
    Retries = {0, 2}
    MaxEntries = 2
    MaxStarts = 2
    s1 = s1
    s2 = s2
    s3 = s3
    Steps = {s1, s2, s3}
    Definitions <- AllDefinitions
INVARIANTS
    EnabledJobIsScheduled
    NoRunOutlivesStop
    
    ResultIsDeserved
PROPERTIES
    StopReachesRuns
    ExecutionsEnd
CHECK_DEADLOCK FALSE
