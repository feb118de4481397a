SPECIFICATION Spec
CONSTANTS
    Names = {w1, w2}
    Schedules = {c1, c2}
    Bodies = {b1, b3}
    PlainBody = b1
    Storable = {b1}
    StoredBody <- MCStoredBody
    MaxVersion = 5
    MaxRestarts = 2
    Workflows = {v1, v2}
    LongNames = {v2}
    MaxExecs = 2
    BackoffLimit = 1
    HistoryLimit = 2
    None = None
SYMMETRY NameSymmetry
INVARIANTS
    CopiesAgree
    
 
CHECK_DEADLOCK FALSE
