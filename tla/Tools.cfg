SPECIFICATION Spec
CONSTANTS
    Runs = {i1, i2}
    NamespaceOf <- MCNamespaceOf
    Credentials = {i1}
    MaxFailures = 1
    fa = fa
    fb = fb
    fc = fc
    Paths = {fa, fb, fc}
    Present = {fa, fb}
    SameBase = {}
    Plans <- MCPlans
    MaxBackups = 2
    MaxSeconds = 2
    MaxOps = 2
    x = x
    y = y
    z = z
    Items = {x, y, z}
    Tokens <- MCTokens
    TypeOf <- MCTypeOf
    Types <- MCTypes
    Limits = {1, 3, 4}
    Strategies = {"oldest", "lru", "by_type", "other"}
    Days = 3
    Names <- MCNames
    Undefined = u
    MaxDeps = 2
    Edited = {"b"}
    Budget = 3
    StepNames = {n1, n2, n3}
    MaxSteps = 3
    Titles = {"n", "m"}
    MaxWorkflows = 2
    Events = {e1, e2}
    Versions = {9}
    Unmatched = {e2}
    MaxWatchers = 1
    MaxTicks = 1
    MaxTasks = 9
    Mins = {1, 2}
    Maxs = {4, 8}
    Specs = {0, 2, 4, 6}
    Targets = {80}
    Executions = {"r", "s"}
    Submitted = {"s"}
    LongNames = {}
    Retained = {"r"}
INVARIANTS
    
    
    WindowIsSound
    
    
    
    
CHECK_DEADLOCK FALSE
