SPECIFICATION Spec
CONSTANTS
    Events = {e1, e2}
    Versions = {8, 9, 10}
    Unmatched = {}
    MaxWatchers = 1
    MaxSeconds = 1
    MaxTasks = 1
    Mins = {1}
    Maxs = {4}
    Specs = {4}
    Targets = {80}
INVARIANT ProcessedOnce
CHECK_DEADLOCK FALSE
