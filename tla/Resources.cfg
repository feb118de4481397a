CONSTANTS
    Kinds = {"server", "proxy", "memory", "postgres"}
    MaxDisturbances = 1
    MaxUid = 2
SPECIFICATION CommandSpec
INVARIANT ResourcesAreSound
PROPERTIES SpecsAreFollowed StoppedIsGone
CHECK_DEADLOCK FALSE
