SPECIFICATION FairSpec
CONSTANTS
    Meshes = {1, 2}
    Clusters = {"l", "a", "b"}
    Secrets = {"s1", "s2"}
    Keys = {"k", "v"}
    Local = Local
    Options <- MCShared
    Gone = Gone
    None = None
    MaxChanges = 2
INVARIANT TypeOK SettledFresh
PROPERTY EventuallyFresh RestartJustified
CHECK_DEADLOCK FALSE
