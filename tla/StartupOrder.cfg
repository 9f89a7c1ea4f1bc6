SPECIFICATION Spec
CONSTANTS
    Meshes = {1, 2}
    Clusters = {"l", "a", "b"}
    Secrets = {"s1", "s2"}
    Keys = {"k", "v"}
    Local = Local
    Options <- MCSplit
    Gone = Gone
    None = None
    MaxChanges = 0
CHECK_DEADLOCK FALSE
PROPERTY RestartStable
