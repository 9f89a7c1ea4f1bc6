SPECIFICATION Spec
CONSTANTS
    Meshes = {"m1"}
    Clusters = {1, 2}
    Cidrs = {"m1"}
    Options <- MCDisjoint
    Invalid = Invalid
    Bare = {}
    Gone = Gone
    MaxChanges = 2
PROPERTY ReleasedClean
CHECK_DEADLOCK FALSE
