SPECIFICATION FairSpec
CONSTANTS
    Meshes = {"m1"}
    Clusters = {1, 2, 3}
    Cidrs = {"m1"}
    Options <- MCDisjoint
    Invalid = Invalid
    Bare = {}
    Gone = Gone
    MaxChanges = 1
PROPERTY EventuallyRestSynced
CHECK_DEADLOCK FALSE
