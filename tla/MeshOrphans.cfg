SPECIFICATION FairSpec
CONSTANTS
    Meshes = {"m1", "m2"}
    Clusters = {1, 2}
    Cidrs = {"m1", "m2"}
    Options <- MCDisjoint
    Invalid = Invalid
    Bare = {2}
    Gone = Gone
    MaxChanges = 2
PROPERTY EventuallyClean
CHECK_DEADLOCK FALSE
