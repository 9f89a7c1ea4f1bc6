SPECIFICATION FairSpec
CONSTANTS
    Meshes = {"m1"}
    Clusters = {1, 2, 3}
    Cidrs = {"m1"}
    Options <- MCGrow
    Invalid = Invalid
    Bare = {2}
    Gone = Gone
    MaxChanges = 2
INVARIANT TypeOK CopiesSound IdleMeshesBlocked AllTargetsAlike
PROPERTY ImplementsOwnership PushesUnderFinalizer ReleasedExplained DeletionCompletes EventuallySynced
CHECK_DEADLOCK FALSE
