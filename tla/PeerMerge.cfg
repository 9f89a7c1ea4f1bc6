CONSTANTS
    Meshes = {"m1", "m2"}
    Labels = {"m1", "m2"}
    MeshLabel <- MCMeshLabel
    Sources = {"s1"}
    Nodes = {"n1"}
    Keys = {"k1"}
    IPs <- MCIPs
    NodeIPs <- MCNodeIPs
    Names <- MCNames
    PeerName <- MCPeerName
    UserPeers <- MCNoUserPeers
    NoPeer = NoPeer
    NoKey = NoKey
    Unlabelled = Unlabelled
    MaxLag = 2
    MaxChanges = 0
SPECIFICATION FairSpec
CHECK_DEADLOCK FALSE
PROPERTY EventuallyMerged
