CONSTANTS
    Meshes = {"m1", "m2"}
    Labels = {"m1", "m2"}
    MeshLabel <- MCMeshLabel
    Sources = {"s1"}
    Nodes = {"n1"}
    Keys = {"k1", "k2"}
    IPs <- MCIPs
    NodeIPs <- MCNodeIPs
    Names <- MCNames
    PeerName <- MCPeerName
    UserPeers <- MCUserPeers
    NoPeer = NoPeer
    NoKey = NoKey
    Unlabelled = Unlabelled
    MaxLag = 2
    MaxChanges = 2
SPECIFICATION FairSpec
CHECK_DEADLOCK FALSE
INVARIANT TypeOK ListingsSound PassExact
PROPERTY Isolation DeletesUnwantedOnly DuplicatesExplained
PROPERTY EventuallyServed
PROPERTY EventuallyClean
