SPECIFICATION FairSpec
CONSTANTS
    n1 = 1
    n2 = 2
    n3 = 3
    w1 = w1
    k1 = k1
    k2 = k2
    dns = dns
    nat1 = nat1
    nat2 = nat2
    Bad = Bad
    None = None
    V4 = 4
    DefaultWireguardPort = 7
    MaxPort = 9
    Nodes = {1, 2, 3}
    Watchers = {w1}
    Keys = {k1, k2}
    Started <- MCStarted
    NodeOptions <- MCNodeOptions
    Specs <- MCSpecs
    Egress <- MCEgress
    Misreports <- MCMisreports
    MaxChanges = 2
INVARIANT TypeOK ValidNodesSound RoutesExclusive EveryNetworkRouted
PROPERTY HandoverBeforeDelete EventuallyServed RepeatedlyExact
CHECK_DEADLOCK FALSE
