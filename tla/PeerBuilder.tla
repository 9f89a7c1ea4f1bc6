---------------------------- MODULE PeerBuilder ----------------------------
(***************************************************************************)
(* From valid nodes to Peers: internal/peer/builder.go,                    *)
(* internal/kilonode/discovered.go, and the functions of                   *)
(* internal/controller/clustermesh_controller.go that call them.           *)
(*                                                                         *)
(* A Peer is its key, its AllowedIPs (the set of their texts: the code     *)
(* removes duplicates and compares them in sorted order), its endpoint     *)
(* (None for a roaming peer) and its keepalive.  `nodes' maps node names   *)
(* to nodes as NodeValidation has them.                                    *)
(***************************************************************************)
EXTENDS NodeValidation

CONSTANT
    MaxPort     \* the largest port, 65535

\* A node carries part of a network: its PodCIDR, an address, or its WireGuard IP.
nodeCoversNetwork(network, node) ==
    \/ node.podCIDR \notin {None, Bad} /\ CIDRContains(network, ParseCIDR(node.podCIDR))
    \/ \E a \in node.internal : NetContains(network, a)
    \/ node.wg \notin {None, Bad} /\ NetContains(network, node.wg.ip)

\* The networks of an entry that no valid node carries a part of, as texts; the ones
\* that do not parse are kept.
CollectAnchorCIDRs(entry, nodes, valid) ==
    {entry.networks[i] : i \in {k \in DOMAIN entry.networks :
        entry.networks[k] # Bad =>
            \A n \in valid : ~nodeCoversNetwork(ParseCIDR(entry.networks[k]), nodes[n])}}

\* The host routes of a node's internal addresses, in the allowed networks or not.
nodeOwnInternalIPHostRoutes(node) == {HostRoute(a) : a \in node.internal}

\* BuildPeer returns an error.
Unfit(entry, node) ==
    \/ node.key = None
    \/ node.wg \in {None, Bad}
    \/ node.podCIDR = None
    \/ ResolveEndpoint(node, entry.port) = Bad

\* The Peer of a node, if it is fit to be one.
BuildPeer(entry, node, extraAllowedIPs, meshKeepalive) ==
    [key |-> node.key,
     routes |-> {node.podCIDR, HostRoute(node.wg.ip)}
                \cup nodeOwnInternalIPHostRoutes(node) \cup extraAllowedIPs,
     endpoint |-> ResolveEndpoint(node, entry.port),
     keepalive |-> IF entry.keepalive < meshKeepalive THEN meshKeepalive ELSE entry.keepalive]

\* The largest keepalive of a mesh.
meshPersistentKeepalive(mesh) ==
    CHOOSE k \in {mesh[c].keepalive : c \in DOMAIN mesh} : \A c \in DOMAIN mesh : mesh[c].keepalive <= k

\* The first node of a list that is among the valid ones.
FirstValid(list, valid) ==
    list[CHOOSE i \in DOMAIN list : list[i] \in valid /\ \A j \in 1..i-1 : list[j] \notin valid]

\* Mutant of buildDesiredPeers: coverage is asked of every listed node.
buildDesiredPeersAll(entry, nodes, list, valid, meshKeepalive) ==
    [n \in valid |->
        BuildPeer(entry, nodes[n],
                  IF n = FirstValid(list, valid)
                  THEN CollectAnchorCIDRs(entry, nodes, {list[i] : i \in DOMAIN list}) ELSE {},
                  meshKeepalive)]

\* The Peers of the valid nodes: the first takes the networks nobody carries.
buildDesiredPeers(entry, nodes, list, valid, meshKeepalive) ==
    [n \in valid |->
        BuildPeer(entry, nodes[n],
                  IF n = FirstValid(list, valid) THEN CollectAnchorCIDRs(entry, nodes, valid) ELSE {},
                  meshKeepalive)]

-----------------------------------------------------------------------------
(* Endpoints seen by the target.  `observed' maps the nodes of the target  *)
(* to what their discovered-endpoints annotation has for each key: an      *)
(* endpoint, None, or Bad for an entry without a usable address or port.   *)

\* What the first node of the list with a usable entry for the key has.
DiscoveredEndpointsByKey(observed, list, key) ==
    LET useful == {i \in DOMAIN list : observed[list[i]][key] \notin {None, Bad}}
    IN IF useful = {} THEN None
       ELSE observed[list[CHOOSE i \in useful : \A j \in useful : i <= j]][key]

\* A discovered endpoint replaces the configured one, unless its port is too large.
enrichEndpointsFromDiscovered(desired, observed, list) ==
    [n \in DOMAIN desired |->
        LET found == DiscoveredEndpointsByKey(observed, list, desired[n].key)
        IN IF found = None THEN desired[n]
           ELSE IF found.port > MaxPort THEN desired[n]
           ELSE [desired[n] EXCEPT !.endpoint = found]]

=============================================================================
