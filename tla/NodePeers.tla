----------------------------- MODULE NodePeers -----------------------------
(***************************************************************************)
(* From the nodes of one source cluster to the Peers of one target, over   *)
(* time: validateMeshNetworks, reconcileAllClusters, filterNodes,          *)
(* pushPeersToTargets and the enrichment of endpoints in                   *)
(* internal/controller/clustermesh_controller.go, with ReconcilePeers of   *)
(* internal/peer/reconciler.go.                                            *)
(*                                                                         *)
(* Module PeerReconcile has the lagging cache and the Peers of other       *)
(* meshes and users that are left out here: a Peer is known by the node it *)
(* is named after, and only passes for this mesh and source write Peers.   *)
(* A key may move from node to node, as when a machine is renamed, and two *)
(* nodes may have the same.  `nodes' are the nodes as cached.  A cache     *)
(* lists objects in no fixed order, so each pass picks one.                *)
(***************************************************************************)
EXTENDS PeerBuilder, FiniteSets

CONSTANTS
    Nodes,         \* node names of the source cluster, by rank in string order
    Watchers,      \* nodes of the target cluster
    Keys,          \* WireGuard public keys
    Started,       \* the nodes when the operator is installed
    NodeOptions,   \* what a node may be later, None for no such node
    Specs,         \* the ClusterMesh resources there may be, ours first;
                   \* a mesh is the sequence of its entries, the source's first
    Egress,        \* the endpoint from which the target sees the traffic of a node
    Misreports,    \* other things a discovered-endpoints annotation may say of a key
    MaxChanges     \* bound: node, user and fault events of a behaviour

\* What is known of a node.
NodeType(x) ==
    /\ {x.podCIDR, x.wg} \subseteq CIDR \cup {None, Bad}
    /\ x.key \in Keys \cup {None}
    /\ x.internal \subseteq Address

ASSUME ConstantsAssumption ==
    /\ IsFiniteSet(Nodes) /\ Nodes \subseteq Nat /\ DOMAIN Started = Nodes
    /\ None \notin CIDR \cup Keys /\ Bad \notin CIDR \cup {None}
    /\ \A n \in Nodes : \A x \in NodeOptions[n] \cup {Started[n]} : x # None => NodeType(x)
    /\ \A s \in Specs : /\ 1 \in DOMAIN s /\ 1 \in DOMAIN s[1] /\ s[1][1] # None
                        /\ \A i \in DOMAIN s[1][1].networks : s[1][1].networks[i] \in CIDR \cup {Bad}
    /\ MaxChanges \in Nat

VARIABLES
    meshes,     \* the ClusterMesh resources of the namespace
    nodes,      \* the nodes of the source
    peers,      \* the target's Peers for them, by node
    observed,   \* the discovered-endpoints annotations of the target's nodes
    queued,     \* whether an event, a retry or a timer will bring our mesh to the worker
    changes,    \* node, user and fault events so far
    op          \* the pass in progress

vars == <<meshes, nodes, peers, observed, queued, changes, op>>

\* A pass: `entry', `extras' and `want' are the source's entry, the networks of the
\* anchor and the Peers as computed at its start, `listed' the Peers there were then;
\* `loop' is the loop of ReconcilePeers it is in (0: no pass, 3: both are over) and
\* `todo' the Peers that loop has yet to visit; `checked' is whether the networks were
\* validated.
NoPeers == [n \in {} |-> None]
Idle == [loop |-> 0, entry |-> None, extras |-> {}, want |-> NoPeers, listed |-> NoPeers,
         todo |-> {}, failed |-> FALSE, checked |-> FALSE]

\* The orders in which a set may be listed.
Orders(S) == {f \in [1..Cardinality(S) -> S] : \A i, j \in DOMAIN f : f[i] = f[j] => i = j}
Present == {n \in Nodes : nodes[n] # None}

Init ==
    /\ meshes \in Specs
    /\ nodes = Started
    /\ peers = NoPeers
    /\ observed = [w \in Watchers |-> [k \in Keys |-> None]]
    /\ queued = TRUE
    /\ changes = 0
    /\ op = Idle

-----------------------------------------------------------------------------
(* Nodes, users, and WireGuard.                                            *)

Change == changes < MaxChanges /\ changes' = changes + 1

\* What the predicates of the Node watch let through: nodes that come and go, and
\* annotations.  Addresses are in the status; the API server keeps no generation of a
\* Node, so a PodCIDR that comes late is not noticed either.
Noticed(x, y) ==
    \/ None \in {x, y}
    \/ <<x.wg, x.key, x.clustermesh, x.force>> # <<y.wg, y.key, y.clustermesh, y.force>>

\* A node joins or leaves, or Kilo, the cloud or a user changes what is known of it.
ChangeNode(n, x) ==
    /\ Change
    /\ nodes[n] # x /\ nodes' = [nodes EXCEPT ![n] = x]
    /\ queued' = (queued \/ Noticed(nodes[n], x))
    /\ UNCHANGED <<meshes, peers, observed, op>>

\* Events of another mesh do not bring ours to the worker.
EditSpec(s) ==
    /\ Change
    /\ meshes # s /\ meshes' = s
    /\ queued' = (queued \/ s[1] # meshes[1])
    /\ UNCHANGED <<nodes, peers, observed, op>>

\* A node of the source opens the tunnel to one of the target: possible as soon as
\* the target has a Peer with its key.  Kilo notes where the traffic came from, in an
\* annotation.
Handshake(n, w) ==
    /\ nodes[n] # None /\ \E m \in DOMAIN peers : peers[m].key = nodes[n].key
    /\ observed[w][nodes[n].key] # Egress[n]
    /\ observed' = [observed EXCEPT ![w][nodes[n].key] = Egress[n]]
    /\ queued' = TRUE
    /\ UNCHANGED <<meshes, nodes, peers, changes, op>>

\* Kilo restarts, or the annotation has an entry that is of no use.
Misreport(w, k, x) ==
    /\ Change
    /\ observed[w][k] # x /\ observed' = [observed EXCEPT ![w][k] = x]
    /\ queued' = TRUE
    /\ UNCHANGED <<meshes, nodes, peers, op>>

-----------------------------------------------------------------------------
(* A pass.                                                                 *)

\* The valid nodes and the Peers for a listing of the nodes.
Valid(list) == filterNodes(nodes, list, meshes[1][1])
Desired(list) ==
    buildDesiredPeers(meshes[1][1], nodes, list, Valid(list), meshPersistentKeepalive(meshes[1]))

\* No Peer can be built for one of them: buildDesiredPeers, and the pass, end in error.
BuildFails(valid) == \E n \in valid : Unfit(meshes[1][1], nodes[n])

\* The Peers to push, with the endpoints the target has seen.
Enriched(desired) ==
    {enrichEndpointsFromDiscovered(desired, observed, l) : l \in Orders(Watchers)}

\* Up to and with the listing at the start of ReconcilePeers.
Pass(desired, want, checked) ==
    op' = [loop |-> 0, entry |-> meshes[1][1],
           extras |-> CollectAnchorCIDRs(meshes[1][1], nodes, DOMAIN desired),
           want |-> want, listed |-> peers, todo |-> {}, failed |-> FALSE, checked |-> checked]

\* The meshes that pass validation.
Validated == {s \in Specs : ValidateMeshNetworks(s)}

\* Networks that overlap end the pass; but if the meshes cannot be listed there is
\* taken to be no overlap, and if the target's nodes cannot be listed the
\* configured endpoints are used.
Begin ==
    /\ op = Idle /\ queued
    /\ UNCHANGED <<meshes, nodes, peers, observed, queued>>
    /\ \E desired \in {Desired(list) : list \in Orders(Present)} :
        /\ ~BuildFails(DOMAIN desired)
        /\ \/ /\ meshes \in Validated
              /\ \E want \in Enriched(desired) : Pass(desired, want, TRUE)
              /\ UNCHANGED changes
           \/ meshes \in Validated /\ Change /\ Pass(desired, desired, TRUE)
           \/ Change /\ \E want \in Enriched(desired) : Pass(desired, want, FALSE)

\* An overlap: the status says so, and the mesh is done without a requeue.  Writing the
\* status is an event of the mesh, unless it said so before; a write that fails is
\* retried.
Stop ==
    /\ op = Idle /\ queued /\ meshes \notin Validated
    /\ queued' \in BOOLEAN
    /\ UNCHANGED <<meshes, nodes, peers, observed, changes, op>>

\* Mutant of Loops: orphans go first.
LoopsSwapped == <<"delete", "write">>

\* ReconcilePeers: reconcileDesired, then deleteOrphans, whatever failed.
Loops == <<"write", "delete">>

\* Mutant of Visits: with no desired Peers there is taken to be nothing to do.
VisitsIfAny(loop) ==
    IF loop = 3 \/ DOMAIN op.want = {} THEN {}
    ELSE IF Loops[loop] = "write" THEN DOMAIN op.want
    ELSE DOMAIN op.listed \ DOMAIN op.want

\* The Peers the loop goes through.
Visits(loop) ==
    IF loop = 3 THEN {}
    ELSE IF Loops[loop] = "write" THEN DOMAIN op.want
    ELSE DOMAIN op.listed \ DOMAIN op.want

NextLoop ==
    /\ op # Idle /\ op.loop < 3 /\ op.todo = {}
    /\ op' = [op EXCEPT !.loop = @ + 1, !.todo = Visits(op.loop + 1)]
    /\ UNCHANGED <<meshes, nodes, peers, observed, queued, changes>>

\* buildAllPeersByPublicKey: the listed Peers with the key of a wanted one, of which the
\* lowest name counts.
Holders(n) == {c \in DOMAIN op.listed : op.listed[c].key = op.want[n].key}
Lowest(S) == CHOOSE c \in S : \A d \in S : c <= d

\* createOrMerge: a wanted Peer that is not there, while its key is under another name,
\* is not created; its routes are added to the Peer of that name.
Merged(n) == n \notin DOMAIN op.listed /\ Holders(n) # {}
Home(n) == IF Merged(n) THEN Lowest(Holders(n)) ELSE n

\* What the write for a wanted Peer leaves under that name: update or create, or
\* mergeIntoCanonical.
Result(n) ==
    IF Merged(n) THEN [op.listed[Home(n)] EXCEPT !.routes = @ \cup op.want[n].routes]
    ELSE op.want[n]

\* The listed Peer is like that already, so no call is made.  An Update is refused if the
\* listed version is not the current one, because the pass itself has written it.
AsListed(n) == Home(n) \in DOMAIN op.listed /\ op.listed[Home(n)] = Result(n)
Current(n) ==
    Home(n) \in DOMAIN op.listed => Home(n) \in DOMAIN peers /\ peers[Home(n)] = op.listed[Home(n)]

Put(c, p) == peers' = [m \in DOMAIN peers \cup {c} |-> IF m = c THEN p ELSE peers[m]]
Remove(n) == peers' = [m \in DOMAIN peers \ {n} |-> peers[m]]

\* The loop goes on to the next Peer, whether or not the call failed.
Visited(n, failed) == op' = [op EXCEPT !.todo = @ \ {n}, !.failed = @ \/ failed]

\* reconcileDesired visits a Peer.
Write(n) ==
    /\ n \in op.todo /\ Loops[op.loop] = "write"
    /\ \/ AsListed(n) /\ Visited(n, FALSE) /\ UNCHANGED <<peers, changes>>
       \/ /\ ~AsListed(n) /\ Current(n)
          /\ Put(Home(n), Result(n)) /\ Visited(n, FALSE) /\ UNCHANGED changes
       \/ ~AsListed(n) /\ ~Current(n) /\ Visited(n, TRUE) /\ UNCHANGED <<peers, changes>>
       \/ ~AsListed(n) /\ Change /\ Visited(n, TRUE) /\ UNCHANGED peers
    /\ UNCHANGED <<meshes, nodes, observed, queued>>

\* deleteOrphans visits a Peer.
DeleteOrphan(n) ==
    /\ n \in op.todo /\ Loops[op.loop] = "delete"
    /\ \/ Remove(n) /\ Visited(n, FALSE) /\ UNCHANGED changes
       \/ Change /\ Visited(n, TRUE) /\ UNCHANGED peers
    /\ UNCHANGED <<meshes, nodes, observed, queued>>

\* The mesh is reconciled again: after an error by the rate limiter, otherwise by a
\* timer.
End ==
    /\ op.loop = 3 /\ op' = Idle
    /\ UNCHANGED <<meshes, nodes, peers, observed, queued, changes>>

-----------------------------------------------------------------------------
GoOn == NextLoop \/ (\E n \in Nodes : Write(n) \/ DeleteOrphan(n)) \/ End
Step == Begin \/ Stop \/ GoOn

Next ==
    \/ \E n \in Nodes : \E x \in NodeOptions[n] : ChangeNode(n, x)
    \/ \E s \in Specs : EditSpec(s)
    \/ \E n \in Nodes, w \in Watchers : Handshake(n, w)
    \/ \E w \in Watchers, k \in Keys : \E x \in Misreports : Misreport(w, k, x)
    \/ Step

Spec == Init /\ [][Next]_vars

\* A pass can begin without any fault: no Peer fails to be built (ValidNodesSound).
CanBegin == op = Idle /\ queued /\ meshes \in Validated

\* A mesh that is queued is taken up: a pass that can begin does not wait forever, which
\* is weak fairness of Begin, whose step makes CanBegin false.  A pass goes on, and a
\* node keeps trying to reach the nodes of the target.
FairSpec ==
    /\ Spec
    /\ []<>~CanBegin
    /\ WF_vars(GoOn)
    /\ \A n \in Nodes, w \in Watchers : WF_vars(Handshake(n, w))

-----------------------------------------------------------------------------
(* Properties.                                                             *)

PeerType(p) ==
    /\ DOMAIN p = {"key", "routes", "endpoint", "keepalive"}
    /\ p.key \in Keys
    /\ p.routes \subseteq CIDR \cup {Bad}
PeersType(f) == DOMAIN f \subseteq Nodes /\ \A n \in DOMAIN f : PeerType(f[n])

\* The types of the variables; a pass that is writing knows which entry it is for.
TypeOK ==
    /\ meshes \in Specs
    /\ DOMAIN nodes = Nodes /\ \A n \in Nodes : nodes[n] \in NodeOptions[n] \cup {Started[n]}
    /\ PeersType(peers) /\ PeersType(op.want) /\ PeersType(op.listed) /\ queued \in BOOLEAN
    /\ op.loop \in 0..3 /\ op.todo \subseteq Nodes /\ changes \in 0..MaxChanges
    /\ op # Idle => op.entry # None

\* The checks of filterNodes and the expectations of BuildPeer agree: whatever order
\* the nodes are listed in, no node that was let through makes BuildPeer fail (which
\* would stop the whole mesh), and no two of them have the same WireGuard address.
ValidNodesSound ==
    \A valid \in {Valid(list) : list \in Orders(Present)} :
        /\ ~BuildFails(valid)
        /\ \A n, m \in valid : n # m => nodes[n].wg.ip # nodes[m].wg.ip

\* A pass over validated networks has ended without an error.
CleanEnd == op.loop = 3 /\ op.checked /\ ~op.failed
Carriers(t) == {n \in DOMAIN peers : t \in peers[n].routes}

\* After a clean pass a network that no node carries a part of is in the Peer of
\* exactly one node, and no other route of any Peer of the source overlaps it: the
\* target's WireGuard sends its traffic to one place, always the same.  Only if the
\* node that was to have it was merged into the Peer of another may it be in none.
RoutesExclusive ==
    CleanEnd /\ op.want # NoPeers =>
        \A t \in op.extras :
            /\ \/ Cardinality(Carriers(t)) = 1
               \/ Carriers(t) = {} /\ \E n \in DOMAIN op.want : t \in op.want[n].routes /\ Merged(n)
            /\ \A n \in DOMAIN peers : \A r \in peers[n].routes :
                r # t => ~CIDROverlaps(ParseCIDR(t), ParseCIDR(r))

\* The Peers that route a network or a part of it.
Routing(f, network) ==
    {n \in DOMAIN f : \E r \in f[n].routes : CIDRContains(ParseCIDR(network), ParseCIDR(r))}

\* After a clean pass with a valid node, each network the source declares is there: the
\* pass wants some Peer to route it or a part of it, and some Peer does, unless all
\* nodes that were to do so were merged into Peers of others.
EveryNetworkRouted ==
    CleanEnd /\ op.want # NoPeers =>
        \A i \in DOMAIN op.entry.networks :
            LET chosen == Routing(op.want, op.entry.networks[i])
            IN /\ chosen # {}
               /\ Routing(peers, op.entry.networks[i]) # {} \/ \A n \in chosen : Merged(n)

\* A Peer goes only when its successors are in place: as long as no write of the pass
\* failed, at the moment an orphan is deleted every node of the pass has its own Peer,
\* with all its routes.  So an anchor that leaves takes no network with it.  Excepted
\* are nodes whose key was under another name: their routes went into that Peer, which
\* may be the very orphan (a renamed machine), and the next pass brings them back.
HandoverBeforeDelete ==
    [][DOMAIN peers \ DOMAIN peers' # {} /\ ~op.failed =>
        \A m \in DOMAIN op.want : ~Merged(m) =>
            m \in DOMAIN peers' /\ op.want[m].routes \subseteq peers'[m].routes]_vars

\* A node that has all a Peer needs, with or without an endpoint, and a key and a
\* WireGuard address nobody else has.
Sure(n) ==
    /\ validatePodCIDR(nodes[n], meshes[1][1]) = "" /\ validateWireguardIP(nodes[n], meshes[1][1]) = ""
    /\ nodes[n].key # None /\ ResolveEndpoint(nodes[n], meshes[1][1].port) # Bad
    /\ \A m \in Present \ {n} :
        /\ nodes[m].key # nodes[n].key
        /\ nodes[m].wg # None => normalizeWGIPKey(nodes[m].wg) # normalizeWGIPKey(nodes[n].wg)

\* It has a Peer with its key, its PodCIDR and its addresses, and the endpoint it is
\* really seen from.
Served(n) ==
    /\ n \in DOMAIN peers
    /\ peers[n].key = nodes[n].key /\ peers[n].endpoint = Egress[n]
    /\ {nodes[n].podCIDR, HostRoute(nodes[n].wg.ip)} \cup nodeOwnInternalIPHostRoutes(nodes[n])
        \subseteq peers[n].routes

\* Validation stops the mesh, or has stopped it and nothing has queued it since.
Stopped == meshes \notin Validated \/ ~queued

\* Once changes are over, every node that is sure to pass is served for good, unless
\* validation stopped the mesh: nodes behind NAT that had no endpoint at all included,
\* since the Peer they get without one lets the first handshake happen, and renamed
\* machines, whose Peer went with the one of the old name.
EventuallyServed == <>[](\A n \in Present : Sure(n) => Served(n) \/ Stopped)

\* Again and again a pass ends with Peers of valid nodes only, each with the node's own
\* key, and with a Peer for the key of every node that is valid in that listing: what
\* nodes left behind is removed, unless validation stopped the mesh.  (Not for good:
\* which of two nodes with one WireGuard address is peered, and which node takes the
\* networks nobody carries, moves with the order in which the cache lists nodes.)
RepeatedlyExact ==
    []<>(\/ op = Idle /\ Stopped
         \/ /\ op.loop = 3
            /\ \E valid \in {Valid(list) : list \in Orders(Present)} :
                /\ DOMAIN peers \subseteq valid
                /\ {peers[n].key : n \in DOMAIN peers} = {nodes[n].key : n \in valid}
            /\ \A n \in DOMAIN peers : peers[n].key = nodes[n].key)

=============================================================================
