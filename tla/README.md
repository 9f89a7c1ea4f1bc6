# A TLA+ model of the Kilo ClusterMesh operator

The operator joins Kubernetes clusters into a WireGuard mesh. For every
`ClusterMesh` resource, every source cluster listed in it and every valid node of
that source, it keeps a Kilo `Peer` object in each other cluster of the mesh. This
directory specifies how it does that under lagging caches, conflicting writes,
unreachable clusters, crashes and configuration changes. The specifications are
checked with TLC on small instances; all safety properties that the code satisfies
are also proved with TLAPS for all instances.

## 1. The system

| Part | Source | State | Operations | Module |
|---|---|---|---|---|
| Peer reconciler | `internal/peer/reconciler.go` | none of its own: two listings per call | `ReconcilePeers`, `DeleteStaleSourceClusters` | `PeerReconcile`, `NodePeers` |
| Controller | `internal/controller/clustermesh_controller.go` | work queue, the reconcile in hand | reconcile, deletion, two sweeps, requeue | `ClusterMesh`, `PeerReconcile`, `NodePeers` |
| Mesh validation, CIDR helpers | `internal/validation/mesh.go`, `internal/netutil` | none | overlap checks, containment | `Networks` |
| Node validation, endpoints | `internal/validation/node.go`, `internal/kilonode` | none | skip reasons, duplicate addresses, endpoints | `NodeValidation` |
| Peer builder | `internal/peer/builder.go` | none | Peers of nodes, networks of the anchor | `PeerBuilder` |
| Peer names | `internal/peer/naming.go` | none | `Name`, labels | `PeerNames`, `PeerReconcile` |
| Cluster registry | `internal/multicluster/registry.go`, `client.go` | one client per cluster | `Build`, lookups | `Startup`, `ClusterMesh` |
| REST mapper recovery | `internal/multicluster/mapper.go`, `internal/restart/trigger.go` | remembered discovery | reset on NoKindMatch | `ClusterMesh` |
| Change watcher | `internal/restart/watcher.go` | fingerprint taken at startup | compare, cancel | `Startup`, `ClusterMesh` |
| CRD installer, process start | `internal/crd`, `cmd/main.go` | order of the steps above | `InstallOrUpdate`, `run` | `Startup` |

How they interact: `run` installs the CRD, builds the registry, takes the
fingerprint, then starts the manager. Node and ClusterMesh events fill the work
queue. One worker reconciles one mesh at a time: it validates the networks, filters
the nodes of each source, builds their Peers, and calls `ReconcilePeers` once for
every source and target. The watcher ends the process when the fingerprint changes,
and the next process builds a new registry.

What is hard to test here:

- reads come from caches while writes go to the API server, so every decision is
  made on a state that may be over;
- several meshes write to the same target, and may share nodes and so public keys;
- a reconcile is a long sequence of calls to several clusters, any of which may fail
  or be the last one before a crash;
- some errors are retried, some are logged and dropped, and some paths end without a
  requeue;
- validation, builder and reconciler are written apart and rely on each other, and
  caches list nodes in no fixed order;
- the configuration is read twice during startup.

`PROJECT.json` lists these as hazards with their source lines.

## 2. The modules

The system is cut three ways, each keeping what the others abstract:

| | Meshes | Clusters | A pass of `ReconcilePeers` | Nodes and routes |
|---|---|---|---|---|
| `PeerReconcile` | several, no cache lag | one target | every call, lagging cache | keys; routes constant |
| `NodePeers` | the ones of a namespace | one source, one target | every write, no lag | in full |
| `ClusterMesh` | several, lagging cache | several | one step | whether there is a valid node |

### PeerReconcile: one target cluster, call by call

`peers` is what the API server holds, `view` the operator's cache, `watch` the
events in between. `nodes` gives the public key of every valid node of every source.
`phase` and `sources` are what the meshes say. `op` is the reconcile in progress:
its listings (`all`, `mine`), what it wants (`want`), what is left to do, and which
listed objects have been written since (an Update of those is a conflict).

| Action | Code |
|---|---|
| `StartReconcile` | `reconcile`: Get, deletion or sync branch |
| `ListAll`, `ListMine` | the two List calls of `ReconcilePeers`, with the desired peers of `buildDesiredPeers` |
| `Write` | `reconcileDesired`, one peer: update, `createOrMerge`, `mergeIntoCanonical` |
| `DeleteOrphan`, `EndPass` | `deleteOrphans`, the return of `ReconcilePeers` |
| `DropFinalizer` | end of `handleDeletion` |
| `ListStale`, `ListOrphans`, `SweepDelete` | the two sweeps, one delete at a time |
| `EndReconcile` | status and requeue |
| `SetNode`, `EditSpec`, `DeleteMesh`, `ForceRelease`, `CreateMesh`, `UserDelete`, `Restart`, `Deliver` | nodes, users, the pod, the informer |

A Peer is its labels, its key and its routes. Names are numbers, since the code only
compares them; `PeerNames` has the function that makes them. Sources and names are
taken in any order, which includes the order of the code. A List does not fail, since
it is served by a synced cache.

### Networks, NodeValidation, PeerBuilder, PeerNames: the pure functions

They translate the functions of the same names, operator by function. An address is a
sequence of bits, of one length per family. A CIDR text is an address and a prefix
length, host bits kept, or `Bad` if it does not parse; `ParseCIDR` clears the host
bits. Other texts (keys, hosts) are values the code only compares. A list that the
code goes through in order, where the order matters, is a sequence: duplicates of a
WireGuard address, the anchor, the first discovered endpoint. A name is a sequence of
characters, the hash an arbitrary function of a given length: that a name fits and
that no two are equal is about characters, so the theorems on names need them. The other
modules only compare names.

### NodePeers: from nodes to Peers

`nodes` are the nodes of the source, `meshes` the ClusterMesh resources, ours first,
`peers` the target's Peers for the source, by node. `observed` is what the target's
nodes have in `kilo.squat.ai/discovered-endpoints`. `queued` says whether our mesh will
come to the worker again, and `op` is the pass in progress, with the Peers it wants and
those it listed.

| Action | Code |
|---|---|
| `Begin` | `validateMeshNetworks` (failing open), `filterNodes`, `buildDesiredPeers`, `enrichEndpointsFromDiscovered` (failing open), with lists in any order; the listings of `ReconcilePeers` |
| `Stop` | an overlap: `setOverlapCondition`, done without a requeue |
| `NextLoop`, `Write`, `DeleteOrphan`, `End` | the two loops of `ReconcilePeers`, one Peer at a time: create, update, `createOrMerge` and `mergeIntoCanonical`, conflicts with a write of the same pass; a failed call does not end a loop |
| `Handshake`, `Misreport` | WireGuard and Kilo: a handshake needs a Peer with the node's key |
| `ChangeNode`, `EditSpec` | nodes, Kilo, users; what the Node watch lets through (`Noticed`), and edits of our own mesh, queue it |

A Peer is known by its node, since all are of one mesh and source; a node is a number, the
rank of its name, since `buildAllPeersByPublicKey` takes the lowest name. Nodes may have
the same key, and a machine that joins again under another name brings its key along.
Peers of other meshes and users, which may also hold a key, are in `PeerReconcile`.

### ClusterMesh: several clusters, pass by pass

`cr` is the API server's ClusterMesh objects, `seen` the cache, `behind` the meshes
for which the two differ in version. `pushed` is the set of (mesh, source, target) for
which the target holds Peers. `op` is the reconcile in progress; its `missed` is a history
of the passes of a deletion whose error was logged. `registry`, `boot` and `negative` belong to the process:
its clients, its fingerprint, and the clusters whose REST mapper remembers that there
is no Peer kind. `crd` are the clusters that have the kind. `queue` holds every mesh
that will be reconciled again, at once or after a delay.

| Action | Code |
|---|---|
| `Begin` | Get, the deletion check, `AddFinalizer` with its conflict |
| `Validate` | `validateMeshNetworks`, failing open, and `setOverlapCondition` |
| `NextSource`, `Push` | `reconcileAllClusters` and `pushPeersToTargets`, or the loops of `handleDeletion`, in list order; `RefreshMapperOnNoMatch` when the error ends `Reconcile` |
| `SweepStale`, `SweepOrphans` | the sweeps over the whole registry, with deadlines |
| `Finish`, `DropFinalizer` | `updateStatus`, the end of `handleDeletion` |
| `WatcherRestart` | `ChangeWatcher.Reconcile` and the new process |
| `Deliver`, `ToggleNodes` | the watches with their filters |
| the others | users, Secrets, outages, installation of Kilo, crashes |

All meshes are in one namespace. An outage makes calls to a target fail; listing nodes
still works, from the cache. The startup is one step here; `Startup` takes it apart.

### MeshOwnership: what the finalizer promises

The abstract specification behind the finalizer: a mesh is absent, plain, held or
leaving; Peers of a mesh appear in a cluster only while it is held or leaving. There
are no caches, queues, passes or processes. `ClusterMesh` implements it, under the
mapping `Ownership`: the phase of a mesh is read off the API server's object, a
cluster is marked if any source has Peers there, and the meshes torn off are those
whose finalizer a user removed by hand. Both the finalizer protocol and its promise
are thus independent of what the operator believes.

### Startup: how a process gets its clients

`specs`, `secrets` and `crd` are on the API server, `seen` and `seenSecs` in the
caches of the running manager. A process goes through `GetCRD`, `ApplyCRD`,
`WaitForCRD`, `ListMeshes`, `BuildEntry` for each cluster, `ListAgain`, `ReadVersion`
for each Secret and `StartManager`; then `Watch` compares fingerprints whenever
`DeliverMesh` or `DeliverSecret` has queued a request. A reference is a Secret and a
key in it; the fingerprint has the Secret only, as in the code, and its hash is taken
to be injective. What is hashed for one cluster is a sequence, in the order in which
the meshes were listed (`Orders`); it is written as the set of its pairs of index and
element. `raced` is a history variable: the configuration changed, or a read
failed, while this process was starting. A Secret is read once for the fingerprint here,
once per reference in the code; the difference shows only if it changes in between,
which is `raced` anyway.

### What is assumed of code outside the repository

The API server and controller-runtime are modelled from how the code uses them:

- one worker per controller, a queue without duplicates, errors retried;
- List and Get read a cache that receives the events of each object in order;
- Update of an outdated version is refused, Create of an existing name is refused,
  Delete is by name and unconditional; an update that changes nothing keeps the
  version;
- an object with a deletion timestamp goes with its last finalizer;
- the API server lists in the order of names, a cache in no fixed order;
- a client's REST mapper remembers that a kind is missing until it is reset, as the
  comments in `mapper.go` and `trigger.go` describe;
- one operator process at a time (one replica, or leader election as in the chart).

The periodic cache resync of controller-runtime (hours) is not modelled, so nothing
below depends on it. It matters for one case: a mesh that validation stopped because of
another mesh is not queued when that one is edited. It waits for an event of its own, a
Node event that passes the filter, or the resync. `NodePeers` calls such a mesh `Stopped`
and its liveness properties excuse it; `IdleMeshesBlocked` shows that it says
`Ready=False`. Whether a manager can start while a remote cluster is
unreachable is not modelled either.

## 3. Properties and runs

Runs that pass:

| Run | Instance | Shows |
|---|---|---|
| `peer_target` | two meshes sharing one node, two keys, a Peer made by hand, two disturbances | `TypeOK`; `ListingsSound`: listings mean what the code takes them to mean; `PassExact`: a pass without an error leaves exactly the desired Peers; `Isolation`: the Peers of others are left alone; `DeletesUnwantedOnly`; `DuplicatesExplained`: the two ways in which a key gets a second Peer; `EventuallyServed`: every wanted key ends up in some Peer; `EventuallyClean`: everything unwanted goes |
| `mesh_lifecycle` | one mesh of two or three clusters, one without the Peer CRD at first, two events | `TypeOK`; `CopiesSound`: what an outdated copy of a mesh is good for; `ImplementsOwnership`; `PushesUnderFinalizer`; `IdleMeshesBlocked`: no mesh is forgotten by the queue; `AllTargetsAlike`: a reconcile that gets past its passes skipped no failed target; `ReleasedExplained`: what a deletion may leave behind; `DeletionCompletes`; `EventuallySynced` |
| `mesh_orphans` | two meshes, two clusters, one without the Peer CRD at first, two events | `EventuallyClean`: leftovers of failed or forced deletions are swept by the other mesh |
| `node_peers` | two machines under three names, one node in the target, two keys, five sets of meshes, two events | `TypeOK`; `ValidNodesSound`: what passes validation can be built; `RoutesExclusive`, `EveryNetworkRouted`: the networks of the anchor; `HandoverBeforeDelete`; `EventuallyServed`: also behind NAT, or renamed; `RepeatedlyExact`: nothing is left behind |
| `startup` | two meshes, three clusters, two Secrets with two keys, two events | `TypeOK`; `SettledFresh`: a watcher at rest means current clients; `EventuallyFresh`: restarts happen, and end (both while the meshes agree on the Secret of a cluster, which one option of mesh 2 does not); `RestartJustified`: and only for a reason |

Runs in which the code does something other than what a comment, test or document
says (details under `findings` in `PROJECT.json`):

| Run | Says | Does |
|---|---|---|
| `peer_duplicate` | `ReconcilePeers` prevents two Peers with one key | it does not while the cache lags |
| `peer_merge` | routes of both meshes are merged into one Peer | the next reconcile of the owner replaces them, in alternation |
| `peer_same_name` | different meshes must not affect each other | meshes of one name in two namespaces delete each other's Peers |
| `mesh_release` | deletion blocks until all Peers are gone | the finalizer goes whatever happened |
| `mesh_outage` | an unreachable cluster does not hold up the rest | the first failing target ends the reconcile |
| `startup_boot` | a process without a mesh is restarted once one is created | not if created between registry build and fingerprint |
| `startup_order` | the fingerprint is stable under reordering | two references to one cluster keep the order of the listing |

Met while modelling, without a run: `README.md:28` and `README.md:216` say that nodes
without an endpoint are skipped (they become roaming peers), `README.md:30` that an
InternalIP is routed if it is in `allowedNetworks` (it always is),
`docs/per-node-setup.md:50` that of two nodes with one WireGuard address the first in
API order is kept (the list comes from a cache), and `docs/architecture.md:53`
describes a `BuildAnchorPeer` that no longer exists. Two more statements are contradicted
by what the passing runs show:

- `README.md:220`, `docs/architecture.md:130`, `docs/troubleshooting.md:148`,
  `docs/per-node-setup.md:219`, `docs/known-gaps.md:55-60` and the comment at
  `internal/controller/clustermesh_controller.go:66` say that Nodes are not watched, so a
  changed annotation needs a manual edit of the mesh. `SetupWithManager` watches the Nodes
  of every cluster, annotations included, and a synced mesh is requeued by a timer;
  `ToggleNodes` in `ClusterMesh` and `ChangeNode` in `NodePeers` follow the code, and
  `EventuallySynced` and `EventuallyServed` hold without any edit.
- `docs/architecture.md:156-161`, `docs/troubleshooting.md:168-176` and
  `docs/known-gaps.md:115-127` say that the networks of the anchor are lost for a cycle if
  `nodes[0]` has no endpoint or a malformed one. A node without an endpoint is a roaming
  peer and carries them; one with a malformed endpoint is not valid, so another is first.
  `EveryNetworkRouted` has both cases.

Every property of a passing run has a mutant: a plausible slip in one definition
(an operator whose comment says "Mutant of") under which TLC finds the property
violated.

### What the properties leave open

Where the code makes no promise a property has a condition, which says where the
limits are:

- `PassExact`: no call of the pass failed. Excepted are Peers written after the
  listing by labels whose listed version gave no cause to write: missing, or as desired.
  Only the next pass sees those.
- `DuplicatesExplained` is what remains of the promise that `peer_duplicate` refutes.
  Its second way needs no lag: a node changes its key to one that a Peer made by hand or
  of another mesh holds, and `reconcileDesired` updates its Peer in place without the
  lookup that `createOrMerge` does.
- `ReleasedExplained` is what remains of the promise that `mesh_release` refutes: what is
  left is of a cluster that the spec no longer lists, in a cluster without a client, or
  an error was logged. A pass is one step there; with `PassExact`, Peers that
  a lagging listing missed are to be added.
- `AllTargetsAlike` speaks of sources and targets with a client. A source without one
  keeps what it has.
- `HandoverBeforeDelete`: no write of the pass failed. `deleteOrphans` runs even if
  one did, so a network can be without a Peer until the retry.
- `HandoverBeforeDelete`, `RoutesExclusive` and `EveryNetworkRouted` except nodes that
  were merged. If a machine is renamed, its routes are merged into the Peer of its old
  name (`reconciler.go:171-173`), which the second loop of the same pass deletes, without
  any error. If it is the anchor, the networks go with it. The next pass, at
  most `syncRequeueAfter` later, creates its Peer; `EventuallyServed` and
  `RepeatedlyExact` include this. The exceptions are needed: without them TLC finds the
  rename in `node_peers`.
- `RoutesExclusive` and `EveryNetworkRouted`: the networks were validated, which they
  are not if the meshes cannot be listed.
- `EventuallyServed` (NodePeers): the node has a key and a WireGuard address that no other
  node claims. A node that is itself skipped can keep another one out.
- `EventuallyServed` (NodePeers) and `RepeatedlyExact`: validation has not stopped the mesh,
  or something has queued it since (`Stopped`).
- `RepeatedlyExact` is `[]<>`, not `<>[]`: the anchor, and which of two nodes with one
  address is peered, move with the order of the cache. It counts keys, since two nodes
  with one key may share a Peer.
- `SettledFresh`: nothing changed while the process was starting (`startup_boot` has the
  case of a mesh that is created then), and up to the key within a Secret, which the fingerprint leaves out.
- `SettledFresh`, `EventuallyFresh` and `RestartJustified`: the meshes agree on the
  Secret of a cluster. If they do not, the references to it are hashed in the order of
  the listing (`startup_order`): restarts need not end, and two meshes that swap
  their Secrets can leave the fingerprint as it was, and the old client in place.
- `EventuallyClean` (ClusterMesh): clusters the operator has a client for, and as long
  as some mesh is being reconciled.

### Bounds

`MaxChanges` bounds users, nodes and faults, never the operator. Each single hazard
needs one or two such events, for example a failed delete and then a restart; the
first installation of Kilo in a cluster and the recovery from an outage come free.
`MaxLag` (two undelivered events) lets the cache miss one or two writes. Two meshes
are the fewest that share a key or leave orphans; three clusters are the fewest that
have pairs unaffected by an outage.

In `node_peers`, IPv4 addresses have four bits and IPv6 addresses two: enough for a
pod network, a WireGuard network, a service address and an address outside of all
three. The options of the nodes include each way of failing validation that differs
in what follows, both prefix lengths of the WireGuard annotation, and a WireGuard
address taken twice. The third node is the second machine again, with its key and another
PodCIDR: it may join after the second left (a rename) or beside it (a key taken twice).
The sets of meshes include a shared source, both families, overlaps within an entry
and across meshes, PodCIDRs outside of the entry's, and a text that does not parse.

`peer_target` has one source cluster. That a pass for one source leaves the others
alone is covered by the theorems `MeshesIsolated` and `OnlyUnwantedDeleted`.

Deadlock is not checked: with all meshes gone, or no changes left, the system may
stop.

### Fairness

Only the operator and its caches are fair, never users, nodes or faults:

- watches deliver (weak fairness), since informers reconnect;
- a reconcile that began takes its next step (weak), since every call returns or
  times out;
- a queued mesh is taken up (strong fairness of `Begin` and `StartReconcile`: they
  are disabled while the worker is busy, and the queue is first come, first served).
  In `PeerReconcile` there is no queue: a mesh is always reconciled again, by retry or
  after `syncRequeueAfter`. In `NodePeers` the same holds of a mesh that is `queued`, which
  it stays unless validation stops it (`Stop`). There the condition is `[]<>~CanBegin`: a
  pass that could begin without a fault does not wait for ever. An edit of another mesh
  queues nothing;
- the watcher and the start of a process proceed, and the API server establishes a CRD
  (weak);
- in `NodePeers` a node keeps trying to reach the target's nodes (weak fairness of
  `Handshake`), as WireGuard does while there is traffic or a keepalive.

`Recover` and `InstallKilo` are not fair: an outage may last for ever, so
`DeletionCompletes` holds during one, while `EventuallySynced` speaks of the time when
every cluster answers and has the CRD.

## 4. Proofs

For all values of the constants, bounds included:

| Module | Theorem | Statement |
|---|---|---|
| `PeerReconcile_proofs` | `TypeCorrect`, `ListingsAlwaysSound` | `Spec => []TypeOK`, `Spec => []ListingsSound` |
| | `MeshesIsolated`, `OnlyUnwantedDeleted` | if names are unique, `Spec => Isolation` and `Spec => DeletesUnwantedOnly` |
| `PeerPass_proofs` | `PassesExact`, `DuplicateCauses` | `Spec => []PassExact`, `Spec => DuplicatesExplained` |
| `NamedPeers_proofs` | `NamesIsolate` | with the names of `naming.go`, `Spec => Isolation /\ DeletesUnwantedOnly`, on the conditions below |
| `ClusterMesh_proofs` | `TypeCorrect`, `CopiesAlwaysSound` | `Spec => []TypeOK`, `Spec => []CopiesSound` |
| | `PushedUnderFinalizer`, `NoMeshForgotten` | `Spec => PushesUnderFinalizer`, `Spec => []IdleMeshesBlocked` |
| | `Refinement` | `Spec => ImplementsOwnership` |
| | `TargetsAlike`, `LeftoversExplained` | `Spec => []AllTargetsAlike`, `Spec => ReleasedExplained` |
| `Networks_proofs` | `OverlapsShare`, `ContainsSubset` | the tests on one or two addresses are what they stand for on whole networks |
| | `ValidMeshesApart` | what `ValidateMeshNetworks` lets through shares no address |
| `NodePeers_proofs` | `TypeCorrect`, `ValidationSound` | `Spec => []TypeOK`, `Spec => []ValidNodesSound` |
| | `AnchorsExclusive`, `NetworksRouted`, `Handover` | `Spec => []RoutesExclusive`, `Spec => []EveryNetworkRouted`, `Spec => HandoverBeforeDelete` |
| `Startup_proofs` | `TypeCorrect`, `ClientsFresh` | `Spec => []TypeOK`, `Spec => []SettledFresh` |
| | `RestartsJustified` | `Spec => RestartJustified` |
| `PeerNames_proofs` | `NamesFit` | a generated name has at most `maxNameLength` characters |
| | `NameUnique` | equal names have equal parts, on the conditions below |

**PeerReconcile.** The inductive invariant is `TypeOK /\ ListingsSound`. `Isolation`
cannot be shown from types alone: a delete is by name, and the object under that name
may be newer than the one listed. What saves it is that an object's labels always
match its name (`Owned`), wherever it is: API server, cache, undelivered event or
listing. So whatever is now under a name that was listed for deletion has the labels
the listing had, provided that names are unique. For updates, `ListingsSound` says
that a listed object not written since is the current one, so an update that is not
refused loses nothing. To keep that through a step, the invariant also says that the
cache equals the API server except for the names in `watch`, and that the last event
of a name carries its current value.

**A pass (PeerPass).** `PassExact` is not inductive: a merge writes to a Peer other than the
one visited, possibly one that the pass is done with. It does no harm, because that
Peer holds the key of the visited one, while no two desired Peers of a pass have one key
(`WantApart`), as no two nodes do (`KeysApart`). So the Peer merged into is none the pass
counts as exact. The invariant `PassOK` has this, and that a Peer of the mesh and source
that the listing by labels lacks was written since (`Missed`), which is where the
exception in `PassExact` comes from. `DuplicateCauses` follows from the listings: a create
happens only if no listed Peer holds the key, or the lowest of them has the very name to
be created.

**ClusterMesh.** The inductive invariant is `TypeOK /\ CopiesSound`. A reconcile
pushes for the copy it read, so `PushesUnderFinalizer` and the refinement need to know
what the copy says of the API server's object now: a finalizer seen on a mesh that is
not being deleted is still there, since only a reconcile that read the deletion
removes it, and its update is refused unless that copy is current. That last part is
why the invariant relates `old` to both cache and API server. `WantsAlive` adds that
only a mesh read as alive has Peers pushed. In the refinement each action maps to the
abstract one that does the same to the finalizer, or to a stutter; a push is a
`Spread`, a sweep a `Shrink`.

`LoopsSound` is the invariant of the two loops. For a deletion (`Cleared`): of the pairs
behind it, those that still have Peers have no client for the target, or are in `missed`.
For a sync (`Spread`, `Alike`): the source in hand has its Peers, or none, in all targets
visited, and so had every source before it. It holds because during a reconcile nobody
else touches Peers of its mesh: there is one worker, a new process starts from nothing,
and the sweep for stale sources takes only pairs outside the spec. The orphan sweep
may take them, if the cache has seen the mesh go meanwhile, so `AllTargetsAlike` speaks
of the time before it. `LeftoversExplained` then needs `CopiesSound`: the update that
drops the finalizer is accepted only if the spec in hand is the current one.

**NodePeers.** The invariant `IInv` says what the two loops of a pass have done, as
long as no call failed (`Writing`, `Deleting`): each node visited that was not merged has
its Peer, which is as wanted or has, on top of that, the routes of a node merged into it
(`Done`, `Touched`). The second case is what makes it inductive. A merge writes a Peer
other than the one visited, perhaps one that the loop is done with. It does no harm: the
merge is an update of the listed version, so it is refused if the pass has written that
Peer, and if the pass left it alone, it was as wanted. `IInv` also keeps, of the
pass's start, that the wanted routes are exclusive and complete. Both follow from
validation and from `CollectAnchorCIDRs`: a network nobody carries a part of cannot
overlap a PodCIDR inside another network, nor hold a host route. Nodes
may change during the pass without harm, since the pass works on what it computed.

**Startup.** `SettledFresh` compares the registry with the API server, which the
process never does. The invariant `IInv` follows one configuration through the start
of an undisturbed process: the clients built so far are those of the API server's
meshes and Secrets (`Building`), the fingerprint read so far is of the same ones
(`Reading`), and from then on `boot` says what the registry was made of (`Running`),
whatever users do. `Matches` is the part that makes this inductive: a Secret that has
the version in `boot` gives the client in the registry, and one that was missing then
gave none. A write takes a version no fingerprint holds yet, so it can only make the
versions differ; a deletion brings back no other version than "missing". A watcher at
rest has seen equal fingerprints in some order. Equal fingerprints have the same
references (`SameRefs`), and if the meshes agree there is one for each cluster.

`RestartsJustified` is the converse: equal configurations have equal fingerprints, in
whatever order they are listed, if the meshes agree. The references to one cluster are
then equal elements at the places 1 to n, where n is the number of meshes that have one.
That the places are these, in every listing, is `Places`: a place is the number of
listed meshes up to it, so it is at most n, no two meshes share one, and a one-to-one map
into as many places takes them all. This needs no induction over the listing, but the
set of meshes must be finite.

**PeerNames, NamedPeers.** A name without `--` in its mesh and cluster parts can be split
in one way only, so short names are unique. A text that is too long is cut and gets a dash
and a hash. `NameUnique` holds if the hash tells too long texts apart and no text
that fits ends in a dash and the hash of one that does not (`HashApart`). `NamesIsolate`
brings this to `PeerReconcile`, where a name is a number: with the rank of `Name` as
`PeerName`, uniqueness is no longer assumed. What is not excluded: mesh or cluster names
that contain `--` (Kubernetes allows it; `NamesAssumption` in `MCPeerReconcile` has a
collision), colliding hashes, and a short name that equals a cut one with its hash.

Assumptions: the types of the constants, that there are finitely many meshes (`Startup`)
and nodes (`NodePeers`, numbered in the order of names), that Peers made by hand carry no mesh label and no generated name
(`ConstantsAssumption` and the like, evaluated by TLC in the runs). `MeshesIsolated` and
`OnlyUnwantedDeleted` assume that names are unique; `PassesExact` and `DuplicateCauses` do
not. The theorems of `PeerNames_proofs` and `NamedPeers_proofs` state theirs: an alphabet
of which dash and dot are not plain and which has no capitals, a hash suffix that fits,
names as above.

Only model-checked: the liveness properties (`EventuallyServed` and `EventuallyClean` of
`PeerReconcile`, `DeletionCompletes`, `EventuallySynced` and `EventuallyClean` of
`ClusterMesh`, `EventuallyServed` and `RepeatedlyExact` of `NodePeers`, `EventuallyFresh`),
since the prover handles neither fairness nor ENABLED.

## 5. Not modelled

- `IsTransient`, the two requeue delays and all other durations: time is abstracted to
  what may happen before what.
- Events, peer counts and messages in the status, logging.
- Flags, TLS, metrics, probes and leader election in `cmd/main.go`; the scheme and the
  generated deep copies.
- Texts beyond what the code tells apart: IPv4-mapped IPv6 addresses, and the
  difference between two ways of writing one CIDR, which matters only for the removal
  of duplicates.
- A Peer CRD, or the ClusterMesh CRD, that is removed again.
- Two operator processes at once.
- Preshared keys: the operator never sets them.
- The product of the three cuts of section 2: cache lag inside a pass together with
  anchors that move. `PeerReconcile` shows what lag does to Peers whose routes
  stay, `NodePeers` how routes move without lag.
