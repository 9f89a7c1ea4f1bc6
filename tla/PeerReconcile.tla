--------------------------- MODULE PeerReconcile ---------------------------
(***************************************************************************)
(* The Peer objects of ONE target cluster and the operator that maintains  *)
(* them: internal/peer/reconciler.go, and the part of                      *)
(* internal/controller/clustermesh_controller.go that calls it for this    *)
(* target (the per-source passes, the two sweeps, the finalizer).          *)
(*                                                                         *)
(* The operator runs one reconcile at a time (one controller-runtime       *)
(* worker).  Its reads come from an informer cache that lags behind the    *)
(* API server by the events of `watch'; its writes go to the API server.   *)
(* Between any two of its API calls users, nodes and the cache may move.   *)
(*                                                                         *)
(* Data is abstracted to what the code compares.  A Peer is its two        *)
(* labels, its public key and its AllowedIPs; endpoint, keepalive and      *)
(* preshared key travel with the key and are left out.  A name is its rank *)
(* in string order, since the code only compares names.                    *)
(***************************************************************************)
EXTENDS Naturals, Sequences, FiniteSets

CONSTANTS
    Meshes,       \* ClusterMesh resources (namespace and name)
    Labels,       \* values of the kilo-clustermesh.io/mesh label
    MeshLabel,    \* the label each mesh writes: its name without the namespace
    Sources,      \* the clusters other than the target
    Nodes,        \* node names
    Keys,         \* WireGuard public keys
    IPs,          \* AllowedIPs entries
    NodeIPs,      \* what a mesh routes to a node of a source
    Names,        \* Peer object names, by rank in string order
    PeerName,     \* <<mesh label, source, node>> -> name
    UserPeers,    \* Peers that users created by hand, before the operator ran
    NoPeer,       \* "no object under this name"
    NoKey,        \* "no valid node under this name"
    Unlabelled,   \* the label and source of a Peer that carries none
    MaxLag,       \* bound: undelivered watch events
    MaxChanges    \* bound: user, node and fault events of a behaviour

\* The objects the Peer CRD holds, as far as the reconciler looks at them.
Peer == [mesh : Labels \cup {Unlabelled}, src : Sources \cup {Unlabelled},
         key : Keys, ips : SUBSET IPs]

\* The contents of a Peer store, a cache of one, or a listing of one.
PeerMap == [Names -> Peer \cup {NoPeer}]

ASSUME ConstantsAssumption ==
    /\ MeshLabel \in [Meshes -> Labels]
    /\ NodeIPs \in [Meshes \X Sources \X Nodes -> SUBSET IPs]
    /\ Names \subseteq Nat
    /\ PeerName \in [Labels \X Sources \X Nodes -> Names]
    /\ UserPeers \in PeerMap
    /\ NoPeer \notin Peer
    /\ NoKey \notin Keys
    /\ Unlabelled \notin Labels \cup Sources
    /\ MaxLag \in Nat \ {0} /\ MaxChanges \in Nat

\* Peers made by hand carry no mesh label and stay clear of generated names.
ASSUME UserPeersAssumption ==
    \A n \in Names : UserPeers[n] # NoPeer =>
        /\ UserPeers[n].mesh = Unlabelled
        /\ \A t \in Labels \X Sources \X Nodes : PeerName[t] # n

\* "Name generates a deterministic, unique Peer object name."
NamesUnique ==
    \A t, u \in Labels \X Sources \X Nodes : PeerName[t] = PeerName[u] => t = u

VARIABLES
    peers,     \* the API server's Peer objects
    view,      \* the operator's informer cache of them
    watch,     \* events the cache has not seen: <<name, new value>>
    nodes,     \* the public key of each valid node of each source
    phase,     \* each ClusterMesh: "live", "deleting" (finalizer held), "gone"
    sources,   \* the sources in each mesh's spec ({}: target not in spec)
    changes,   \* user, node and fault events so far
    op         \* the reconcile in progress

store == <<peers, view, watch>>
world == <<nodes, phase, sources, changes>>
vars  == <<store, world, op>>

Empty == [n \in Names |-> NoPeer]
Present(m) == {n \in Names : m[n] # NoPeer}

\* Names with an undelivered event: the cache's copy is out of date.
Pending == {watch[i].name : i \in 1..Len(watch)}

\* The worker between two reconciles.  `spec' is the mesh's sources as read at
\* the start, `left' those still to do; `all' and `mine' are the two listings
\* of ReconcilePeers, and allOld, mineOld the names written since the version
\* that listing holds, for which an Update is refused as a conflict.  crOld
\* says the same of the ClusterMesh object.
Idle == [pc |-> "idle", mode |-> "none", mesh |-> "none", src |-> "none",
         spec |-> {}, left |-> {}, want |-> Empty, all |-> Empty, mine |-> Empty,
         allOld |-> {}, mineOld |-> {}, living |-> {}, todo |-> {},
         failed |-> FALSE, crOld |-> FALSE]

Init ==
    /\ peers = UserPeers /\ view = UserPeers /\ watch = <<>>
    /\ nodes \in [Sources \X Nodes -> {NoKey} \cup Keys]
    /\ \A x, y \in Sources \X Nodes : nodes[x] = nodes[y] /\ nodes[x] # NoKey => x = y
    /\ phase = [m \in Meshes |-> "live"]
    /\ sources = [m \in Meshes |-> Sources]
    /\ changes = 0
    /\ op = Idle

-----------------------------------------------------------------------------
(* The API server, the informer cache, users and nodes.                    *)

\* A write the API server accepts: stored, announced to the watch, and from
\* then on newer than any listing the reconcile holds.
Commit(n, p, o) ==
    /\ Len(watch) < MaxLag
    /\ peers' = [peers EXCEPT ![n] = p]
    /\ watch' = Append(watch, [name |-> n, peer |-> p])
    /\ op' = IF o.pc \in {"list", "write"}
             THEN [o EXCEPT !.allOld = @ \cup {n}, !.mineOld = @ \cup {n}] ELSE o
    /\ UNCHANGED view

\* An API call that the server refuses or that does not get through.
Refused(o) == op' = [o EXCEPT !.failed = TRUE] /\ UNCHANGED store

\* The cache receives the next event.
Deliver ==
    /\ watch # <<>>
    /\ view' = [view EXCEPT ![Head(watch).name] = Head(watch).peer]
    /\ watch' = Tail(watch)
    /\ UNCHANGED <<peers, world, op>>

Change == changes < MaxChanges /\ changes' = changes + 1

\* A node joins, leaves, stops being valid, or changes its key.  A WireGuard
\* key belongs to one node at a time.
SetNode(s, n, k) ==
    /\ Change
    /\ nodes[<<s, n>>] # k
    /\ k # NoKey => \A x \in Sources \X Nodes : nodes[x] # k
    /\ nodes' = [nodes EXCEPT ![<<s, n>>] = k]
    /\ UNCHANGED <<store, phase, sources, op>>

\* Any write to a ClusterMesh makes the copy the reconcile read out of date.
TouchMesh(m) == op' = [op EXCEPT !.crOld = @ \/ op.mesh = m]

EditSpec(m, S) ==
    /\ Change
    /\ phase[m] = "live" /\ sources[m] # S
    /\ sources' = [sources EXCEPT ![m] = S]
    /\ TouchMesh(m)
    /\ UNCHANGED <<store, nodes, phase>>

DeleteMesh(m) ==
    /\ Change
    /\ phase[m] = "live"
    /\ phase' = [phase EXCEPT ![m] = "deleting"]
    /\ TouchMesh(m)
    /\ UNCHANGED <<store, nodes, sources>>

\* A user strips the finalizer by hand, or creates the mesh again.
ForceRelease(m) ==
    /\ Change
    /\ phase[m] = "deleting"
    /\ phase' = [phase EXCEPT ![m] = "gone"]
    /\ TouchMesh(m)
    /\ UNCHANGED <<store, nodes, sources>>

CreateMesh(m) ==
    /\ Change
    /\ phase[m] = "gone"
    /\ phase' = [phase EXCEPT ![m] = "live"]
    /\ TouchMesh(m)
    /\ UNCHANGED <<store, nodes, sources>>

\* A user deletes a Peer by hand.
UserDelete(n) ==
    /\ Change
    /\ peers[n] # NoPeer
    /\ Commit(n, NoPeer, op)
    /\ UNCHANGED <<nodes, phase, sources>>

\* The process stops between two API calls and a new one lists everything.
Restart ==
    /\ Change
    /\ op' = Idle /\ view' = peers /\ watch' = <<>>
    /\ UNCHANGED <<peers, nodes, phase, sources>>

-----------------------------------------------------------------------------
(* ReconcilePeers, for one mesh and one source.                            *)

\* Mutant of Desired: nodes that validation rejected are peered as well.
DesiredUnfiltered(m, s) ==
    [n \in Names |->
        IF \E x \in Nodes : n = PeerName[<<MeshLabel[m], s, x>>]
        THEN LET x == CHOOSE y \in Nodes : n = PeerName[<<MeshLabel[m], s, y>>]
             IN [mesh |-> MeshLabel[m], src |-> s,
                 key |-> nodes[<<s, x>>], ips |-> NodeIPs[<<m, s, x>>]]
        ELSE NoPeer]

\* The peers buildDesiredPeers asks for, by name.
Desired(m, s) ==
    [n \in Names |->
        IF \E x \in Nodes : n = PeerName[<<MeshLabel[m], s, x>>] /\ nodes[<<s, x>>] # NoKey
        THEN LET x == CHOOSE y \in Nodes : /\ n = PeerName[<<MeshLabel[m], s, y>>]
                                           /\ nodes[<<s, y>>] # NoKey
             IN [mesh |-> MeshLabel[m], src |-> s,
                 key |-> nodes[<<s, x>>], ips |-> NodeIPs[<<m, s, x>>]]
        ELSE NoPeer]

\* Mutant of Mine: the selector matches the source label alone.
MineBySource(list, l, s) ==
    [n \in Names |-> IF list[n] # NoPeer /\ list[n].src = s THEN list[n] ELSE NoPeer]

\* OrphanSelector: the listed peers that carry both labels.
Mine(list, l, s) ==
    [n \in Names |-> IF list[n] # NoPeer /\ list[n].mesh = l /\ list[n].src = s
                     THEN list[n] ELSE NoPeer]

\* Mutant of Holders: only Peers with the labels of some mesh are looked up.
HoldersManaged(list, k) ==
    {n \in Present(list) : list[n].mesh # Unlabelled /\ list[n].key = k}

\* buildAllPeersByPublicKey: the lowest name holding a key is the canonical one
\* (the map's entry for the key: one name, or none).
Holders(list, k) == {n \in Present(list) : list[n].key = k}
Canonical(list, k) == {n \in Holders(list, k) : \A x \in Holders(list, k) : n <= x}

\* Reconcile begins for a mesh: Get, then the deletion branch or the sync one.
\* A mesh on its way out is handled from the spec it still has.
StartReconcile(m) ==
    /\ op.pc = "idle"
    /\ phase[m] # "gone"
    /\ op' = [Idle EXCEPT !.pc = "pick", !.mesh = m,
                          !.mode = IF phase[m] = "deleting" THEN "delete" ELSE "sync",
                          !.spec = sources[m], !.left = sources[m]]
    /\ UNCHANGED <<store, world>>

\* The next source of the loop: nodes are listed, the desired peers built (none
\* in the deletion branch), and every Peer of the target listed.
ListAll(s) ==
    /\ op.pc = "pick" /\ s \in op.left
    /\ op' = [op EXCEPT !.pc = "list", !.src = s,
                        !.want = IF op.mode = "sync" THEN Desired(op.mesh, s) ELSE Empty,
                        !.all = view, !.allOld = Pending]
    /\ UNCHANGED <<store, world>>

\* The second List, by label; the cache may have moved since the first.
ListMine ==
    /\ op.pc = "list"
    /\ LET mine == Mine(view, MeshLabel[op.mesh], op.src)
       IN op' = [op EXCEPT !.pc = "write", !.mine = mine, !.mineOld = Pending,
                           !.todo = Present(op.want) \cup Present(mine)]
    /\ UNCHANGED <<store, world>>

\* Mutant of Update: a conflict counts as done, the next event being on its way.
UpdateForgiving(n, p, old, o) ==
    IF n \in old THEN op' = o /\ UNCHANGED store ELSE Commit(n, p, o)

\* Update of a listed object: accepted only if the listed version is current.
Update(n, p, old, o) == IF n \in old THEN Refused(o) ELSE Commit(n, p, o)

\* mergeIntoCanonical: add the routes to the peer that has the key already.
Merge(c, n, o) ==
    LET merged == op.all[c].ips \cup op.want[n].ips
    IN IF merged = op.all[c].ips
       THEN op' = o /\ UNCHANGED store
       ELSE Update(c, [op.all[c] EXCEPT !.ips = merged], op.allOld, o)

\* createOrMerge: a peer that holds the key under another name absorbs this one.
CreateOrMerge(n, o) ==
    LET canonical == Canonical(op.all, op.want[n].key)
    IN \/ \E c \in canonical \ {n} : Merge(c, n, o)
       \/ /\ canonical \subseteq {n}
          /\ IF peers[n] = NoPeer THEN Commit(n, op.want[n], o)
             ELSE Refused(o)                               \* AlreadyExists

\* reconcileDesired, one desired peer.
Write(n) ==
    /\ op.pc = "write" /\ n \in op.todo /\ op.want[n] # NoPeer
    /\ LET o == [op EXCEPT !.todo = @ \ {n}]
       IN \/ /\ IF op.mine[n] = NoPeer THEN CreateOrMerge(n, o)
                ELSE IF op.mine[n] = op.want[n] THEN op' = o /\ UNCHANGED store
                ELSE Update(n, [op.mine[n] EXCEPT !.key = op.want[n].key,
                                                  !.ips = op.want[n].ips], op.mineOld, o)
             /\ UNCHANGED world
          \/ Refused(o) /\ Change /\ UNCHANGED <<nodes, phase, sources>>

\* Mutant of DeleteOrphan: existing peers go whether or not they are wanted.
DeleteExisting(n) ==
    /\ op.pc = "write" /\ n \in op.todo
    /\ LET o == [op EXCEPT !.todo = @ \ {n}]
       IN /\ IF peers[n] = NoPeer THEN Refused(o) ELSE Commit(n, NoPeer, o)
          /\ UNCHANGED world

\* deleteOrphans, one peer, after every desired one: a peer that is already
\* gone is an error here.
DeleteOrphan(n) ==
    /\ op.pc = "write" /\ n \in op.todo
    /\ \A x \in op.todo : op.want[x] = NoPeer
    /\ LET o == [op EXCEPT !.todo = @ \ {n}]
       IN \/ /\ IF peers[n] = NoPeer THEN Refused(o) ELSE Commit(n, NoPeer, o)
             /\ UNCHANGED world
          \/ Refused(o) /\ Change /\ UNCHANGED <<nodes, phase, sources>>

\* ReconcilePeers returns.  pushPeersToTargets aborts the reconcile on an error;
\* handleDeletion logs it and goes on.
EndPass ==
    /\ op.pc = "write" /\ op.todo = {}
    /\ op' = IF op.failed /\ op.mode = "sync" THEN Idle
             ELSE [op EXCEPT !.pc = "pick", !.left = @ \ {op.src}, !.src = "none",
                             !.want = Empty, !.all = Empty, !.mine = Empty,
                             !.allOld = {}, !.mineOld = {}, !.failed = FALSE]
    /\ UNCHANGED <<store, world>>

-----------------------------------------------------------------------------
(* What follows the last source.                                           *)

\* handleDeletion drops the finalizer whatever the passes returned; the Update
\* is refused if the mesh was written since it was read.
DropFinalizer ==
    /\ op.pc = "pick" /\ op.left = {} /\ op.mode = "delete"
    /\ phase' = IF op.crOld THEN phase ELSE [phase EXCEPT ![op.mesh] = "gone"]
    /\ op' = Idle
    /\ UNCHANGED <<store, nodes, sources, changes>>

\* Mutant of StaleNames: the list of valid sources is not consulted.
StaleNamesAll(list) == {n \in Present(list) : list[n].mesh = MeshLabel[op.mesh]}

\* DeleteStaleSourceClusters: peers of this mesh from a source not in its spec.
StaleNames(list) ==
    {n \in Present(list) : /\ list[n].mesh = MeshLabel[op.mesh]
                           /\ list[n].src \notin op.spec}

ListStale ==
    /\ op.pc = "pick" /\ op.left = {} /\ op.mode = "sync"
    /\ op' = [op EXCEPT !.pc = "stale", !.todo = StaleNames(view)]
    /\ UNCHANGED <<store, world>>

\* Mutant of Living: deleted meshes still count.
LivingForever == {MeshLabel[m] : m \in Meshes}

\* collectLivingMeshes and sweepOrphanPeersInCluster: labelled peers whose label
\* no ClusterMesh of any namespace carries.
Living == {MeshLabel[m] : m \in {x \in Meshes : phase[x] # "gone"}}

\* Mutant of OrphanNames: every mesh but the one being reconciled is an orphan.
OrphanNamesOther(list, living) ==
    {n \in Present(list) : list[n].mesh \notin {Unlabelled, MeshLabel[op.mesh]}}

OrphanNames(list, living) ==
    {n \in Present(list) : list[n].mesh # Unlabelled /\ list[n].mesh \notin living}

ListOrphans ==
    /\ op.pc = "stale" /\ op.todo = {}
    /\ op' = [op EXCEPT !.pc = "orphans", !.living = Living,
                        !.todo = OrphanNames(view, Living)]
    /\ UNCHANGED <<store, world>>

\* One delete of a sweep: "not found" is fine, any other error is logged.
SweepDelete(n) ==
    /\ op.pc \in {"stale", "orphans"} /\ n \in op.todo
    /\ LET o == [op EXCEPT !.todo = @ \ {n}]
       IN \/ /\ IF peers[n] = NoPeer THEN op' = o /\ UNCHANGED store
                ELSE Commit(n, NoPeer, o)
             /\ UNCHANGED world
          \/ op' = o /\ Change /\ UNCHANGED <<store, nodes, phase, sources>>

\* The status is written and the mesh requeued.
EndReconcile ==
    /\ op.pc = "orphans" /\ op.todo = {}
    /\ op' = Idle
    /\ UNCHANGED <<store, world>>

-----------------------------------------------------------------------------
Environment ==
    \/ \E s \in Sources, n \in Nodes, k \in Keys \cup {NoKey} : SetNode(s, n, k)
    \/ \E m \in Meshes, S \in SUBSET Sources : EditSpec(m, S)
    \/ \E m \in Meshes : DeleteMesh(m)
    \/ \E m \in Meshes : ForceRelease(m)
    \/ \E m \in Meshes : CreateMesh(m)
    \/ \E n \in Names : UserDelete(n)
    \/ Restart

\* The steps of a reconcile after its start.
Step ==
    \/ \E s \in Sources : ListAll(s)
    \/ ListMine
    \/ \E n \in Names : Write(n)
    \/ \E n \in Names : DeleteOrphan(n)
    \/ EndPass
    \/ DropFinalizer
    \/ ListStale
    \/ ListOrphans
    \/ \E n \in Names : SweepDelete(n)
    \/ EndReconcile

Next ==
    \/ Environment
    \/ Deliver
    \/ \E m \in Meshes : StartReconcile(m)
    \/ Step

Spec == Init /\ [][Next]_vars

\* The watch delivers; a reconcile that has begun goes on; every mesh that
\* exists is taken up again and again (the work queue is fair, a failed
\* reconcile is retried, a finished one is requeued after syncRequeueAfter).
FairSpec ==
    /\ Spec
    /\ WF_vars(Deliver)
    /\ WF_vars(Step)
    /\ \A m \in Meshes : SF_vars(StartReconcile(m))

-----------------------------------------------------------------------------
(* Properties.                                                             *)

OpType ==
    [pc : {"idle", "pick", "list", "write", "stale", "orphans"},
     mode : {"none", "sync", "delete"},
     mesh : Meshes \cup {"none"}, src : Sources \cup {"none"},
     spec : SUBSET Sources, left : SUBSET Sources,
     want : PeerMap, all : PeerMap, mine : PeerMap,
     allOld : SUBSET Names, mineOld : SUBSET Names, living : SUBSET Labels,
     todo : SUBSET Names, failed : BOOLEAN, crOld : BOOLEAN]

\* The types of the variables; the listings and the desired set of a reconcile
\* are always maps from names to well-formed peers.
TypeOK ==
    /\ peers \in PeerMap /\ view \in PeerMap
    /\ watch \in Seq([name : Names, peer : Peer \cup {NoPeer}])
    /\ nodes \in [Sources \X Nodes -> Keys \cup {NoKey}]
    /\ phase \in [Meshes -> {"live", "deleting", "gone"}]
    /\ sources \in [Meshes -> SUBSET Sources]
    /\ changes \in Nat
    /\ op \in OpType
    /\ op.pc # "idle" => op.mesh \in Meshes
    /\ op.pc \in {"list", "write"} => op.src \in Sources

\* A name is generated for this label and source.
NamedFor(n, l, s) == \E x \in Nodes : n = PeerName[<<l, s, x>>]

\* An object sits under a name generated from its own labels, or carries no mesh
\* label and sits under a name the operator never generates.
Owned(n, p) ==
    p # NoPeer =>
        IF p.mesh = Unlabelled THEN \A l \in Labels, s \in Sources : ~NamedFor(n, l, s)
        ELSE p.mesh \in Labels /\ p.src \in Sources /\ NamedFor(n, p.mesh, p.src)

\* Wherever an object is (API server, cache, event), its labels match its name;
\* the cache is the API server's state but for the undelivered events.
CacheSound ==
    /\ \A n \in Names : Owned(n, peers[n]) /\ Owned(n, view[n])
    /\ \A i \in 1..Len(watch) :
        /\ Owned(watch[i].name, watch[i].peer)
        /\ (\A j \in 1..Len(watch) : i < j => watch[j].name # watch[i].name)
            => watch[i].peer = peers[watch[i].name]
    /\ \A n \in Names \ Pending : view[n] = peers[n]

\* The listings of a reconcile o, against the API server's objects P: an object
\* that nobody has written since is the one P has, so an Update that is not
\* refused loses nothing; and a name marked for deletion belongs to the mesh and
\* source, the removed source or the dead mesh that the deletion is meant for.
OpSound(o, P) ==
    /\ \A n \in Names : Owned(n, o.all[n]) /\ Owned(n, o.mine[n]) /\ Owned(n, o.want[n])
    /\ o.pc \in {"list", "write"} =>
        /\ \A n \in Names : n \notin o.allOld => o.all[n] = P[n]
        /\ \A n \in Names : o.want[n] # NoPeer =>
            o.want[n].mesh = MeshLabel[o.mesh] /\ o.want[n].src = o.src
    /\ o.pc = "write" =>
        /\ \A n \in Names : o.mine[n] # NoPeer =>
            /\ o.mine[n].mesh = MeshLabel[o.mesh] /\ o.mine[n].src = o.src
            /\ n \notin o.mineOld => o.mine[n] = P[n]
        /\ \A n \in o.todo : o.want[n] # NoPeer \/ o.mine[n] # NoPeer
    /\ o.pc = "stale" =>
        \A n \in o.todo : \E s \in Sources \ o.spec : NamedFor(n, MeshLabel[o.mesh], s)
    /\ o.pc = "orphans" =>
        \A n \in o.todo : \E l \in Labels \ o.living, s \in Sources : NamedFor(n, l, s)

\* What ReconcilePeers and the sweeps rely on when they act on listings that may
\* be out of date.
ListingsSound == CacheSound /\ OpSound(op, peers)

\* A step of the operator while a reconcile is in progress, no fault injected.
Acting == op.pc # "idle" /\ changes' = changes

LeavesAlone(n) ==
    LET p == peers[n]
        q == peers'[n]
    IN p # NoPeer /\ q # p /\ p.mesh # MeshLabel[op.mesh] =>
         \/ /\ op.pc = "write" /\ q # NoPeer
            /\ q = [p EXCEPT !.ips = q.ips] /\ p.ips \subseteq q.ips
         \/ /\ op.pc = "orphans" /\ q = NoPeer
            /\ p.mesh \notin op.living \cup {Unlabelled}

\* A step of the reconcile of one mesh (ReconcilePeers, the sweeps) leaves a
\* Peer that does not carry this mesh's label alone, with two exceptions: a
\* merge may add routes to it, losing none and changing nothing else, and the
\* orphan sweep may delete it if its label names no ClusterMesh that existed
\* when the sweep listed them.  A Peer made by hand is never deleted.
Isolation == [][Acting => \A n \in Names : LeavesAlone(n)]_vars

DeletesUnwanted(n) ==
    peers[n] # NoPeer /\ peers'[n] = NoPeer /\ peers[n].mesh = MeshLabel[op.mesh] =>
        \/ op.pc = "write" /\ op.want[n] = NoPeer /\ peers[n].src = op.src
        \/ op.pc = "stale" /\ peers[n].src \notin op.spec
        \/ op.pc = "orphans" /\ peers[n].mesh \notin op.living

\* Deletes are by name and follow a listing that may be out of date, and still
\* a reconcile deletes a Peer of its own mesh only if it is one of the source
\* being reconciled that the pass does not want (deleteOrphans), one of a
\* source that left the spec (DeleteStaleSourceClusters), or if the mesh itself
\* had gone by the time of the orphan sweep.
DeletesUnwantedOnly == [][Acting => \A n \in Names : DeletesUnwanted(n)]_vars

Labelled(p, l, s) == p # NoPeer /\ p.mesh = l /\ p.src = s

\* "ReconcilePeers ensures the remote cluster has exactly the desired set of Peers for
\* the given mesh and source cluster": as long as no call of a pass failed, every Peer
\* of the pair that the pass is done with is the desired one under its name, unless it
\* was written after the version in the listing by labels and that one gave no cause to
\* write.  In particular a pass of a deletion that ends without an error leaves only
\* Peers of the pair that the listing missed.
PassExact ==
    op.pc = "write" /\ ~op.failed =>
        \A n \in Names \ op.todo :
            Labelled(peers[n], MeshLabel[op.mesh], op.src) =>
                \/ peers[n] = op.want[n]
                \/ n \in op.mineOld /\ op.mine[n] \in {NoPeer, op.want[n]}

\* The step puts a key into Peer n that Peer x holds.
Twins(n, x) ==
    /\ n # x /\ peers[x] # NoPeer /\ peers'[n] # NoPeer /\ peers'[n].key = peers[x].key
    /\ peers[n] # NoPeer => peers[n].key # peers'[n].key

TwinExplained(n, x) ==
    IF peers[n] = NoPeer
    THEN x \in op.allOld \/ (op.all[n] # NoPeer /\ op.all[n].key = peers[x].key)
    ELSE Labelled(peers[n], MeshLabel[op.mesh], op.src) /\ op.want[n].key = peers[x].key

\* The two ways in which ReconcilePeers can give a key a second Peer, and there is no
\* third.  It creates one, and the Peer that holds the key was written after the listing
\* in which createOrMerge looked for it, or the listing had two already.  Or the node of
\* one of its own Peers changed its key, and the Update in place does not look at all.
DuplicatesExplained == [][Acting => \A n, x \in Names : Twins(n, x) => TwinExplained(n, x)]_vars

\* "This function prevents that" (ReconcilePeers): no two Peers with one key.
NoDuplicateKeys == \A k \in Keys : Cardinality(Holders(peers, k)) <= 1

\* Every valid node of every source of every live mesh has its public key in
\* some Peer of the target.
KeysServed ==
    \A m \in Meshes, s \in Sources, x \in Nodes :
        phase[m] = "live" /\ s \in sources[m] /\ nodes[<<s, x>>] # NoKey
            => Holders(peers, nodes[<<s, x>>]) # {}

\* Once users, nodes and faults are quiet, repeated reconciles put every wanted
\* key into some Peer and keep it there, whichever mesh's Peer carries it and
\* whatever was deleted with another mesh in between.
EventuallyServed == <>[]KeysServed

\* Every Peer with a mesh label is one that a live mesh asks for.
NoLeftovers ==
    \A n \in Present(peers) :
        peers[n].mesh # Unlabelled =>
            \E m \in Meshes, s \in Sources, x \in Nodes :
                /\ phase[m] = "live" /\ s \in sources[m] /\ nodes[<<s, x>>] # NoKey
                /\ n = PeerName[<<MeshLabel[m], s, x>>]

\* As long as one mesh lives to do the sweeps, Peers of departed nodes, of sources
\* removed from a spec and of deleted meshes all go, deletions that failed
\* before the finalizer was dropped included.
EventuallyClean == <>[]((\E m \in Meshes : phase[m] = "live") => NoLeftovers)

\* "AllowedIPs from both reconciles must be merged into the canonical peer".
RoutesMerged ==
    \A m \in Meshes, s \in Sources, x \in Nodes :
        phase[m] = "live" /\ s \in sources[m] /\ nodes[<<s, x>>] # NoKey
            => \E n \in Holders(peers, nodes[<<s, x>>]) : NodeIPs[<<m, s, x>>] \subseteq peers[n].ips

EventuallyMerged == <>[]RoutesMerged

=============================================================================
