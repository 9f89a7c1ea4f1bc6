---------------------------- MODULE ClusterMesh ----------------------------
(***************************************************************************)
(* The life of ClusterMesh resources over several clusters:                *)
(* internal/controller/clustermesh_controller.go, the work queue that      *)
(* drives it, and the restart that internal/restart/watcher.go triggers.   *)
(*                                                                         *)
(* The operator reads ClusterMesh objects from a cache that lags, works on *)
(* one mesh at a time, and writes Peers cluster by cluster.  A pass of     *)
(* ReconcilePeers for one mesh, source and target is one step here (module *)
(* PeerReconcile opens it up), and what it leaves behind is whether the    *)
(* target holds Peers of that mesh from that source.                       *)
(*                                                                         *)
(* All meshes live in one namespace.  Of the nodes of a cluster the model  *)
(* keeps whether filterNodes lets any of them through.  Time is abstracted:*)
(* a mesh that will be reconciled again is in `queue', whether it waits for*)
(* the worker, for the rate limiter or for a RequeueAfter of any length.   *)
(***************************************************************************)
EXTENDS Naturals, FiniteSets

CONSTANTS
    Meshes,      \* names of ClusterMesh resources
    Clusters,    \* clusters, numbered in the order in which specs list them
    Cidrs,       \* what a mesh routes; two meshes overlap iff theirs are equal
    Invalid,     \* the networks of a mesh whose own clusters overlap or do not parse
    Options,     \* the specs users may write for each mesh: clusters and cidr
    Bare,        \* clusters that come up without the Peer CRD
    Gone,        \* "no such object"
    MaxChanges   \* bound: user, node and fault events of a behaviour

\* A ClusterMesh.  Ready=False is only ever written together with
\* NetworksOverlap=True, so `ready' stands for both conditions.
CR == [spec : SUBSET Clusters, cidr : Cidrs \cup {Invalid}, deleting : BOOLEAN, fin : BOOLEAN,
       ready : {"unknown", "True", "False"}]

ASSUME ConstantsAssumption ==
    /\ Options \in [Meshes -> SUBSET [spec : SUBSET Clusters, cidr : Cidrs \cup {Invalid}]]
    /\ \A m \in Meshes : \A x \in Options[m] : \E a, b \in x.spec : a # b   \* MinItems=2
    /\ Clusters \subseteq Nat \ {0}
    /\ Bare \subseteq Clusters
    /\ Gone \notin CR
    /\ "none" \notin Meshes
    /\ MaxChanges \in Nat

VARIABLES
    cr,        \* the API server's ClusterMesh objects
    seen,      \* the operator's cache of them
    behind,    \* the meshes whose cached copy is out of date
    pushed,    \* <<mesh, source, target>>: the target holds Peers of the pair
    valid,     \* clusters with a node that passes validation, as cached
    secrets,   \* clusters whose kubeconfig Secret is readable
    down,      \* clusters whose API server does not answer
    crd,       \* clusters whose API server has the Peer CRD
    registry,  \* clusters the running process has a client for
    boot,      \* the fingerprint it took at startup
    negative,  \* clusters whose REST mapper remembers that there is no Peer kind
    queue,     \* meshes to reconcile, now or after a delay
    forced,    \* history: meshes whose finalizer a user removed by hand
    changes,   \* user, node and fault events so far
    op         \* the reconcile in progress

users == <<forced, changes>>
sites == <<valid, secrets, down, crd>>
process == <<registry, boot, negative>>
vars  == <<cr, seen, behind, pushed, sites, process, queue, users, op>>

\* The worker between two reconciles.  `copy' is the mesh as read at the start
\* and `old' whether it has been written since that version; `src', `left' and
\* `todo' are the source in hand, the sources still to do and the clusters the
\* current loop still has to visit; `want' is whether the source has Peers; `missed'
\* are the passes of a deletion whose error was logged.
Idle == [pc |-> "idle", mesh |-> "none", copy |-> Gone, old |-> FALSE, src |-> 0,
         left |-> {}, todo |-> {}, want |-> FALSE, missed |-> {}]
Fresh(x) == [spec |-> x.spec, cidr |-> x.cidr, deleting |-> FALSE, fin |-> FALSE,
             ready |-> "unknown"]
Exists(C) == {m \in Meshes : C[m] # Gone}

-----------------------------------------------------------------------------
(* Startup and restart.                                                    *)

\* The clusters of all meshes whose kubeconfig could be read.
BuildRegistry(C) == {c \in secrets : \E m \in Exists(C) : c \in C[m].spec}

\* computeFingerprint: for each cluster name the references to it, and whether
\* the Secret behind them is there.  CIDRs and conditions are not part of it.
Fingerprint(C) ==
    [c \in Clusters |->
        LET refs == {m \in Exists(C) : c \in C[m].spec}
        IN [refs |-> Cardinality(refs), secret |-> refs # {} /\ c \in secrets]]

\* A new process: registry and fingerprint taken, caches filled, every mesh
\* enqueued by the initial list.
Start ==
    /\ registry' = BuildRegistry(cr) /\ boot' = Fingerprint(cr) /\ negative' = {}
    /\ seen' = cr /\ behind' = {}
    /\ queue' = Exists(cr)
    /\ op' = Idle

Init ==
    /\ cr \in [Meshes -> CR \cup {Gone}]
    /\ \A m \in Exists(cr) : \E x \in Options[m] : cr[m] = Fresh(x)
    /\ seen = cr /\ behind = {}
    /\ pushed = {}
    /\ valid = Clusters
    /\ secrets = Clusters /\ down = {} /\ crd = Clusters \ Bare
    /\ registry = BuildRegistry(cr) /\ boot = Fingerprint(cr) /\ negative = {}
    /\ queue = Exists(cr)
    /\ forced = {} /\ changes = 0
    /\ op = Idle

\* ChangeWatcher.Reconcile: the cached configuration is not the one at startup.
\* The process exits and is started again.
WatcherRestart ==
    /\ Fingerprint(seen) # boot
    /\ Start
    /\ UNCHANGED <<cr, pushed, sites, users>>

-----------------------------------------------------------------------------
(* Users, nodes and faults.                                                *)

Change == changes < MaxChanges /\ changes' = changes + 1

\* A write to a ClusterMesh: the cache has yet to see it, and a reconcile that
\* holds an earlier version can no longer update the object.
WriteCR(m, v, o) ==
    /\ cr' = [cr EXCEPT ![m] = v]
    /\ behind' = behind \cup {m}
    /\ op' = IF o.pc # "idle" /\ o.mesh = m THEN [o EXCEPT !.old = TRUE] ELSE o

UserWrite(m, v) ==
    /\ Change
    /\ WriteCR(m, v, op)
    /\ UNCHANGED <<seen, pushed, sites, process, queue>>

Create(m, x) ==
    /\ cr[m] = Gone
    /\ UserWrite(m, Fresh(x))
    /\ UNCHANGED forced

Edit(m, x) ==
    /\ cr[m] # Gone /\ [spec |-> cr[m].spec, cidr |-> cr[m].cidr] # x
    /\ UserWrite(m, [cr[m] EXCEPT !.spec = x.spec, !.cidr = x.cidr])
    /\ UNCHANGED forced

\* kubectl delete: gone at once unless a finalizer holds it.
Delete(m) ==
    /\ cr[m] # Gone /\ ~cr[m].deleting
    /\ UserWrite(m, IF cr[m].fin THEN [cr[m] EXCEPT !.deleting = TRUE] ELSE Gone)
    /\ UNCHANGED forced

\* A user removes the finalizer of a mesh that is being deleted.
ForceRelease(m) ==
    /\ cr[m] # Gone /\ cr[m].deleting
    /\ UserWrite(m, Gone)
    /\ forced' = forced \cup {m}

\* The cache catches up with a mesh; anything but a deletion enqueues it (the
\* delete event is filtered out).
Deliver(m) ==
    /\ m \in behind
    /\ seen' = [seen EXCEPT ![m] = cr[m]]
    /\ behind' = behind \ {m}
    /\ queue' = IF cr[m] = Gone THEN queue ELSE queue \cup {m}
    /\ UNCHANGED <<cr, pushed, sites, process, users, op>>

\* A cluster gets its first valid node or loses its last one.  The Node watch of
\* a registered cluster enqueues the meshes that list it, unless the predicates
\* drop the event (neither generation nor annotations changed).
ToggleNodes(c, noticed) ==
    /\ Change
    /\ valid' = IF c \in valid THEN valid \ {c} ELSE valid \cup {c}
    /\ queue' = IF noticed /\ c \in registry
                THEN queue \cup {m \in Exists(seen) : c \in seen[m].spec} ELSE queue
    /\ UNCHANGED <<cr, seen, behind, pushed, secrets, down, crd, process, forced, op>>

\* A kubeconfig Secret appears or disappears.
ToggleSecret(c) ==
    /\ Change
    /\ secrets' = IF c \in secrets THEN secrets \ {c} ELSE secrets \cup {c}
    /\ UNCHANGED <<cr, seen, behind, pushed, valid, down, crd, process, queue, forced, op>>

\* A cluster's API server fails, or answers again.
Outage(c) ==
    /\ Change
    /\ c \notin down /\ down' = down \cup {c}
    /\ UNCHANGED <<cr, seen, behind, pushed, valid, secrets, crd, process, queue, forced, op>>

Recover(c) ==
    /\ c \in down /\ down' = down \ {c}
    /\ UNCHANGED <<cr, seen, behind, pushed, valid, secrets, crd, process, queue, users, op>>

\* Kilo is installed in a cluster, and with it the Peer CRD.
InstallKilo(c) ==
    /\ c \notin crd /\ crd' = crd \cup {c}
    /\ UNCHANGED <<cr, seen, behind, pushed, valid, secrets, down, process, queue, users, op>>

\* The process dies between two calls and is started again.
Crash ==
    /\ Change
    /\ Start
    /\ UNCHANGED <<cr, pushed, sites, forced>>

-----------------------------------------------------------------------------
(* Reconcile.                                                              *)

\* selectResult: an error is retried through the rate limiter, a live mesh is
\* requeued after a delay, everything else waits for an event.
Done == op' = Idle /\ UNCHANGED queue
Requeue == op' = Idle /\ queue' = queue \cup {op.mesh}

\* Mutant of Reading: the resource version that was read does not go into updates.
ReadingUnversioned(m) == [Idle EXCEPT !.mesh = m, !.copy = seen[m]]

\* A reconcile of mesh m that has read its cached copy.
Reading(m) == [Idle EXCEPT !.mesh = m, !.copy = seen[m], !.old = m \in behind]

\* Mutant of AddFinalizer: a refused update does not end the reconcile.
AddFinalizerEager(m) ==
    IF m \in behind
    THEN op' = [Reading(m) EXCEPT !.pc = "validate"] /\ UNCHANGED <<cr, behind, queue>>
    ELSE WriteCR(m, [seen[m] EXCEPT !.fin = TRUE], op) /\ queue' = queue \ {m}

\* The finalizer is added to the version that was read; a conflict is retried.
AddFinalizer(m) ==
    IF m \in behind
    THEN UNCHANGED <<cr, behind, op, queue>>
    ELSE WriteCR(m, [seen[m] EXCEPT !.fin = TRUE], op) /\ queue' = queue \ {m}

\* Get, then: gone, or leaving without our finalizer: done.  No finalizer yet:
\* add it and wait for the event.  Otherwise on to the passes of handleDeletion
\* or to the validation.
Begin(m) ==
    /\ op.pc = "idle" /\ m \in queue
    /\ LET mesh == seen[m]
           o == Reading(m)
       IN \/ /\ mesh # Gone => mesh.deleting /\ ~mesh.fin
             /\ queue' = queue \ {m}
             /\ UNCHANGED <<cr, behind, op>>
          \/ /\ mesh # Gone /\ ~mesh.deleting /\ ~mesh.fin
             /\ AddFinalizer(m)
          \/ /\ mesh # Gone /\ mesh.fin
             /\ op' = IF mesh.deleting
                      THEN [o EXCEPT !.pc = "sources", !.left = mesh.spec]
                      ELSE [o EXCEPT !.pc = "validate"]
             /\ queue' = queue \ {m}
             /\ UNCHANGED <<cr, behind>>
    /\ UNCHANGED <<seen, pushed, sites, process, users>>

\* validateMeshNetworks looks at every mesh of the namespace, and one that is
\* invalid by itself or overlaps with another stops them all.
Overlap(C) ==
    \E m, x \in Exists(C) : C[m].cidr = Invalid \/ (m # x /\ C[m].cidr = C[x].cidr)

\* Mutant of WriteStatus: the whole object as it was read is written back, whatever
\* happened to it since.
WriteStatusBlind(ready, finish) ==
    /\ finish
    /\ cr' = [cr EXCEPT ![op.mesh] = [op.copy EXCEPT !.ready = ready]]
    /\ behind' = behind \cup {op.mesh}

\* Status().Update of the version that was read, refused if that is not current.
\* Nothing is stored if nothing changes; with Ready as it was, the rest of the
\* status (peer counts, messages, observed generation) may still differ.
\* `finish' is what Reconcile returns.
WriteStatus(ready, finish) ==
    IF op.old THEN Requeue /\ UNCHANGED <<cr, behind>>
    ELSE /\ finish
         /\ cr' = [cr EXCEPT ![op.mesh].ready = ready]
         /\ \/ behind' = behind \cup {op.mesh}
            \/ op.copy.ready = ready /\ UNCHANGED behind

\* An overlap anywhere in the namespace ends the reconcile; if the meshes cannot
\* be listed there is taken to be none.
Validate ==
    /\ op.pc = "validate"
    /\ LET go == /\ op' = [op EXCEPT !.pc = "sources", !.left = op.copy.spec]
                 /\ UNCHANGED <<cr, behind, queue>>
       IN \/ ~Overlap(seen) /\ go /\ UNCHANGED changes
          \/ Overlap(seen) /\ WriteStatus("False", Done) /\ UNCHANGED changes
          \/ Overlap(seen) /\ go /\ Change
    /\ UNCHANGED <<seen, pushed, sites, process, forced>>

\* The loops go through the spec in the order of its list.
First(c, S) == c \in S /\ \A x \in S : c <= x

\* Mutant of NextSource: a deletion, too, takes only sources that have a client.
NextSourceRegistered(s) ==
    /\ op.pc = "sources" /\ First(s, op.left)
    /\ LET pass == [op EXCEPT !.pc = "targets", !.src = s, !.left = @ \ {s},
                              !.todo = op.copy.spec \ {s}]
       IN op' = IF s \notin registry THEN [op EXCEPT !.left = @ \ {s}]
                ELSE [pass EXCEPT !.want = ~op.copy.deleting /\ s \in valid]
    /\ UNCHANGED <<cr, seen, behind, pushed, sites, process, queue, users>>

\* reconcileAllClusters, or the outer loop of handleDeletion: the next source.
NextSource(s) ==
    /\ op.pc = "sources" /\ First(s, op.left)
    /\ LET pass == [op EXCEPT !.pc = "targets", !.src = s, !.left = @ \ {s},
                              !.todo = op.copy.spec \ {s}]
       IN op' = IF op.copy.deleting THEN [pass EXCEPT !.want = FALSE]
                ELSE IF s \notin registry THEN [op EXCEPT !.left = @ \ {s}]
                ELSE [pass EXCEPT !.want = s \in valid]
    /\ UNCHANGED <<cr, seen, behind, pushed, sites, process, queue, users>>

\* Mutant of Failed: a deletion waits for the cluster as well.
FailedAlways(o) == Requeue

\* Mutant of Failed: a failed target is logged and the next one taken, deletion or not.
FailedLogged(o) == op' = o /\ UNCHANGED queue

\* Mutant of Failed: the error is logged and the reconcile reported as done.
FailedSwallowed(o) == op' = Idle /\ UNCHANGED queue

\* ReconcilePeers returned an error: pushPeersToTargets passes it on and the
\* reconcile is over, handleDeletion logs it and goes on.
Failed(o) == IF op.copy.deleting THEN op' = o /\ UNCHANGED queue ELSE Requeue

\* A client's REST mapper finds no Peer kind: it remembers that there was none, or
\* discovery does not show one.
NoKindMatch == {c \in registry : c \in negative \/ c \notin crd \cup down}

\* Mutant of RefreshMapperOnNoMatch: the mappers are left as they are.
RefreshMapperNever(t) == negative' = negative \cup {t} /\ UNCHANGED changes

\* The mappers of all clusters are built again; those that cannot be stay as they are.
Reset(t) ==
    \/ negative' = {} /\ UNCHANGED changes
    \/ negative' \in SUBSET (negative \cup {t}) /\ Change

\* What becomes of the mapper of t, which now remembers that there is no Peer kind:
\* it is reset if the error ends Reconcile; handleDeletion swallows the error.
RefreshMapperOnNoMatch(t) ==
    IF op.copy.deleting THEN negative' = negative \cup {t} /\ UNCHANGED changes ELSE Reset(t)

\* ReconcilePeers for the source in hand and one target.  A target without a
\* client is skipped.  One that does not answer is an error, but with nothing to
\* write the cached lists may do.  One without the Peer kind is an error.
Push(t) ==
    /\ op.pc = "targets" /\ First(t, op.todo)
    /\ LET left == op.todo \ {t}
           o == IF left # {} THEN [op EXCEPT !.todo = left]
                ELSE [op EXCEPT !.pc = "sources", !.todo = {}, !.src = 0, !.want = FALSE]
           cell == <<op.mesh, op.src, t>>
           goal == IF op.want THEN pushed \cup {cell} ELSE pushed \ {cell}
           logged == [o EXCEPT !.missed = @ \cup {cell}]
       IN \/ /\ t \notin NoKindMatch
             /\ t \notin registry \/ t \notin down \/ (t \in crd /\ goal = pushed)
             /\ pushed' = IF t \in registry THEN goal ELSE pushed
             /\ op' = o /\ UNCHANGED <<queue, negative, changes>>
          \/ /\ t \in (registry \cap down) \ NoKindMatch
             /\ Failed(logged)
             /\ UNCHANGED <<pushed, negative, changes>>
          \/ /\ t \in NoKindMatch
             /\ Failed(logged)
             /\ RefreshMapperOnNoMatch(t)
             /\ UNCHANGED pushed
    /\ UNCHANGED <<cr, seen, behind, sites, registry, boot, forced>>

\* handleDeletion ends: the finalizer goes whatever the passes did, and with it
\* the object.
DropFinalizer ==
    /\ op.pc = "sources" /\ op.left = {} /\ op.copy.deleting
    /\ IF op.old THEN Requeue /\ UNCHANGED <<cr, behind>>
       ELSE Done /\ cr' = [cr EXCEPT ![op.mesh] = Gone] /\ behind' = behind \cup {op.mesh}
    /\ UNCHANGED <<seen, pushed, sites, process, users>>

\* cleanupStaleSourceClusters: this mesh's Peers of sources, or in targets, that
\* its spec does not list.
Stale ==
    {x \in pushed : x[1] = op.mesh /\ {x[2], x[3]} \cap op.copy.spec # {x[2], x[3]}}

\* Mutant of Orphans: only the mesh in hand is considered.
OrphansOwn == {x \in pushed : x[1] = op.mesh /\ x[1] \notin Exists(seen)}

\* cleanupOrphanMeshPeers: Peers of meshes that collectLivingMeshes did not find.
Orphans == {x \in pushed : x[1] \notin Exists(seen)}

SweepAll(garbage, visited) ==
    /\ pushed' = pushed \ {x \in garbage : x[3] \in visited \ (down \cup NoKindMatch)}
    /\ negative' = negative \cup (visited \cap NoKindMatch)

\* A sweep visits every cluster of the registry, in the spec or not; those that do
\* not answer, have no Peer kind or run into the deadline are logged and left for
\* the next time, no mapper being reset.
Sweep(garbage) ==
    /\ \/ UNCHANGED changes /\ SweepAll(garbage, registry)
       \/ Change /\ \E late \in SUBSET registry : SweepAll(garbage, registry \ late)
    /\ UNCHANGED <<cr, seen, behind, sites, registry, boot, queue, forced>>

SweepStale ==
    /\ op.pc = "sources" /\ op.left = {} /\ ~op.copy.deleting
    /\ op' = [op EXCEPT !.pc = "orphans"]
    /\ Sweep(Stale)

SweepOrphans ==
    /\ op.pc = "orphans"
    /\ op' = [op EXCEPT !.pc = "status"]
    /\ Sweep(Orphans)

\* updateStatus, and a requeue after bootstrapRequeueAfter or syncRequeueAfter.
Finish ==
    /\ op.pc = "status"
    /\ WriteStatus("True", Requeue)
    /\ UNCHANGED <<seen, pushed, sites, process, users>>

-----------------------------------------------------------------------------
Environment ==
    \/ \E m \in Meshes : \E x \in Options[m] : Create(m, x)
    \/ \E m \in Meshes : \E x \in Options[m] : Edit(m, x)
    \/ \E m \in Meshes : Delete(m)
    \/ \E m \in Meshes : ForceRelease(m)
    \/ \E c \in Clusters, noticed \in BOOLEAN : ToggleNodes(c, noticed)
    \/ \E c \in Clusters : ToggleSecret(c)
    \/ \E c \in Clusters : Outage(c)
    \/ \E c \in Clusters : Recover(c)
    \/ \E c \in Clusters : InstallKilo(c)
    \/ Crash

\* The steps of a reconcile after its start.
Step ==
    \/ Validate
    \/ \E s \in Clusters : NextSource(s)
    \/ \E t \in Clusters : Push(t)
    \/ DropFinalizer
    \/ SweepStale
    \/ SweepOrphans
    \/ Finish

Next ==
    \/ Environment
    \/ \E m \in Meshes : Deliver(m)
    \/ \E m \in Meshes : Begin(m)
    \/ WatcherRestart
    \/ Step

Spec == Init /\ [][Next]_vars

\* Watches deliver, a reconcile that has begun goes on, delays elapse and the work
\* queue serves every mesh in it, and a changed configuration is noticed.
FairSpec ==
    /\ Spec
    /\ \A m \in Meshes : WF_vars(Deliver(m)) /\ SF_vars(Begin(m))
    /\ WF_vars(Step)
    /\ WF_vars(WatcherRestart)

-----------------------------------------------------------------------------
(* Properties.                                                             *)

OpType ==
    [pc : {"idle", "validate", "sources", "targets", "orphans", "status"},
     mesh : Meshes \cup {"none"}, copy : CR \cup {Gone}, old : BOOLEAN,
     src : Clusters \cup {0}, left : SUBSET Clusters, todo : SUBSET Clusters,
     want : BOOLEAN, missed : SUBSET (Meshes \X Clusters \X Clusters)]

\* The types of the variables; a reconcile in progress has read a mesh.
TypeOK ==
    /\ cr \in [Meshes -> CR \cup {Gone}] /\ seen \in [Meshes -> CR \cup {Gone}]
    /\ behind \subseteq Meshes
    /\ pushed \subseteq Meshes \X Clusters \X Clusters
    /\ valid \subseteq Clusters /\ secrets \subseteq Clusters /\ down \subseteq Clusters
    /\ crd \subseteq Clusters /\ registry \subseteq Clusters /\ negative \subseteq Clusters
    /\ queue \subseteq Meshes /\ forced \subseteq Meshes
    /\ changes \in Nat
    /\ op \in OpType
    /\ op.pc # "idle" => op.mesh \in Meshes /\ op.copy \in CR /\ op.copy.fin
    /\ op.pc = "targets" => op.src \in Clusters

\* A copy, cached or read by a reconcile, shows the finalizer on a mesh that is not
\* being deleted: then the mesh has it still, unless a user tore it off.
StillHeld(m, copy) ==
    m \notin forced /\ copy # Gone /\ copy.fin /\ ~copy.deleting => cr[m] # Gone /\ cr[m].fin

\* What copies that may be out of date are good for.  The cache is right about every
\* mesh without a pending event, and a reconcile whose update would be accepted
\* holds what both the cache and the API server have; a mesh being deleted has the
\* finalizer, or it would be gone; and no copy shows a finalizer that the operator
\* itself has since removed, other than on a mesh it knew to be leaving.
CopiesSound ==
    /\ \A m \in Meshes :
        /\ m \notin behind => seen[m] = cr[m]
        /\ cr[m] # Gone /\ cr[m].deleting => cr[m].fin
        /\ seen[m] # Gone /\ seen[m].deleting => seen[m].fin
        /\ StillHeld(m, seen[m])
    /\ op.pc # "idle" =>
        /\ ~op.old => seen[op.mesh] = op.copy /\ cr[op.mesh] = op.copy
        /\ StillHeld(op.mesh, op.copy)
    /\ op.pc = "idle" => op.mesh = "none"

\* Peers are only ever pushed for a mesh that holds our finalizer at that moment
\* (or whose finalizer a user tore off), although the reconcile acts on a cached
\* copy and the mesh may be deleted and created again meanwhile: so there is
\* always an object left whose deletion will clean them up.
PushesUnderFinalizer ==
    [][\A m \in Meshes \ forced :
        (\E s, t \in Clusters : <<m, s, t>> \in pushed' \ pushed) => cr[m] # Gone /\ cr[m].fin]_vars

\* A mesh that is being deleted goes, whatever clusters are unreachable, without
\* a client or short of nodes.
DeletionCompletes ==
    \A m \in Meshes : (cr[m] # Gone /\ cr[m].deleting) ~> (cr[m] = Gone \/ ~cr[m].deleting)

\* Mesh m asks for Peers of source s in target t and the operator can provide
\* them.
Wanted(m, s, t) ==
    /\ cr[m] # Gone /\ ~cr[m].deleting
    /\ s # t /\ s \in cr[m].spec /\ t \in cr[m].spec
    /\ {s, t} \subseteq secrets /\ s \in valid

\* Once changes are over and every cluster answers and has the Peer CRD, each mesh
\* that is not marked as overlapping gets the Peers of all its pairs and keeps
\* them: through clusters added to a spec, Secrets and CRDs that arrive late, REST
\* mappers that remember their absence, node events that were filtered out, and
\* conflicts.
EventuallySynced ==
    <>[](down = {} /\ crd = Clusters =>
            \A m \in Meshes, s, t \in Clusters :
                Wanted(m, s, t) /\ cr[m].ready # "False" => <<m, s, t>> \in pushed)

\* Peers that mesh m may still have in t: pairs of its spec whose source has a
\* valid node, or cannot be asked; a mesh marked as overlapping keeps what it has.
Excused(m, s, t) ==
    /\ cr[m] # Gone
    /\ \/ cr[m].ready = "False"
       \/ {s, t} \subseteq cr[m].spec /\ (s \in valid \/ s \notin registry)

\* As long as one mesh is reconciled, whatever else is left goes from every
\* cluster the operator has a client for: Peers of meshes whose deletion met an
\* unreachable cluster, of force-released meshes, of removed clusters.
EventuallyClean ==
    <>[](down = {} /\ (\E m \in Meshes : cr[m] # Gone /\ cr[m].ready = "True") =>
            \A x \in pushed : x[3] \in registry => Excused(x[1], x[2], x[3]))

\* The life of a mesh as its finalizer shapes it, and the clusters with Peers of it.
Phase(x) ==
    IF x = Gone THEN "absent" ELSE IF x.deleting THEN "leaving" ELSE IF x.fin THEN "held" ELSE "plain"

Ownership ==
    INSTANCE MeshOwnership WITH
        phase <- [m \in Meshes |-> Phase(cr[m])],
        marked <- {<<x[1], x[3]>> : x \in pushed},
        torn <- forced

\* The controller implements the finalizer's promise, with caches that lag, one
\* pass per source and target, conflicts and restarts: a mesh under the finalizer
\* goes only by way of a deletion, and Peers of a mesh appear only while it holds
\* the finalizer (or after a user tore it off).
ImplementsOwnership == Ownership!Spec

\* No mesh is forgotten: one that neither an event, a retry nor a timer will bring
\* back to the worker is one that validation stopped, and its status says so.
IdleMeshesBlocked ==
    \A m \in Meshes :
        cr[m] # Gone /\ m \notin queue \cup behind /\ op.mesh # m => cr[m].ready = "False"

\* "deletion to block until the operator has cleaned up Peers on all clusters":
\* when the operator lets go of a mesh no cluster holds Peers of it.
ReleasedClean ==
    [][\A m \in Meshes : cr[m] # Gone /\ cr'[m] = Gone /\ forced' = forced
        => \A s, t \in Clusters : <<m, s, t>> \notin pushed']_vars

\* What a deletion may leave behind, and there is nothing else.  When the operator lets
\* go of a mesh, Peers of it are left only of clusters that the spec no longer lists, in
\* clusters without a client, and where the error of a pass of this very reconcile was
\* logged, through crashes, conflicts and edits while the mesh is leaving.
ReleasedExplained ==
    [][\A m \in Meshes : cr[m] # Gone /\ cr'[m] = Gone /\ changes' = changes =>
        \A s, t \in Clusters : <<m, s, t>> \in pushed' =>
            \/ ~({s, t} \subseteq cr[m].spec)
            \/ t \notin registry
            \/ <<m, s, t>> \in op.missed]_vars

\* A reconcile that gets as far as the orphan sweep, and so to Ready=True, has given each
\* source it has a client for Peers in all the targets it has clients for, or in none,
\* whatever became of nodes, meshes and API servers meanwhile: no failed target was
\* passed over.
AllTargetsAlike ==
    op.pc = "orphans" =>
        \A s \in op.copy.spec \cap registry : \A t, u \in (op.copy.spec \cap registry) \ {s} :
            <<op.mesh, s, t>> \in pushed => <<op.mesh, s, u>> \in pushed

\* "All other failures (node skips, unreachable clusters) ... do not prevent the
\* rest of the mesh from being reconciled": pairs of answering clusters get
\* their Peers.
EventuallyRestSynced ==
    <>[](\A m \in Meshes, s, t \in Clusters \ down :
            Wanted(m, s, t) /\ cr[m].ready # "False" => <<m, s, t>> \in pushed)

=============================================================================
